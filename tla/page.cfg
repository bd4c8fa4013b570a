CONSTANTS
    Runs <- Histories
    QuickViews <- Views
    Fields <- TypeField
    Matches <- Matched
    Drafts <- Edited
    Viewport = 1
    Overscan = 1
    MaxIntents = 4
    Nobody = Nobody
    MaxMoves = 2
    Descriptors <- ShopModels
    Judged = {"paid"}
    Scenarios <- ShopDocuments
    Insertions <- ShopEntries
    AuthorEdits = 2
    Designs <- SlotModels
    Packed <- SlotLesson
    Allowance <- SlotAllowance
    Offers <- SlotEntries
    StudentEntries = 4
    Recordable <- CheckoutRecords
    Drawn <- DrawnLinks
    BlankText = BlankText
    JunkText = JunkText
    NoSession = NoSession
    NoEdit = NoEdit
    MaxFaults = 2
    Paired <- LessonPair
    Typable <- Typed
    Denoted <- Certain
    Written = {"1"}
    Printed <- ShownCertain
SPECIFICATION PageSpec
CHECK_DEADLOCK FALSE
INVARIANTS AcceptedComposes OverlayMeansWhatItSays DraftDescribesTheRun PaintsTheRecord
PROPERTY NavigationKeepsFaith
