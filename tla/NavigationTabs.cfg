SPECIFICATION Spec
CONSTANTS
    Tabs = {a, b}
    Pages = {"en", "ja"}
    Sections <- PageSections
    Parent <- PageParent
INVARIANTS TypeOK TitleLeadsToCurrent StateLeadsToCurrent
PROPERTIES ReloadRestores OtherVersionsKept
