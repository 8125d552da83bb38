SPECIFICATION Spec
CONSTANTS
    Cells <- MCCells
    Layouts <- MCLayouts
    FooterCells <- MCFooter
    HeaderCells <- MCHeader
    Inks = {0, 1}
    Reds = {0, 1}
    Attempts = {1, 2}
    MaxPartials = 2
    RenderCap = 4
    MaxRetries = 2
INVARIANTS ShownAsAsked BufferTrue RefreshesBounded
PROPERTIES FullsApart
