SPECIFICATION MCSpec
CONSTANTS
    Proc = {p1, p2}
    None = None
    Builders <- PagedRequests
    Request <- Numbers
    Shape <- ShapeNr
    Compiled <- CompiledNr
    ScanKey <- ScanKeyNr
    Columns <- ColumnsNr
    Executes <- ExecutesNr
    Asks <- AsksNr
    Reads <- IsSelect
    RequestScoped <- HasTenant
INVARIANT RunsOwnQuery
