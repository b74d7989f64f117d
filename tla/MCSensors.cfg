CONSTANTS
    Machines <- MCMachines
    Specs <- MCSpecs
    PackageNames <- MCPackageNames

SPECIFICATION Spec

INVARIANTS
    ListedAreReported
    SelectedAreReported
    EnergyToldOnce
    UnitsTellValues
