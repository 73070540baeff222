\* The whole way from manifests to chains, over families of inputs.
CONSTANTS
  MAX_ADDITIONAL_FILTERS = 2
  OverrideName <- O
  KnownExtensions <- MCKnown
  UnsupportedExtensions = {"display"}
  LoaderExtensions <- MCLoader
  Inputs <- MCInputs
  Requests <- MCRequests
SPECIFICATION Spec
INVARIANTS
  ChainsOrdered
  ExcludedStaysOut
  ReportedIsAccepted
  FiltersSelect
  
  AskedForIsActive
  DeviceExtensionsFit
