SPECIFICATION SettingsSpec
CONSTANTS
  Rates <- MCRates
  Pulses <- MCPulses
  Lasts <- MCLasts
  Offsets <- MCOffsets
  StoreLines <- MCLines
INVARIANT ComesUpAsStored
