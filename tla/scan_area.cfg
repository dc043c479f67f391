CONSTANTS
  Models <- MCModels
  Devices <- MCDevices
  Answers <- MCAnswers
  Corners <- MCCorners
  Resolutions <- MCResolutions
  MaxSets = 3
SPECIFICATION Spec
INVARIANTS TypeOK AreaOnGlass PictureAsAsked ParametersHold
