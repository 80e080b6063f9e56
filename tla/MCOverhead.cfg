CONSTANTS
  Thread = {t1, t2, t3}
  NoThread = NoThread
SPECIFICATION FairSpec
INVARIANTS
  TypeOK
  NoReentrantCalibration
  OutermostCorrected
  SamplesUniform
PROPERTIES
  MeasurementReturns
  ImplementsCalibration
