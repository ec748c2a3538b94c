SPECIFICATION Spec
CONSTANTS
  Interval = 1
  Retention = 2
  Points <- OneToThree
  MaxNow = 4
  MaxWork = 2
  MaxResets = 1
INVARIANTS
  BucketsTile
  MeasuredIsReal
  CompleteWhenUnbroken
