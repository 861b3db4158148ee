CONSTANTS
  small = small
  big1 = big1
  big2 = big2
  Record = {small, big1, big2}
  Large = {big1, big2}
  MaxKills = 2
  MaxOutages = 2
SPECIFICATION Spec
INVARIANTS
  RecordsResolve
  AckedRecordsStay
