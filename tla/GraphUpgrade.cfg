\* Every class of relation, from every vintage.
CONSTANT
  Vintages <- MCVintages
SPECIFICATION FairUpgradeSpec
INVARIANT
  UpgradeTypeOK
  RowsUnique
PROPERTY
  KeysHandedOver
  Settled
  UpgradeConverges
