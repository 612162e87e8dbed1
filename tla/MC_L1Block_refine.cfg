CONSTANTS
  None = None
  MaxU256 <- MCMaxU256
  Precision <- MCPrecision
  FjordPrecision <- MCFjordPrecision
  TxInputs <- MCTxInputs
  EstimateTxCompressedSize <- MCEstimate
  L1BaseFees = {1, 256}
  L1FeeOverheads = {0, 100}
  L1FeeScalars = {1, 100}
  BlobBaseFees = {0, 100}
  BaseFeeScalars = {0, 300}
  BlobBaseFeeScalars = {0, 1}
  SequenceNumbers <- MCSequenceNumbers

SPECIFICATION Spec

PROPERTY
  ImplementsVariant
