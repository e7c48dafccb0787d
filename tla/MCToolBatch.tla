---------------------------- MODULE MCToolBatch ----------------------------
EXTENDS ToolBatchProps
=============================================================================
