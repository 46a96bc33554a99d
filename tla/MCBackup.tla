------------------------------ MODULE MCBackup ------------------------------
EXTENDS BackupReconciler
=============================================================================
