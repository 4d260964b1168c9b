-------------------------- MODULE MCStorageWriter ---------------------------
EXTENDS StorageWriter
=============================================================================
