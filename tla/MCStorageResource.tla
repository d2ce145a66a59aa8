-------------------------- MODULE MCStorageResource --------------------------
(* A storage resource with its writer, one waiter and one reader.          *)
EXTENDS StorageResource
=============================================================================
