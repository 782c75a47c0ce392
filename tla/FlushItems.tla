----------------------------- MODULE FlushItems -----------------------------
(***************************************************************************)
(* entity.FlushItem: a chunk's key and the chunk encrypted with it, as one *)
(* record [uuid, version, secret].  The secret stands for the AES key in   *)
(* the key table and for the ciphertext and nonce made with it in the data *)
(* table; two items with different secrets do not decrypt each other.      *)
(***************************************************************************)

CONSTANT FlushItem

\* PRIMARY KEY (uuid, version), the same in both tables.
SamePrimaryKey(x, y) == x.uuid = y.uuid /\ x.version = y.version
=============================================================================
