------------------------------ MODULE FieldKeys ------------------------------
(***************************************************************************)
(* The keys of the encrypted columns: what Flask (src/crypto.py) and the Go *)
(* ingest service (src/internal/ingest/fernet.go) each make of the setting  *)
(* DB_ENCRYPTION_KEY, and what a reader gets of a value stored under a key. *)
(* Keys and values are compared only; a Fernet token under one key is never *)
(* accepted under another.                                                  *)
(***************************************************************************)
CONSTANTS
    Settings,    \* strings an operator may choose
    FernetKeys,  \* those of them that are themselves an encoded Fernet key
    Unset        \* DB_ENCRYPTION_KEY is unset or empty

ASSUME SettingsAreStrings == FernetKeys \subseteq Settings /\ Unset \notin Settings

NoKey == [derivation |-> "none", setting |-> Unset]

Keys == [derivation : {"sha256", "decoded"}, setting : Settings] \cup {NoKey}

(* Fault: an empty setting is hashed like any other. *)
FaultFlaskKey(s) == [derivation |-> "sha256", setting |-> s]

(* get_fernet: SHA-256 of any string. *)
FlaskKey(s) == IF s = Unset THEN NoKey ELSE [derivation |-> "sha256", setting |-> s]

(* newFernetKeys: the string itself, decoded; NewService fails on others. *)
MayStart(s) == s = Unset \/ s \in FernetKeys
GoKey(s) == IF s = Unset THEN NoKey ELSE [derivation |-> "decoded", setting |-> s]

(* encrypt_field, Encrypt: the key a value is stored under, NoKey: as it is. *)
Encrypt(key) == key

(* decrypt_field: a value that is no token under the reader's key is        *)
(* returned as it is stored, which is the text only if it was plaintext.    *)
DecryptsToText(stored, key) == stored = NoKey \/ stored = key

=============================================================================
