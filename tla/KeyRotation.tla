---------------------------- MODULE KeyRotation -----------------------------
(***************************************************************************)
(* Secrets at rest, and the keys they are encrypted under.  The backend    *)
(* loads a set of key versions when it starts and encrypts with the        *)
(* highest.  A row of workspace_api_keys carries the version of all its    *)
(* columns and is written whole; the legacy columns of users and the       *)
(* columns of assistant_integrations carry none, and may hold plaintext.   *)
(* Three programs, run by hand beside the backend, encrypt what is still   *)
(* plaintext, decrypt it again, and compute the fingerprints by which an   *)
(* integration is found: with the keys that were loaded when they started. *)
(*                                                                         *)
(* A cell is a secret and the version it is encrypted under (0: none).     *)
(* "junk" is a ciphertext that was taken for a secret.                     *)
(***************************************************************************)
EXTENDS Tasks

CONSTANTS
    Providers,      \* columns of workspace_api_keys
    Strict,         \* those whose legacy columns have always been encrypted
    Secrets,        \* the keys and numbers users enter
    MaxKeyVersion   \* bound: key versions

ASSUME KeyRotationAssumption == Strict \subseteq Providers /\ MaxKeyVersion \in Nat \ {0}

VARIABLES
    loaded,         \* key versions loaded by the backend
    row,            \* the row of workspace_api_keys
    legacy,         \* the columns of users
    phone,          \* config_phone_number of an integration
    fp,             \* config_phone_fp of it
    saved,          \* history: the key last saved for each provider
    number,         \* history: the number last saved
    krMessy,        \* history: what two tasks wrote at once, or half wrote
    unindexed       \* history: no fingerprint since the keys that count changed

krTables == <<loaded, row, legacy, phone, fp>>
krVars   == <<krTables, saved, number, krMessy, unindexed>>

Empty == [key |-> 0, of |-> "none"]
NoKeyRow == [version |-> 0, cols |-> [p \in Providers |-> Empty]]
NoFp  == [key |-> 0, of |-> "none"]

Current(keys) == CHOOSE v \in keys : \A w \in keys : w <= v
Lowest(keys)  == CHOOSE v \in keys : \A w \in keys : v <= w

Encrypt(keys, s) == [key |-> Current(keys), of |-> s]
Version(r)       == IF r.version = 0 THEN 1 ELSE r.version

\* decrypt tries every loaded key.
Opens(cell, keys) == cell.key \in keys

\* try_decrypt_or_passthrough
Passed(cell, keys) ==
    IF Opens(cell, keys) \/ cell.key = 0 THEN cell.of ELSE "junk"

\* The HMAC key is derived from the lowest version that is loaded.
Fingerprint(keys, s) == IF s = "none" THEN NoFp ELSE [key |-> Lowest(keys), of |-> s]

\* get_decrypted_api_key: the row's column under the row's version, or else
\* the column of users.
KeyOf(p) ==
    LET cell == row.cols[p] IN
    IF cell # Empty
    THEN IF cell.key = Version(row) /\ cell.key \in loaded THEN cell.of ELSE "error"
    ELSE IF legacy[p] = Empty THEN "none"
    ELSE IF p \in Strict /\ ~Opens(legacy[p], loaded) THEN "error"
    ELSE Passed(legacy[p], loaded)

\* A row from before migration 101 has no version; a user from before the
\* columns were encrypted has some in plaintext.
KeyRotationInit ==
    /\ loaded = {1}
    /\ \E p \in Providers, s \in Secrets :
        \/ /\ row = NoKeyRow
           /\ legacy = [NoKeyRow.cols EXCEPT
                ![p] = [key |-> IF p \in Strict THEN 1 ELSE 0, of |-> s]]
        \/ /\ row = [version |-> 0, cols |-> [NoKeyRow.cols EXCEPT ![p] = [key |-> 1, of |-> s]]]
           /\ legacy = NoKeyRow.cols
    /\ saved = [p \in Providers |-> KeyOf(p)]
    /\ \E s \in Secrets : phone = [key |-> 0, of |-> s] /\ number = s
    /\ fp = NoFp /\ unindexed = TRUE
    /\ krMessy = {}

-----------------------------------------------------------------------------
(* Calls begin.  The three programs are tasks of their own processes. *)

Programs == {"encrypt_legacy", "decrypt_legacy", "backfill_fp"}

\* What a call writes, and so must not write at the same time as another.
Touches(op) ==
    CASE op \in {"save_keys", "delete_keys"} -> {"row"}
      [] op \in {"save_integration", "backfill_fp", "decrypt_legacy"} -> {"phone"}
      [] op = "encrypt_legacy" -> {"phone", "legacy"}
      [] OTHER -> {}

BeginKr(t, op, at, arg) ==
    /\ BeginWith(t, op, at, arg, loaded)
    /\ krMessy' = krMessy \cup (Touches(op) \cap UNION {Touches(call[u].op) : u \in Others(t)})
    /\ UNCHANGED <<krTables, saved, number, unindexed>>

\* update_api_keys sets, clears or keeps each key; update_integration the number.
KeyCalls(t) ==
    \/ \E p \in Providers, s \in Secrets \cup {"clear"} :
            BeginKr(t, "save_keys", "read", [p |-> p, is |-> s])
    \/ \E s \in Secrets \cup {"keep"} : BeginKr(t, "save_integration", "read", [is |-> s])
    \/ (\A p \in Providers : legacy[p] = Empty) /\ BeginKr(t, "delete_keys", "delete", <<>>)

ProgramRuns(t) == \E op \in Programs : BeginKr(t, op, "phone", <<>>)

-----------------------------------------------------------------------------
(* update_api_keys: read the row, write it whole *)

\* Mutant of CarryOver: the ciphertext is copied, whatever its version.
CarryOverAsIs(cell, r, keys) == cell

\* What is kept is encrypted again when the row is of another version.
CarryOver(cell, r, keys) ==
    IF cell = Empty \/ Version(r) = Current(keys) THEN cell ELSE Encrypt(keys, cell.of)

\* An unknown version, or a ciphertext of another key, ends the call.
CanCarry(r, keys, but) ==
    \A p \in Providers \ {but} : r.cols[p] # Empty /\ Version(r) # Current(keys) =>
        Version(r) \in keys /\ r.cols[p].key = Version(r)

ReadKeys(t) ==
    /\ On(t, "save_keys", "read")
    /\ IF CanCarry(row, Got(t), Arg(t).p)
       THEN Learn(t, "write", [keys |-> Got(t), row |-> row])
       ELSE Finish(t)
    /\ UNCHANGED krVars

WriteKeys(t) ==
    /\ On(t, "save_keys", "write")
    /\ LET keys == Got(t).keys
           a    == Arg(t)
           new  == IF a.is = "clear" THEN Empty ELSE Encrypt(keys, a.is) IN
        /\ row' = [version |-> Current(keys),
                   cols |-> [p \in Providers |->
                       IF p = a.p THEN new ELSE CarryOver(Got(t).row.cols[p], Got(t).row, keys)]]
        /\ saved' = [saved EXCEPT ![a.p] = IF a.is = "clear" THEN "none" ELSE a.is]
    /\ Finish(t)
    /\ UNCHANGED <<loaded, legacy, phone, fp, number, krMessy, unindexed>>

\* delete_workspace deletes the row, of a workspace that is not personal.
DeleteKeyRow(t) ==
    /\ On(t, "delete_keys", "delete")
    /\ row' = NoKeyRow /\ saved' = [p \in Providers |-> "none"]
    /\ Finish(t)
    /\ UNCHANGED <<loaded, legacy, phone, fp, number, krMessy, unindexed>>

-----------------------------------------------------------------------------
(* update_integration: read and decrypt, write encrypted, then the fingerprint *)

ReadIntegration(t) ==
    /\ On(t, "save_integration", "read")
    /\ Learn(t, "write", [keys |-> Got(t),
            is |-> IF Arg(t).is = "keep" THEN Passed(phone, Got(t)) ELSE Arg(t).is])
    /\ UNCHANGED krVars

WriteIntegration(t) ==
    /\ On(t, "save_integration", "write")
    /\ phone' = Encrypt(Got(t).keys, Got(t).is)
    /\ number' = IF Arg(t).is = "keep" THEN number ELSE Arg(t).is
    /\ Goto(t, "fp")
    /\ UNCHANGED <<loaded, row, legacy, fp, saved, krMessy, unindexed>>

WriteFingerprint(t) ==
    /\ On(t, "save_integration", "fp")
    /\ fp' = Fingerprint(Got(t).keys, Got(t).is)
    /\ unindexed' = (Got(t).keys # loaded)
    /\ Finish(t)
    /\ UNCHANGED <<loaded, row, legacy, phone, saved, number, krMessy>>

-----------------------------------------------------------------------------
(* The programs: a column is read as a whole, then written row by row. *)

ScanPhone(t) ==
    /\ \E op \in Programs : On(t, op, "phone")
    /\ Learn(t, "write", [keys |-> Got(t), cell |-> phone])
    /\ UNCHANGED krVars

NextColumn(t) ==
    IF call[t].op = "encrypt_legacy"
    THEN Learn(t, "legacy", [keys |-> Got(t).keys, todo |-> Providers \ Strict])
    ELSE Finish(t)

\* classify: what decrypts is ciphertext, anything else is plaintext.
WritePhone(t) ==
    /\ \E op \in {"encrypt_legacy", "decrypt_legacy"} : On(t, op, "write")
    /\ LET cell == Got(t).cell
           open == Opens(cell, Got(t).keys) IN
        IF call[t].op = "encrypt_legacy"
        THEN phone' = IF open THEN phone
                      ELSE Encrypt(Got(t).keys, IF cell.key = 0 THEN cell.of ELSE "junk")
        ELSE phone' = IF open THEN [key |-> 0, of |-> cell.of] ELSE phone
    /\ NextColumn(t)
    /\ UNCHANGED <<loaded, row, legacy, fp, saved, number, krMessy, unindexed>>

BackfillFp(t) ==
    /\ On(t, "backfill_fp", "write")
    /\ fp' = Fingerprint(Got(t).keys, Passed(Got(t).cell, Got(t).keys))
    /\ unindexed' = (Got(t).keys # loaded)
    /\ Finish(t)
    /\ UNCHANGED <<loaded, row, legacy, phone, saved, number, krMessy>>

ScanLegacy(t) ==
    /\ On(t, "encrypt_legacy", "legacy")
    /\ IF Got(t).todo = {} THEN Finish(t)
       ELSE \E p \in Got(t).todo :
            Learn(t, "seal", [keys |-> Got(t).keys, todo |-> Got(t).todo \ {p},
                              p |-> p, cell |-> legacy[p]])
    /\ UNCHANGED krVars

WriteLegacy(t) ==
    /\ On(t, "encrypt_legacy", "seal")
    /\ LET g == Got(t) IN
        /\ legacy' = IF g.cell = Empty \/ Opens(g.cell, g.keys) THEN legacy
                     ELSE [legacy EXCEPT ![g.p] =
                             Encrypt(g.keys, IF g.cell.key = 0 THEN g.cell.of ELSE "junk")]
        /\ Learn(t, "legacy", [keys |-> g.keys, todo |-> g.todo])
    /\ UNCHANGED <<loaded, row, phone, fp, saved, number, krMessy, unindexed>>

-----------------------------------------------------------------------------
(* The operator changes the keys and restarts the backend: its calls end,  *)
(* the programs go on with the keys they have.                             *)

Ending == {t \in Tasks : Running(t) /\ call[t].op \notin Programs}
Going  == {t \in Tasks : Running(t) /\ call[t].op \in Programs}

Restart(keys) ==
    /\ loaded' = keys
    /\ call' = [t \in Tasks |-> IF t \in Ending THEN NoCall ELSE call[t]]
    /\ crowded' = (crowded /\ Going # {})
    /\ krMessy' = krMessy \cup (UNION {Touches(call[t].op) : t \in Going})
                      \cup (IF \E t \in Ending : On(t, "save_integration", "fp")
                            THEN {"phone"} ELSE {})
    /\ unindexed' = (unindexed \/ Lowest(keys) # Lowest(loaded))
    /\ UNCHANGED <<calls, drops, row, legacy, phone, fp, saved, number>>

AddKey ==
    /\ Current(loaded) < MaxKeyVersion
    /\ Restart(loaded \cup {Current(loaded) + 1})

\* The oldest key goes when no row, column or program needs it any more.
RetireKey ==
    LET v == Lowest(loaded) IN
    /\ v # Current(loaded) /\ Going = {}
    /\ \A p \in Providers : row.cols[p].key # v /\ legacy[p].key # v
    /\ phone.key # v
    /\ Restart(loaded \ {v})

DropKr(t) ==
    /\ Drop(t)
    /\ krMessy' = krMessy \cup (IF On(t, "save_integration", "fp") THEN {"phone"} ELSE {})
    /\ UNCHANGED <<krTables, saved, number, unindexed>>

KeyRotationStep(t) ==
    \/ KeyCalls(t) \/ ProgramRuns(t)
    \/ ReadKeys(t) \/ WriteKeys(t) \/ DeleteKeyRow(t)
    \/ ReadIntegration(t) \/ WriteIntegration(t) \/ WriteFingerprint(t)
    \/ ScanPhone(t) \/ WritePhone(t) \/ BackfillFp(t) \/ ScanLegacy(t) \/ WriteLegacy(t)
    \/ DropKr(t)

KeyRotationNext == AddKey \/ RetireKey \/ \E t \in Tasks : KeyRotationStep(t)

-----------------------------------------------------------------------------
(* What rotation promises. *)

\* The key that was saved last for a provider is the one the backend reads:
\* whichever keys it has loaded since, whatever was written to the other
\* columns of the row, and whatever the programs have rewritten.  Two updates
\* of the row at once are excepted: the later one writes what it has read.
KeysSurvive ==
    {"row", "legacy"} \cap krMessy = {} =>
        \A p \in Providers : saved[p] # "none" => KeyOf(p) = saved[p]

\* The number of an integration is read as it was saved, through encryption,
\* decryption, and both again after a rotation, as long as no program runs
\* while the integration is saved or the keys change.
NumberSurvives == "phone" \notin krMessy => Passed(phone, loaded) = number

\* An integration is found by its number once its fingerprint was written
\* under the keys that count: adding keys never loses it.
LookupFinds ==
    /\ "phone" \notin krMessy /\ ~unindexed
    /\ \A t \in Tasks : ~On(t, "save_integration", "fp")
    => fp = Fingerprint(loaded, number)

\* What users entered is what the programs read, before, during and after a
\* rotation (update_api_keys, decrypt, the migration and rotation programs).
SecretsSurvive == KeysSurvive /\ NumberSurvives /\ LookupFinds
=============================================================================
