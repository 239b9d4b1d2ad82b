---------------------------- MODULE Registration ----------------------------
(***************************************************************************)
(* Registration of a producer's Parquet table (register_parquet in         *)
(* adapters/storage/records.py).  The members are staged beside the store, *)
(* hard-linked into the one directory their table digest names, sealed by  *)
(* checksum receipts, and registered as a layer that rewrites none of      *)
(* them.  One registration of a table runs at a time; any step may refuse, *)
(* which cleans up, or be cut short, which does not.  Maintenance removes  *)
(* a layer file by file and may be cut short as well.                      *)
(*                                                                         *)
(* The bytes of a file are what its declared member digest says (Right) or *)
(* not (Wrong); a receipt records the bytes it was computed from.          *)
(***************************************************************************)
EXTENDS Naturals, Sequences, FiniteSets

CONSTANTS
    Members,       \* number of members of the table, listed in digest order
    Right, Wrong,  \* bytes
    Absent,        \* no file
    MaxStarts      \* bound on registrations and removals begun

ASSUME RegistrationAssumption ==
    /\ Members \in Nat
    /\ Right # Absent /\ Wrong # Absent

VARIABLES
    dir,       \* the table's directory exists
    target,    \* [1..Members -> bytes or Absent]: linked members
    receipt,   \* [1..Members -> bytes or Absent]: checksum receipts
    stage,     \* [1..Members -> bytes or Absent]: staged members
    pinned,    \* a layer's root names the members
    call,      \* the registration or removal in progress
    starts

rvars == <<dir, target, receipt, stage, pinned, call, starts>>

Idle == [pc |-> "idle", next |-> 0, created |-> FALSE, placed |-> {}, fresh |-> FALSE]
M == 1..Members
NoMembers == [m \in M |-> Absent]

At(pc) == call.pc = pc
Go(pc) == call' = [call EXCEPT !.pc = pc]

(* Staged files whose bytes their producer declared rightly or wrongly.    *)
Begin(bytes) ==
    /\ At("idle") /\ starts < MaxStarts
    /\ starts' = starts + 1
    /\ stage' = bytes
    /\ dir' = TRUE
    /\ call' = [Idle EXCEPT !.pc = "place", !.next = 1, !.created = ~ dir]
    /\ UNCHANGED <<target, receipt, pinned>>

(* Variant: the receipt of a file that is gone is left in place.           *)
ClearReceiptNever(m) == receipt

(* A receipt without its file describes nothing: it is removed before the  *)
(* link, so that the seal hashes the new file.                             *)
ClearReceipt(m) == [receipt EXCEPT ![m] = IF target[m] = Absent THEN Absent ELSE @]

Clear ==
    /\ At("place") /\ call.next \in M
    /\ receipt' = ClearReceipt(call.next)
    /\ Go("link")
    /\ UNCHANGED <<dir, target, stage, pinned, starts>>

(* os.link never replaces a file an interrupted registration placed.       *)
Link ==
    LET m == call.next
        free == target[m] = Absent
    IN  /\ At("link")
        /\ target' = IF free THEN [target EXCEPT ![m] = stage[m]] ELSE target
        /\ call' = [call EXCEPT !.pc = "seal", !.fresh = free,
                                !.placed = IF free THEN @ \cup {m} ELSE @]
        /\ UNCHANGED <<dir, receipt, stage, pinned, starts>>

(* seal writes a receipt only where there is none.                         *)
SealMember ==
    LET m == call.next
    IN  /\ At("seal")
        /\ receipt' = [receipt EXCEPT ![m] = IF @ = Absent THEN target[m] ELSE @]
        /\ Go("check")
        /\ UNCHANGED <<dir, target, stage, pinned, starts>>

(* The sealed digest must be the member's; a file found in place is hashed *)
(* again.                                                                  *)
Accepted(m) == receipt[m] = Right /\ (call.fresh \/ target[m] = Right)

Check ==
    LET m == call.next
    IN  /\ At("check")
        /\ call' = IF Accepted(m) THEN [call EXCEPT !.pc = "place", !.next = m + 1]
                                  ELSE [call EXCEPT !.pc = "undo"]
        /\ UNCHANGED <<dir, target, receipt, stage, pinned, starts>>

(* add_files and _pin: the layer's root is the last thing written.         *)
Pin ==
    /\ At("place") /\ call.next > Members
    /\ pinned' = TRUE
    /\ Go("unstage")
    /\ UNCHANGED <<dir, target, receipt, stage, starts>>

Unstage ==
    /\ At("unstage")
    /\ stage' = NoMembers
    /\ call' = Idle
    /\ UNCHANGED <<dir, target, receipt, pinned, starts>>

(* An exception before the root is written, such as a refusal by Iceberg.  *)
Refuse ==
    /\ call.pc \in {"place", "link", "seal", "check"}
    /\ Go("undo")
    /\ UNCHANGED <<dir, target, receipt, stage, pinned, starts>>

(* The cleanup of a refusal: the directory if this call made it, otherwise *)
(* each member this call placed, the file before its receipt.              *)
Undoing == IF call.created THEN M ELSE call.placed

UndoFile(m) ==
    /\ At("undo") /\ m \in Undoing /\ target[m] # Absent
    /\ target' = [target EXCEPT ![m] = Absent]
    /\ UNCHANGED <<dir, receipt, stage, pinned, call, starts>>

UndoReceipt(m) ==
    /\ At("undo") /\ m \in Undoing /\ receipt[m] # Absent
    /\ call.created \/ target[m] = Absent
    /\ receipt' = [receipt EXCEPT ![m] = Absent]
    /\ UNCHANGED <<dir, target, stage, pinned, call, starts>>

Undone ==
    /\ At("undo")
    /\ \A m \in Undoing : target[m] = Absent /\ receipt[m] = Absent
    /\ dir' = IF call.created THEN FALSE ELSE dir
    /\ call' = Idle
    /\ UNCHANGED <<target, receipt, stage, pinned, starts>>

(* The process is killed: no cleanup runs.                                 *)
Kill ==
    /\ ~ At("idle")
    /\ call' = Idle
    /\ UNCHANGED <<dir, target, receipt, stage, pinned, starts>>

(* Maintenance removes the layer: no root names it any more, and each      *)
(* member goes before its receipt, as recovery_references lists them.  The *)
(* directory stays.                                                        *)
RemoveLayer ==
    /\ At("idle") /\ pinned /\ starts < MaxStarts
    /\ starts' = starts + 1
    /\ pinned' = FALSE
    /\ call' = [Idle EXCEPT !.pc = "undo", !.placed = M]
    /\ UNCHANGED <<dir, target, receipt, stage>>

RegistrationInit ==
    /\ dir = FALSE /\ target = NoMembers /\ receipt = NoMembers /\ stage = NoMembers
    /\ pinned = FALSE /\ call = Idle /\ starts = 0

RegistrationNext ==
    \/ \E bytes \in [M -> {Right, Wrong}] : Begin(bytes)
    \/ Clear \/ Link \/ SealMember \/ Check \/ Pin \/ Unstage
    \/ Refuse \/ Undone \/ Kill \/ RemoveLayer
    \/ \E m \in M : UndoFile(m) \/ UndoReceipt(m)

RegistrationSpec == RegistrationInit /\ [][RegistrationNext]_rvars

-----------------------------------------------------------------------------
(* A registered table keeps holding exactly the members its digest names,  *)
(* under receipts of those bytes, whatever interrupted attempts, refused   *)
(* repeats of the same table and cut-short removals left in its directory. *)
RegisteredExact ==
    pinned => \A m \in M : target[m] = Right /\ receipt[m] = Right
=============================================================================
