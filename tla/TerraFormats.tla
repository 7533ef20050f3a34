---------------------------- MODULE TerraFormats ----------------------------
(***************************************************************************)
(* Opening a store (io/terra_db.rs, io/db_item.rs, store/storage.rs): each *)
(* column family has the codec version of the program that opens it, and a *)
(* marker beside the data says under which version it was initialised.     *)
(* Version 1 is the format of the stores without markers. Programs of      *)
(* several releases open one directory, one after the other for writing,   *)
(* and may stop at any point. Rows are abstracted to the versions they     *)
(* were encoded with.                                                      *)
(*                                                                         *)
(* RocksDB is external: a lock keeps a second writer out; a writer must    *)
(* name all column families and creates those that miss; a reader names    *)
(* families that exist and keeps what it saw when it opened.               *)
(***************************************************************************)
EXTENDS Naturals

CONSTANTS
  Families,  \* column families
  Versions,  \* codec versions
  Programs   \* releases: each maps its families to their FORMAT_VERSION

ASSUME TerraFormatsAssumption ==
  /\ Versions \subseteq Nat \ {0}
  /\ Programs \subseteq UNION {[F -> Versions] : F \in SUBSET Families}

Legacy == 1
Unmarked == 0
Nobody == {}

VARIABLES
  families,  \* column families that exist
  marker,    \* terra.codec.<family>, or Unmarked
  encoded,   \* the versions the rows of a family were encoded with
  opening,   \* the program that has opened the directory, before it validates
  writer,    \* the program that has the store open for writing
  reader     \* a program that has it open for reading, and the rows it sees

formatVars == <<families, marker, encoded, opening, writer, reader>>

FormatInit ==
  /\ families = {}
  /\ marker = [f \in Families |-> Unmarked]
  /\ encoded = [f \in Families |-> {}]
  /\ opening = Nobody
  /\ writer = Nobody
  /\ reader = Nobody

-----------------------------------------------------------------------------
(***************************************************************************)
(* validate_formats                                                        *)
(***************************************************************************)
\* Mutant: a store without markers is taken for a new one.
Fresh(f, readOnly) == ~readOnly

\* A family without a marker is initialised if no row was stored in it.
Initialisable(f, readOnly) == encoded[f] = {} /\ ~readOnly

Compatible(p, readOnly) ==
  \A f \in DOMAIN p :
    IF marker[f] # Unmarked THEN marker[f] = p[f]
    ELSE p[f] # Legacy => Initialisable(f, readOnly)

\* Mutant: the markers are prepared and never written.
NoMarkers(p) == marker

\* All families are validated, then the new markers are written together.
Marked(p) ==
  [f \in Families |-> IF f \in DOMAIN p /\ marker[f] = Unmarked /\ p[f] # Legacy
                      THEN p[f] ELSE marker[f]]

\* open_internal: families that miss are created before any is validated.
Open(p) ==
  /\ opening = Nobody /\ writer = Nobody
  /\ families \subseteq DOMAIN p
  /\ families' = families \cup DOMAIN p
  /\ opening' = {p}
  /\ UNCHANGED <<marker, encoded, writer, reader>>

Validate(p) ==
  /\ opening = {p}
  /\ Compatible(p, FALSE)
  /\ marker' = Marked(p)
  /\ opening' = Nobody
  /\ writer' = {p}
  /\ UNCHANGED <<families, encoded, reader>>

Refuse(p) ==
  /\ opening = {p}
  /\ ~Compatible(p, FALSE)
  /\ opening' = Nobody
  /\ UNCHANGED <<families, marker, encoded, writer, reader>>

OpenReadOnly(p) ==
  /\ DOMAIN p \subseteq families
  /\ Compatible(p, TRUE)
  /\ reader' = {[program |-> p, rows |-> encoded]}
  /\ UNCHANGED <<families, marker, encoded, opening, writer>>

-----------------------------------------------------------------------------
\* A batch puts rows of one family.
Put(f) ==
  /\ \E p \in writer : /\ f \in DOMAIN p
                       /\ encoded' = [encoded EXCEPT ![f] = @ \cup {p[f]}]
  /\ UNCHANGED <<families, marker, opening, writer, reader>>

\* A batch deletes the last rows of one family.
Clear(f) ==
  /\ \E p \in writer : f \in DOMAIN p
  /\ encoded' = [encoded EXCEPT ![f] = {}]
  /\ UNCHANGED <<families, marker, opening, writer, reader>>

\* The writing program ends, or dies, at any point.
Stop ==
  /\ opening # Nobody \/ writer # Nobody
  /\ opening' = Nobody
  /\ writer' = Nobody
  /\ UNCHANGED <<families, marker, encoded, reader>>

StopReader ==
  /\ reader # Nobody
  /\ reader' = Nobody
  /\ UNCHANGED <<families, marker, encoded, opening, writer>>

FormatNext ==
  \/ \E p \in Programs : Open(p) \/ Validate(p) \/ Refuse(p) \/ OpenReadOnly(p)
  \/ \E f \in Families : Put(f) \/ Clear(f)
  \/ Stop
  \/ StopReader

FormatSpec == FormatInit /\ [][FormatNext]_formatVars

-----------------------------------------------------------------------------
(***************************************************************************)
(* Properties                                                              *)
(***************************************************************************)
\* A program never has rows of another version before it: through upgrades,
\* downgrades and crashes, whatever it can read it can decode.
DecodesItsOwn ==
  /\ \A p \in writer : \A f \in DOMAIN p : encoded[f] \subseteq {p[f]}
  /\ \A r \in reader : \A f \in DOMAIN r.program : r.rows[f] \subseteq {r.program[f]}

Reopens(p) == families \subseteq DOMAIN p /\ Compatible(p, FALSE)

\* A program that had the store open can open it again after it stopped.
StoppedStoresReopen ==
  [][\A p \in writer : writer' = Nobody => Reopens(p)']_formatVars
=============================================================================
