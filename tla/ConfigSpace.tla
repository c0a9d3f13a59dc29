----------------------------- MODULE ConfigSpace ----------------------------
(***************************************************************************)
(* Reading a field of the configuration space of a virtio device:          *)
(* virtio_config_get, vpci_legacy_pci_config_get and                       *)
(* virtio_cread_bytes_many, which reads a field byte by byte, twice, until *)
(* both readings agree.  The device may change the field between any two   *)
(* reads of the hart.                                                      *)
(***************************************************************************)
EXTENDS Integers, TLAPS

CONSTANTS
  len,            \* the length of the field
  Byte,           \* the values of a byte
  MAX_TRY_COUNT,
  MaxChanges,     \* bound: changes of the field are counted up to here
  EFAULT, NULL

ConfigAssumption ==
  /\ len \in Nat \ {0} /\ MAX_TRY_COUNT \in Nat \ {0}
  /\ MaxChanges \in Nat /\ MaxChanges > MAX_TRY_COUNT
  /\ EFAULT \in Nat \ {0} /\ NULL \notin Byte

Field == [1 .. len -> Byte]

VARIABLES
  field,     \* the field in the device
  seen,      \* history: values it has had since the read began
  changes,   \* history: number of changes since then
  atomic,    \* is the field read in one access (type_len = len)?
  pc, i,     \* where the reader is, and the next byte
  old_buf, buf, cnt, rc

vars == <<field, seen, changes, atomic, pc, i, old_buf, buf, cnt, rc>>

Init ==
  /\ field \in Field /\ seen = {field} /\ changes = 0 /\ atomic \in BOOLEAN
  /\ pc = "get" /\ i = 1 /\ cnt = 0 /\ rc = 0
  /\ old_buf = [k \in 1 .. len |-> NULL] /\ buf = old_buf

\* The device.
Change(f) ==
  /\ pc # "done" /\ f # field
  /\ field' = f /\ seen' = seen \cup {f}
  /\ changes' = IF changes < MaxChanges THEN changes + 1 ELSE changes
  /\ UNCHANGED <<atomic, pc, i, old_buf, buf, cnt, rc>>

vpci_legacy_pci_config_get ==
  /\ pc = "get"
  /\ \/ atomic /\ buf' = field /\ pc' = "done"
     \/ ~atomic /\ pc' = "first" /\ UNCHANGED buf
  /\ UNCHANGED <<field, seen, changes, atomic, i, old_buf, cnt, rc>>

\* One byte of the first and of the second reading.
_virtio_cread_bytes ==
  /\ \/ pc = "first" /\ old_buf' = [old_buf EXCEPT ![i] = field[i]] /\ UNCHANGED buf
     \/ pc = "second" /\ buf' = [buf EXCEPT ![i] = field[i]] /\ UNCHANGED old_buf
  /\ IF i < len THEN i' = i + 1 /\ UNCHANGED pc
     ELSE i' = 1 /\ pc' = IF pc = "first" THEN "second" ELSE "compare"
  /\ UNCHANGED <<field, seen, changes, atomic, cnt, rc>>

\* Faulty variant: the last byte is not compared.
Agree_short == \A k \in 1 .. len - 1 : buf[k] = old_buf[k]

Agree == \A k \in 1 .. len : buf[k] = old_buf[k]

virtio_cread_bytes_many ==
  /\ pc = "compare" /\ cnt' = cnt + 1
  /\ IF Agree THEN pc' = "done" /\ rc' = 0
     ELSE IF cnt' < MAX_TRY_COUNT THEN pc' = "first" /\ UNCHANGED rc
     ELSE pc' = "done" /\ rc' = -EFAULT
  /\ UNCHANGED <<field, seen, changes, atomic, i, old_buf, buf>>

hart == vpci_legacy_pci_config_get \/ _virtio_cread_bytes \/ virtio_cread_bytes_many

Next == hart \/ \E f \in Field : Change(f)

Spec == Init /\ [][Next]_vars

-----------------------------------------------------------------------------
\* Type invariant.
TypeOK ==
  /\ field \in Field /\ seen \subseteq Field /\ changes \in 0 .. MaxChanges
  /\ i \in 1 .. len /\ cnt \in 0 .. MAX_TRY_COUNT /\ rc \in {0, -EFAULT}
  /\ old_buf \in [1 .. len -> Byte \cup {NULL}] /\ buf \in [1 .. len -> Byte \cup {NULL}]

\* Two readings that agree are one value of the field, not a mix of two,
\* although no read of more than one byte is atomic: it takes more than one
\* change of the field during a read to get a mixed value past the comparison.
ReadWhole == pc = "done" /\ rc = 0 /\ changes <= 1 => buf \in seen

\* A read is given up only after the device has changed the field during each
\* of the tries.
FailsOnlyWhenChanging == pc = "done" /\ rc # 0 => changes >= MAX_TRY_COUNT

-----------------------------------------------------------------------------
(* Proof, for a field of any length.  A try has not seen a change as long  *)
(* as there were no more changes than tries before it; then what it has    *)
(* read is the field.                                                      *)

Tries ==
  /\ changes >= cnt /\ cnt < MAX_TRY_COUNT /\ rc = 0
  /\ pc = "compare" => i = 1
  /\ pc = "get" => i = 1
  /\ changes = cnt =>
       /\ pc = "first" => \A k \in 1 .. i - 1 : old_buf[k] = field[k]
       /\ pc = "second" => old_buf = field /\ \A k \in 1 .. i - 1 : buf[k] = field[k]
       /\ pc = "compare" => old_buf = field /\ buf = field

\* With one change at most, it was in one of the two readings.
OneChange ==
  changes <= 1 =>
    /\ pc = "second" => (\A k \in 1 .. i - 1 : buf[k] = field[k]) \/ old_buf \in seen
    /\ pc = "compare" => buf = field \/ old_buf \in seen

IInv ==
  /\ TypeOK /\ field \in seen
  /\ pc \in {"get", "first", "second", "compare", "done"}
  /\ pc # "done" => Tries /\ OneChange
  /\ ReadWhole /\ FailsOnlyWhenChanging

LEMMA InitInv ==
  ASSUME ConfigAssumption, Init
  PROVE  IInv
<1>1. TypeOK
  BY DEF Init, TypeOK, ConfigAssumption, Field
<1> QED BY <1>1 DEF IInv, Init, Tries, OneChange, ReadWhole, FailsOnlyWhenChanging, ConfigAssumption

LEMMA ChangeStep ==
  ASSUME ConfigAssumption, IInv, NEW f \in Field, Change(f)
  PROVE  IInv'
<1> USE DEF IInv, Change, ConfigAssumption
<1>1. TypeOK' /\ field' \in seen'
  BY DEF TypeOK
<1>2. changes' # cnt /\ changes' >= cnt /\ (changes' <= 1 => changes = cnt /\ changes = 0)
  BY DEF TypeOK, Tries
<1>3. Tries'
  BY <1>2 DEF Tries
<1>4. OneChange'
  BY <1>2 DEF OneChange, Tries
<1> QED BY <1>1, <1>3, <1>4 DEF ReadWhole, FailsOnlyWhenChanging

LEMMA GetStep ==
  ASSUME ConfigAssumption, IInv, vpci_legacy_pci_config_get
  PROVE  IInv'
<1> USE DEF IInv, vpci_legacy_pci_config_get, ConfigAssumption
<1>1. TypeOK'
  BY DEF TypeOK, Field
<1>2. CASE buf' = field /\ pc' = "done"
  BY <1>1, <1>2 DEF Tries, ReadWhole, FailsOnlyWhenChanging
<1>3. CASE pc' = "first" /\ UNCHANGED buf
  BY <1>1, <1>3 DEF Tries, OneChange, ReadWhole, FailsOnlyWhenChanging, TypeOK
<1> QED BY <1>2, <1>3

LEMMA ReadStep ==
  ASSUME ConfigAssumption, IInv, _virtio_cread_bytes
  PROVE  IInv'
<1> USE DEF IInv, _virtio_cread_bytes, ConfigAssumption
<1>1. /\ len \in Nat /\ i \in 1 .. len /\ field \in [1 .. len -> Byte] /\ cnt \in Nat /\ changes \in Nat
      /\ old_buf \in [1 .. len -> Byte \cup {NULL}] /\ buf \in [1 .. len -> Byte \cup {NULL}]
  BY DEF TypeOK, Field
<1>2. TypeOK'
  BY <1>1 DEF TypeOK
<1>3. CASE pc = "first"
  <2>1. old_buf' = [old_buf EXCEPT ![i] = field[i]] /\ UNCHANGED <<buf, field, seen, changes, cnt, rc>>
    BY <1>3
  <2>2. changes = cnt => \A k \in 1 .. i : old_buf'[k] = field[k]
    BY <1>1, <1>3, <2>1 DEF Tries
  <2>3. CASE i < len
    BY <1>1, <1>2, <1>3, <2>1, <2>2, <2>3
      DEF Tries, OneChange, ReadWhole, FailsOnlyWhenChanging
  <2>4. CASE i = len
    <3>1. changes = cnt => old_buf' = field
      BY <1>1, <2>1, <2>2, <2>4
    <3> QED BY <1>1, <1>2, <1>3, <2>1, <2>4, <3>1
      DEF Tries, OneChange, ReadWhole, FailsOnlyWhenChanging
  <2> QED BY <1>1, <2>3, <2>4
<1>4. CASE pc = "second"
  <2>1. buf' = [buf EXCEPT ![i] = field[i]] /\ UNCHANGED <<old_buf, field, seen, changes, cnt, rc>>
    BY <1>4
  <2>2. changes = cnt => old_buf = field /\ \A k \in 1 .. i : buf'[k] = field[k]
    BY <1>1, <1>4, <2>1 DEF Tries
  <2>3. changes <= 1 => (\A k \in 1 .. i : buf'[k] = field[k]) \/ old_buf \in seen
    BY <1>1, <1>4, <2>1 DEF OneChange
  <2>4. CASE i < len
    BY <1>1, <1>2, <1>4, <2>1, <2>2, <2>3, <2>4
      DEF Tries, OneChange, ReadWhole, FailsOnlyWhenChanging
  <2>5. CASE i = len
    <3>1. (\A k \in 1 .. i : buf'[k] = field[k]) => buf' = field
      BY <1>1, <2>1, <2>5
    <3> QED BY <1>1, <1>2, <1>4, <2>1, <2>2, <2>3, <2>5, <3>1
      DEF Tries, OneChange, ReadWhole, FailsOnlyWhenChanging
  <2> QED BY <1>1, <2>4, <2>5
<1> QED BY <1>3, <1>4

LEMMA CompareStep ==
  ASSUME ConfigAssumption, IInv, virtio_cread_bytes_many
  PROVE  IInv'
<1> USE DEF IInv, virtio_cread_bytes_many, ConfigAssumption
<1>1. /\ len \in Nat /\ cnt \in Nat /\ changes \in Nat /\ i = 1
      /\ old_buf \in [1 .. len -> Byte \cup {NULL}] /\ buf \in [1 .. len -> Byte \cup {NULL}]
  BY DEF TypeOK, Tries
<1>2. Agree <=> buf = old_buf
  BY <1>1 DEF Agree
<1>3. TypeOK'
  BY DEF TypeOK, Tries
<1>4. CASE Agree
  BY <1>2, <1>3, <1>4 DEF OneChange, ReadWhole, FailsOnlyWhenChanging
<1>5. CASE ~Agree
  <2>1. changes >= cnt + 1
    BY <1>1, <1>2, <1>5 DEF Tries
  <2>2. CASE cnt + 1 < MAX_TRY_COUNT
    BY <1>1, <1>3, <1>5, <2>1, <2>2 DEF Tries, OneChange, ReadWhole, FailsOnlyWhenChanging
  <2>3. CASE ~(cnt + 1 < MAX_TRY_COUNT)
    BY <1>1, <1>3, <1>5, <2>1, <2>3 DEF Tries, ReadWhole, FailsOnlyWhenChanging
  <2> QED BY <2>2, <2>3
<1> QED BY <1>4, <1>5

\* For a field of any length and any number of tries: what
\* virtio_cread_bytes_many accepts is one value of the field when the device
\* changed it at most once, and it gives up only after a change in each try.
THEOREM FieldReadWhole ==
  ASSUME ConfigAssumption
  PROVE  Spec => [](TypeOK /\ ReadWhole /\ FailsOnlyWhenChanging)
<1>1. Init => IInv
  BY InitInv
<1>2. IInv /\ [Next]_vars => IInv'
  <2>1. CASE UNCHANGED vars
    BY <2>1 DEF vars, IInv, TypeOK, Tries, OneChange, ReadWhole, FailsOnlyWhenChanging
  <2> QED BY <2>1, ChangeStep, GetStep, ReadStep, CompareStep DEF Next, hart
<1>3. IInv => TypeOK /\ ReadWhole /\ FailsOnlyWhenChanging
  BY DEF IInv
<1> QED BY <1>1, <1>2, <1>3, PTL DEF Spec
=============================================================================
