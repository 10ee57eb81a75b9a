------------------------- MODULE EpochRotation_proofs -------------------------
(***************************************************************************)
(* No write of a vault loses what another device put there, no account in  *)
(* the graph loses an epoch of it and none that left learns another, for   *)
(* any accounts and devices, any changes and any troubles.                 *)
(***************************************************************************)
EXTENDS EpochRotation, TLAPS, FiniteSetTheorems

\* What a call read is the vault of its account, unless the vault has moved on.
ReadIsTrue(c, v) ==
    /\ c.read.version <= v.version
    /\ c.read.version = v.version => c.read = v

Writing == {"write", "replace"}

ReadsAreTrue ==
    \A p \in Processes : call[p].step \in Writing => ReadIsTrue(call[p], vault[Account(p)])

RotationInv == TypeOK /\ ReadsAreTrue

-----------------------------------------------------------------------------
(* The fields of a call, set one at a time.                                *)

\* Each leaves the step and the count of attempts as they are, but for its own.
LEMMA SetStep ==
  ASSUME NEW c \in Calls, NEW s \in Steps
  PROVE  /\ [c EXCEPT !.step = s] \in Calls
         /\ [c EXCEPT !.step = s].step = s /\ [c EXCEPT !.step = s].tries = c.tries
<1>1. [c EXCEPT !.step = s] \in Calls
  BY SMT DEF Calls
<1>2. [c EXCEPT !.step = s].step = s /\ [c EXCEPT !.step = s].tries = c.tries
  BY SMT DEF Calls
<1> QED
  BY <1>1, <1>2

LEMMA SetPlace ==
  ASSUME NEW c \in Calls
  PROVE  /\ \A t \in Thens : LET d == [c EXCEPT !.then = t] IN
             d \in Calls /\ d.step = c.step /\ d.tries = c.tries
         /\ \A k \in Kinds : LET d == [c EXCEPT !.kind = k] IN
             d \in Calls /\ d.step = c.step /\ d.tries = c.tries
<1>1. ASSUME NEW t \in Thens
      PROVE  LET d == [c EXCEPT !.then = t] IN d \in Calls /\ d.step = c.step /\ d.tries = c.tries
  <2>1. [c EXCEPT !.then = t] \in Calls
    BY SMT DEF Calls
  <2> QED
    BY SMT, <2>1 DEF Calls
<1>2. ASSUME NEW k \in Kinds
      PROVE  LET d == [c EXCEPT !.kind = k] IN d \in Calls /\ d.step = c.step /\ d.tries = c.tries
  <2>1. [c EXCEPT !.kind = k] \in Calls
    BY SMT DEF Calls
  <2> QED
    BY SMT, <2>1 DEF Calls
<1> QED
  BY <1>1, <1>2

LEMMA SetNumbers ==
  ASSUME NEW c \in Calls
  PROVE  /\ \A n \in 0 .. MaxAttempts : LET d == [c EXCEPT !.attempt = n] IN
             d \in Calls /\ d.step = c.step /\ d.tries = c.tries
         /\ \A n \in Nat : LET d == [c EXCEPT !.key = n] IN
             d \in Calls /\ d.step = c.step /\ d.tries = c.tries
         /\ \A n \in Nat : LET d == [c EXCEPT !.from = n] IN
             d \in Calls /\ d.step = c.step /\ d.tries = c.tries
         /\ \A n \in Nat : LET d == [c EXCEPT !.epoch = n] IN
             d \in Calls /\ d.step = c.step /\ d.tries = c.tries
         /\ \A n \in Nat : LET d == [c EXCEPT !.previous = n] IN
             d \in Calls /\ d.step = c.step /\ d.tries = c.tries
<1>1. ASSUME NEW n \in 0 .. MaxAttempts
      PROVE  LET d == [c EXCEPT !.attempt = n] IN d \in Calls /\ d.step = c.step /\ d.tries = c.tries
  <2>1. [c EXCEPT !.attempt = n] \in Calls
    BY SMT DEF Calls
  <2> QED
    BY SMT, <2>1 DEF Calls
<1>2. ASSUME NEW n \in Nat
      PROVE  LET d == [c EXCEPT !.key = n] IN d \in Calls /\ d.step = c.step /\ d.tries = c.tries
  <2>1. [c EXCEPT !.key = n] \in Calls
    BY SMT DEF Calls
  <2> QED
    BY SMT, <2>1 DEF Calls
<1>3. ASSUME NEW n \in Nat
      PROVE  LET d == [c EXCEPT !.from = n] IN d \in Calls /\ d.step = c.step /\ d.tries = c.tries
  <2>1. [c EXCEPT !.from = n] \in Calls
    BY SMT DEF Calls
  <2> QED
    BY SMT, <2>1 DEF Calls
<1>4. ASSUME NEW n \in Nat
      PROVE  LET d == [c EXCEPT !.epoch = n] IN d \in Calls /\ d.step = c.step /\ d.tries = c.tries
  <2>1. [c EXCEPT !.epoch = n] \in Calls
    BY SMT DEF Calls
  <2> QED
    BY SMT, <2>1 DEF Calls
<1>5. ASSUME NEW n \in Nat
      PROVE  LET d == [c EXCEPT !.previous = n] IN d \in Calls /\ d.step = c.step /\ d.tries = c.tries
  <2>1. [c EXCEPT !.previous = n] \in Calls
    BY SMT DEF Calls
  <2> QED
    BY SMT, <2>1 DEF Calls
<1> QED
  BY <1>1, <1>2, <1>3, <1>4, <1>5

LEMMA SetData ==
  ASSUME NEW c \in Calls
  PROVE  /\ \A f \in [Accounts -> Nat] : LET d == [c EXCEPT !.presented = f] IN
             d \in Calls /\ d.step = c.step /\ d.tries = c.tries
         /\ \A x \in Copies : LET d == [c EXCEPT !.copy = x] IN
             d \in Calls /\ d.step = c.step /\ d.tries = c.tries
         /\ \A k \in KeySets : LET d == [c EXCEPT !.keys = k] IN
             d \in Calls /\ d.step = c.step /\ d.tries = c.tries
         /\ \A v \in Vaults : LET d == [c EXCEPT !.read = v] IN
             d \in Calls /\ d.step = c.step /\ d.tries = c.tries /\ d.read = v
<1>1. ASSUME NEW f \in [Accounts -> Nat]
      PROVE  LET d == [c EXCEPT !.presented = f] IN d \in Calls /\ d.step = c.step /\ d.tries = c.tries
  <2>1. [c EXCEPT !.presented = f] \in Calls
    BY SMT DEF Calls
  <2> QED
    BY SMT, <2>1 DEF Calls
<1>2. ASSUME NEW x \in Copies
      PROVE  LET d == [c EXCEPT !.copy = x] IN d \in Calls /\ d.step = c.step /\ d.tries = c.tries
  <2>1. [c EXCEPT !.copy = x] \in Calls
    BY SMT DEF Calls
  <2> QED
    BY SMT, <2>1 DEF Calls
<1>3. ASSUME NEW k \in KeySets
      PROVE  LET d == [c EXCEPT !.keys = k] IN d \in Calls /\ d.step = c.step /\ d.tries = c.tries
  <2>1. [c EXCEPT !.keys = k] \in Calls
    BY SMT DEF Calls
  <2> QED
    BY SMT, <2>1 DEF Calls
<1>4. ASSUME NEW v \in Vaults
      PROVE  LET d == [c EXCEPT !.read = v] IN d \in Calls /\ d.step = c.step /\ d.tries = c.tries /\ d.read = v
  <2>1. [c EXCEPT !.read = v] \in Calls
    BY SMT DEF Calls
  <2> QED
    BY SMT, <2>1 DEF Calls
<1> QED
  BY <1>1, <1>2, <1>3, <1>4

LEMMA SetTries ==
  ASSUME NEW c \in Calls, NEW n \in 0 .. MaxAttempts
  PROVE  LET d == [c EXCEPT !.tries = n] IN d \in Calls /\ d.step = c.step /\ d.tries = n
<1>1. [c EXCEPT !.tries = n] \in Calls
  BY SMT DEF Calls
<1> QED
  BY SMT, <1>1 DEF Calls

LEMMA FieldsOf ==
  ASSUME NEW c \in Calls
  PROVE  /\ c.kind \in Kinds /\ c.step \in Steps /\ c.then \in Thens
         /\ c.attempt \in 0 .. MaxAttempts /\ c.tries \in 0 .. MaxAttempts
         /\ {c.key, c.from, c.epoch, c.previous} \subseteq Nat
         /\ c.presented \in [Accounts -> Nat]
         /\ c.copy \in Copies /\ c.keys \in KeySets /\ c.read \in Vaults
BY DEF Calls

LEMMA VaultFields ==
  ASSUME NEW v \in Vaults
  PROVE  v.version \in Nat /\ v.identity \in Nat /\ v.keys \in KeySets /\ v.pins \in [Accounts -> Nat]
BY DEF Vaults

LEMMA CopyFields ==
  ASSUME NEW c \in Copies
  PROVE  c.epoch \in Nat /\ c.to \in Nat /\ c.by \in Nat /\ c.keys \in KeySets
BY DEF Copies

LEMMA AccountOf == \A p \in Processes : Account(p) \in Accounts
BY DEF Account, Accounts, Processes

LEMMA NothingTypes == NoCopy \in Copies /\ NoVault \in Vaults /\ NoOne \in [Accounts -> Nat]
BY DEF NoCopy, NoVault, NoOne, Copies, Vaults, KeySets

-----------------------------------------------------------------------------
(* Where a call may go on.                                                 *)

\* A call at rest, or at a step that neither reads nor writes a vault.
Aside(c) == c \in Calls /\ c.step \notin {"read", "write", "replace"}

LEMMA IdleAside == Aside(Idle)
<1>1. Idle \in Calls
  BY NothingTypes DEF Idle, Calls, MaxAttempts, KeySets, Kinds, Steps, Thens
<1> QED
  BY <1>1 DEF Aside, Idle

LEMMA CollectedAside == ASSUME NEW c \in Calls PROVE Aside(Collected(c))
<1>1. CASE c.then = "replace"
  <2> DEFINE d == [c EXCEPT !.step = "open"]
             e == [d EXCEPT !.then = "no"]
  <2>1. Collected(c) = [e EXCEPT !.attempt = 1]
    BY <1>1 DEF Collected
  <2>2. d \in Calls /\ d.step = "open"
    BY SetStep DEF Steps
  <2> HIDE DEF d
  <2>3. e \in Calls /\ e.step = "open"
    BY <2>2, SetPlace DEF Thens
  <2> HIDE DEF e
  <2>4. 1 \in 0 .. MaxAttempts
    BY DEF MaxAttempts
  <2> QED
    BY <2>1, <2>3, <2>4, SetNumbers DEF Aside
<1>2. CASE c.then = "again" /\ c.attempt < MaxAttempts
  <2> DEFINE d == [c EXCEPT !.step = "allocate"]
             e == [d EXCEPT !.then = "no"]
             f == [e EXCEPT !.attempt = c.attempt + 1]
  <2>1. Collected(c) = [f EXCEPT !.copy = NoCopy]
    BY <1>2, SMT DEF Collected, Calls
  <2>2. d \in Calls /\ d.step = "allocate"
    BY SetStep DEF Steps
  <2> HIDE DEF d
  <2>3. e \in Calls /\ e.step = "allocate"
    BY <2>2, SetPlace DEF Thens
  <2> HIDE DEF e
  <2>4. c.attempt + 1 \in 0 .. MaxAttempts
    BY <1>2, FieldsOf DEF MaxAttempts
  <2>5. f \in Calls /\ f.step = "allocate"
    BY <2>3, <2>4, SetNumbers
  <2> HIDE DEF f
  <2> QED
    BY <2>1, <2>5, SetData, NothingTypes DEF Aside
<1>3. CASE c.then # "replace" /\ ~(c.then = "again" /\ c.attempt < MaxAttempts)
  BY <1>3, IdleAside DEF Collected
<1> QED
  BY <1>1, <1>2, <1>3

LEMMA ThrowsAside == ASSUME NEW c \in Calls PROVE Aside(Throws(c))
BY CollectedAside, IdleAside DEF Throws

LEMMA CollectsAside ==
  ASSUME NEW c \in Calls, NEW then \in Thens
  PROVE  Aside(Collects(c, then))
<1> DEFINE d == [c EXCEPT !.step = "list"]
<1>1. Collects(c, then) = [d EXCEPT !.then = then]
  BY DEF Collects
<1>2. d \in Calls /\ d.step = "list"
  BY SetStep DEF Steps
<1> HIDE DEF d
<1> QED
  BY <1>1, <1>2, SetPlace DEF Aside

LEMMA ReadsType ==
  ASSUME NEW c \in Calls
  PROVE  Reads(c) \in Calls /\ Reads(c).step = "read" /\ Reads(c).tries = 1
<1> DEFINE d == [c EXCEPT !.step = "read"]
<1>1. Reads(c) = [d EXCEPT !.tries = 1]
  BY DEF Reads
<1>2. d \in Calls /\ d.step = "read"
  BY SetStep DEF Steps
<1> HIDE DEF d
<1>3. 1 \in 0 .. MaxAttempts
  BY DEF MaxAttempts
<1> QED
  BY <1>1, <1>2, <1>3, SetTries

-----------------------------------------------------------------------------
(* What a call makes of a vault.                                           *)

\* The version is the server's to count.
Extends(to, v) ==
    /\ to \in Vaults /\ to.version = v.version
    /\ v.keys \subseteq to.keys
    /\ \A a \in Accounts : v.pins[a] # 0 => to.pins[a] # 0

LEMMA WithPinsExtends ==
  ASSUME NEW v \in Vaults, NEW own \in Accounts, NEW f \in [Accounts -> Nat]
  PROVE  Extends(WithPins(v, own, f), v)
<1> DEFINE pins == [a \in Accounts |-> IF a # own /\ f[a] # 0 THEN f[a] ELSE v.pins[a]]
<1>1. pins \in [Accounts -> Nat] /\ \A a \in Accounts : v.pins[a] # 0 => pins[a] # 0
  BY VaultFields
<1>2. WithPins(v, own, f) = [v EXCEPT !.pins = pins]
  BY DEF WithPins
<1> HIDE DEF pins
<1> QED
  BY <1>1, <1>2, SMT DEF Extends, Vaults

LEMMA SetVaultKeys ==
  ASSUME NEW w \in Vaults, NEW k \in KeySets
  PROVE  LET d == [w EXCEPT !.keys = k] IN
         d \in Vaults /\ d.version = w.version /\ d.keys = k /\ d.pins = w.pins
<1>1. [w EXCEPT !.keys = k] \in Vaults
  BY SMT DEF Vaults
<1> QED
  BY <1>1, SMT DEF Vaults

LEMMA AddKeysExtends ==
  ASSUME NEW v \in Vaults, NEW w, Extends(w, v), NEW keys \in KeySets
  PROVE  Extends([w EXCEPT !.keys = @ \cup keys], v)
<1> DEFINE k == w.keys \cup keys
           d == [w EXCEPT !.keys = k]
<1>1. k \in KeySets /\ v.keys \subseteq k
  BY VaultFields DEF Extends, KeySets
<1> HIDE DEF k
<1>2. d \in Vaults /\ d.version = w.version /\ d.keys = k /\ d.pins = w.pins
  BY <1>1, SetVaultKeys DEF Extends
<1> HIDE DEF d
<1>3. Extends(d, v)
  BY <1>1, <1>2 DEF Extends
<1> QED
  BY <1>3 DEF d, k

LEMMA ChangeExtends ==
  ASSUME NEW v \in Vaults, NEW own \in Accounts, NEW c \in Calls
  PROVE  Extends(Change(v, own, c), v)
<1>1. Extends(v, v)
  BY DEF Extends
<1>2. Extends(WithPins(v, own, c.presented), v)
  BY WithPinsExtends, FieldsOf
<1>3. c.copy.keys \in KeySets /\ c.keys \in KeySets
  BY FieldsOf, CopyFields
<1>4. Extends([WithPins(v, own, c.presented) EXCEPT !.keys = @ \cup c.copy.keys], v)
  BY <1>2, <1>3, AddKeysExtends
<1>5. Extends([WithPins(v, own, c.presented) EXCEPT !.keys = @ \cup c.keys], v)
  BY <1>2, <1>3, AddKeysExtends
<1> HIDE DEF Extends
<1> QED
  BY <1>1, <1>2, <1>4, <1>5 DEF Change

LEMMA UpdatedAside ==
  ASSUME NEW p \in Processes, NEW c \in Calls, NEW v \in Vaults
  PROVE  Aside(Updated(p, c, v))
<1>1. Aside([c EXCEPT !.step = "ack"]) /\ Aside([c EXCEPT !.step = "activate"])
  BY SetStep DEF Aside, Steps
<1>2. Aside([c EXCEPT !.step = "create", !.keys = v.keys])
  <2> DEFINE d == [c EXCEPT !.step = "create"]
  <2>1. d \in Calls /\ d.step = "create"
    BY SetStep DEF Steps
  <2>2. [c EXCEPT !.step = "create", !.keys = v.keys] = [d EXCEPT !.keys = v.keys]
    OBVIOUS
  <2> HIDE DEF d
  <2> QED
    BY <2>1, <2>2, SetData, VaultFields DEF Aside
<1>3. Aside([c EXCEPT !.step = "commit", !.keys = v.keys \cup {<<c.epoch, p>>},
                      !.presented[Owner] = v.identity])
  <2> DEFINE keys == v.keys \cup {<<c.epoch, p>>}
             f == [c.presented EXCEPT ![Owner] = v.identity]
             d == [c EXCEPT !.step = "commit"]
             e == [d EXCEPT !.keys = keys]
  <2>1. keys \in KeySets
    <3>1. v.keys \in KeySets /\ c.epoch \in Nat
      BY VaultFields, FieldsOf
    <3> QED
      BY <3>1 DEF KeySets
  <2>5. f \in [Accounts -> Nat]
    BY VaultFields, FieldsOf
  <2>2. [c EXCEPT !.step = "commit", !.keys = v.keys \cup {<<c.epoch, p>>},
                  !.presented[Owner] = v.identity] = [e EXCEPT !.presented = f]
    BY SMT DEF Calls
  <2>3. d \in Calls /\ d.step = "commit"
    BY SetStep DEF Steps
  <2> HIDE DEF d, keys
  <2>4. e \in Calls /\ e.step = "commit"
    BY <2>1, <2>3, SetData
  <2> HIDE DEF e, f
  <2> QED
    BY <2>2, <2>4, <2>5, SetData DEF Aside
<1>4. Aside(Collects(c, "again"))
  BY CollectsAside DEF Thens
<1> HIDE DEF Aside
<1> QED
  BY <1>1, <1>2, <1>3, <1>4, IdleAside, CollectedAside DEF Updated

-----------------------------------------------------------------------------
(* A step of the graph, part by part.                                      *)

ServerType ==
    /\ committed \in KeySets /\ IsFiniteSet(committed) /\ lease \in Nat /\ due \in BOOLEAN
    /\ membership \in [Accounts -> {"active", "invited", "out"}]
    /\ copies \in [Accounts -> Copies] /\ invites \in [Members -> Copies]
    /\ leftAt \in [Members -> Nat] /\ missed \subseteq Accounts
    /\ changes \in Nat /\ troubles \in Nat

VaultType == vault \in [Accounts -> Vaults]

Good(c, v) ==
    /\ c \in Calls
    /\ c.step \in {"read", "write"} => c.tries \in 1 .. MaxAttempts
    /\ c.step \in Writing => ReadIsTrue(c, v)

CallType == call \in [Processes -> Calls] /\ \A p \in Processes : Good(call[p], vault[Account(p)])

LEMMA InvParts == RotationInv <=> ServerType /\ VaultType /\ CallType
<1>1. call \in [Processes -> Calls] => \A p \in Processes : call[p] \in Calls
  OBVIOUS
<1> QED
  BY <1>1 DEF RotationInv, TypeOK, ReadsAreTrue, ServerType, VaultType, CallType, Good

LEMMA InvPartsNext == RotationInv' <=> ServerType' /\ VaultType' /\ CallType'
<1>1. call' \in [Processes -> Calls] => \A p \in Processes : call'[p] \in Calls
  OBVIOUS
<1> QED
  BY <1>1 DEF RotationInv, TypeOK, ReadsAreTrue, ServerType, VaultType, CallType, Good

LEMMA CurrentIsNat == ServerType => Current \in Nat
BY FS_CardinalityType DEF ServerType, Current

\* A vault stays as it is, or its version grows and what it holds stays in it.
VaultsGrow ==
    \A a \in Accounts :
        \/ vault'[a] = vault[a]
        \/ /\ vault[a].version < vault'[a].version
           /\ vault[a].keys \subseteq vault'[a].keys
           /\ \A b \in Accounts : vault[a].pins[b] # 0 => vault'[a].pins[b] # 0

LEMMA WriteVaultGrows ==
  ASSUME RotationInv, NEW p \in Processes, WriteVault(p)
  PROVE  VaultType' /\ VaultsGrow
<1> DEFINE c == call[p]
           own == Account(p)
           changed == Change(c.read, own, c)
           to == [changed EXCEPT !.version = @ + 1]
<1>1. /\ c \in Calls /\ c.step = "write" /\ own \in Accounts /\ vault[own] \in Vaults
      /\ vault \in [Accounts -> Vaults]
  BY InvParts, AccountOf DEF CallType, VaultType, WriteVault
<1>2. CASE vault[own].version = c.read.version
  <2>1. c.read = vault[own]
    BY <1>1, <1>2, InvParts DEF CallType, Good, Writing, ReadIsTrue
  <2>2. Extends(changed, vault[own])
    BY <1>1, <2>1, ChangeExtends
  <2>3. vault' = [vault EXCEPT ![own] = to]
    BY <1>2 DEF WriteVault
  <2> HIDE DEF c, changed
  <2>4. to \in Vaults /\ to.version = changed.version + 1 /\ to.keys = changed.keys /\ to.pins = changed.pins
    <3>1. changed \in Vaults
      BY <2>2 DEF Extends
    <3> QED
      BY <3>1, SMT DEF Vaults
  <2> HIDE DEF to
  <2>5. VaultType'
    BY <1>1, <2>3, <2>4 DEF VaultType
  <2>6. vault[own].version < to.version
    BY <1>1, <2>2, <2>4, VaultFields DEF Extends
  <2>7. VaultsGrow
    BY <1>1, <2>2, <2>3, <2>4, <2>6 DEF VaultsGrow, Extends
  <2> QED
    BY <2>5, <2>7
<1>3. CASE vault[own].version # c.read.version
  BY <1>1, <1>3 DEF WriteVault, VaultType, VaultsGrow
<1> QED
  BY <1>2, <1>3

LEMMA ReplaceKeysGrows ==
  ASSUME RotationInv, NEW p \in Processes, ReplaceKeys(p)
  PROVE  VaultType' /\ VaultsGrow
<1> DEFINE a == Account(p)
           v == vault[a]
           w == [v EXCEPT !.version = @ + 1]
           to == [w EXCEPT !.identity = @ + 1]
<1>1. a \in Accounts /\ vault \in [Accounts -> Vaults] /\ v \in Vaults
  BY InvParts, AccountOf DEF VaultType
<1>2. CASE vault[a].version = call[p].read.version
  <2>1. vault' = [vault EXCEPT ![a] = to]
    BY <1>1, <1>2, SMT DEF ReplaceKeys, Vaults
  <2> HIDE DEF v
  <2>2. w \in Vaults /\ w.version = v.version + 1 /\ w.keys = v.keys /\ w.pins = v.pins
    BY <1>1, SMT DEF Vaults
  <2> HIDE DEF w
  <2>3. to \in Vaults /\ to.version = w.version /\ to.keys = w.keys /\ to.pins = w.pins
    BY <2>2, SMT DEF Vaults
  <2> HIDE DEF to
  <2>4. VaultType'
    BY <1>1, <2>1, <2>3 DEF VaultType
  <2>5. v.version < to.version
    BY <1>1, <2>2, <2>3, VaultFields
  <2>6. VaultsGrow
    BY <1>1, <2>1, <2>2, <2>3, <2>5 DEF VaultsGrow, v
  <2> QED
    BY <2>4, <2>6
<1>3. CASE vault[a].version # call[p].read.version
  BY <1>1, <1>3 DEF ReplaceKeys, VaultType, VaultsGrow
<1> QED
  BY <1>2, <1>3

LEMMA VaultStep ==
  ASSUME RotationInv, [Next]_vars
  PROVE  VaultType' /\ VaultsGrow
<1>1. VaultType
  BY InvParts
<1>2. CASE UNCHANGED vault
  BY <1>1, <1>2 DEF VaultType, VaultsGrow
<1>3. CASE \E p \in Processes : WriteVault(p) \/ ReplaceKeys(p)
  BY <1>3, WriteVaultGrows, ReplaceKeysGrows
<1>4. ASSUME NEW p \in Processes, GoOn(p), ~(WriteVault(p) \/ ReplaceKeys(p))
      PROVE  UNCHANGED vault
  BY <1>4 DEF GoOn, ReadVault, ListCopies, Acknowledge, Allocate, Commit, CreateInvite, Activate, OpenVault
<1>5. ASSUME NEW p \in Processes,
             Trouble(p) \/ StartCollect(p) \/ StartRotate(p) \/ StartReplace(p)
               \/ (\E a \in Accounts : StartVerify(p, a)) \/ (\E m \in Members : StartInvite(p, m))
      PROVE  UNCHANGED vault
  BY <1>5 DEF Trouble, StartCollect, StartRotate, StartReplace, StartVerify, StartInvite, Begins
<1>6. ASSUME NEW m \in Members, RemoveMember(m) \/ StartAccept(m)
      PROVE  UNCHANGED vault
  BY <1>6 DEF RemoveMember, StartAccept, Begins
<1>7. RequestRotation => UNCHANGED vault
  BY DEF RequestRotation
<1> QED
  BY <1>2, <1>3, <1>4, <1>5, <1>6, <1>7 DEF Next, vars

-----------------------------------------------------------------------------
(* The calls.                                                              *)

LEMMA CallStepOf ==
  ASSUME RotationInv, VaultsGrow, VaultType', NEW p \in Processes, NEW d,
         Good(d, vault'[Account(p)]), call' = [call EXCEPT ![p] = d]
  PROVE  CallType'
<1>1. call' \in [Processes -> Calls]
  BY InvParts DEF CallType, Good
<1>2. ASSUME NEW q \in Processes PROVE Good(call'[q], vault'[Account(q)])
  <2>1. CASE q = p
    BY <2>1, InvParts DEF CallType
  <2>2. CASE q # p
    <3>1. call'[q] = call[q] /\ Good(call[q], vault[Account(q)]) /\ call[q] \in Calls
      BY <2>2, InvParts DEF CallType, Good
    <3>2. Account(q) \in Accounts /\ vault[Account(q)] \in Vaults /\ vault'[Account(q)] \in Vaults
      BY AccountOf, InvParts DEF VaultType
    <3>3. \/ vault'[Account(q)] = vault[Account(q)]
          \/ vault[Account(q)].version < vault'[Account(q)].version
      BY <3>2 DEF VaultsGrow
    <3>4. /\ call[q].read.version \in Nat
          /\ vault[Account(q)].version \in Nat /\ vault'[Account(q)].version \in Nat
      BY <3>1, <3>2, FieldsOf, VaultFields
    <3>5. ReadIsTrue(call[q], vault[Account(q)]) => ReadIsTrue(call[q], vault'[Account(q)])
      BY <3>3, <3>4 DEF ReadIsTrue
    <3> QED
      BY <3>1, <3>5 DEF Good
  <2> QED
    BY <2>1, <2>2
<1> QED
  BY <1>1, <1>2 DEF CallType

LEMMA AsideIsGood == ASSUME NEW c, NEW v, Aside(c) PROVE Good(c, v)
BY DEF Aside, Good, Writing

\* The answer arrives, is lost, or the page closes.
LEMMA AnsweredStep ==
  ASSUME RotationInv, VaultsGrow, VaultType', NEW p \in Processes, NEW d,
         Good(d, vault'[Account(p)]), Answered(p, d)
  PROVE  CallType' /\ troubles' \in Nat
<1>1. call[p] \in Calls /\ troubles \in Nat
  BY InvParts DEF CallType, ServerType
<1>2. Good(Throws(call[p]), vault'[Account(p)]) /\ Good(Idle, vault'[Account(p)])
  BY <1>1, ThrowsAside, IdleAside, AsideIsGood
<1>3. \E e \in {d, Throws(call[p]), Idle} : call' = [call EXCEPT ![p] = e]
  BY DEF Answered, Goes
<1>4. CallType'
  BY <1>2, <1>3, CallStepOf
<1>5. troubles' \in Nat
  BY <1>1 DEF Answered
<1> QED
  BY <1>4, <1>5

\* What stays of the server and its bounds when only calls and vaults change.
Rest == <<committed, lease, due, membership, copies, invites, leftAt, missed, changes>>

LEMMA RestStep == ASSUME RotationInv, UNCHANGED Rest, troubles' \in Nat PROVE ServerType'
BY InvParts DEF ServerType, Rest

LEMMA VaultCalls ==
  ASSUME RotationInv, VaultsGrow, VaultType', NEW p \in Processes, ReadVault(p) \/ WriteVault(p)
  PROVE  CallType' /\ ServerType'
<1> DEFINE c == call[p]
           own == Account(p)
           v == ReadNow(c, vault[own])
<1>1. /\ Good(c, vault[own]) /\ c \in Calls /\ own \in Accounts
      /\ vault[own] \in Vaults /\ v = vault[own]
  BY InvParts, AccountOf DEF CallType, Good, VaultType, ReadNow
<1>2. CASE ReadVault(p)
  <2>1. c.step = "read" /\ c.tries \in 1 .. MaxAttempts /\ UNCHANGED vault /\ UNCHANGED Rest
    BY <1>1, <1>2 DEF ReadVault, Good, server, Rest
  <2> DEFINE d == [c EXCEPT !.step = "write"]
             e == [d EXCEPT !.read = v]
  <2>2. e = [c EXCEPT !.step = "write", !.read = v]
    OBVIOUS
  <2>3. \E x \in {Throws(c), Updated(p, c, v), e} : Answered(p, x)
    BY <1>2, <2>2 DEF ReadVault
  <2> HIDE DEF c, v
  <2>4. d \in Calls /\ d.step = "write" /\ d.tries = c.tries
    BY <1>1, SetStep DEF Steps
  <2> HIDE DEF d
  <2>5. e \in Calls /\ e.step = "write" /\ e.tries = c.tries /\ e.read = v
    BY <1>1, <2>4, SetData
  <2> HIDE DEF e
  <2>6. Good(e, vault'[own])
    <3>1. ReadIsTrue(e, vault'[own])
      BY <1>1, <2>1, <2>5, VaultFields DEF ReadIsTrue
    <3> QED
      BY <2>1, <2>5, <3>1 DEF Good
  <2>7. Good(Throws(c), vault'[own]) /\ Good(Updated(p, c, v), vault'[own])
    BY <1>1, ThrowsAside, UpdatedAside, AsideIsGood
  <2> QED
    BY <2>1, <2>3, <2>6, <2>7, AnsweredStep, RestStep
<1>3. CASE WriteVault(p)
  <2> DEFINE to == [Change(c.read, own, c) EXCEPT !.version = @ + 1]
             done == [Updated(p, c, to) EXCEPT !.read = NoVault]
             d == [c EXCEPT !.step = "read"]
             again == [d EXCEPT !.tries = c.tries + 1]
  <2>1. c.step = "write" /\ c.tries \in 1 .. MaxAttempts /\ UNCHANGED Rest
    BY <1>1, <1>3 DEF WriteVault, Good, server, Rest
  <2>2. again = [c EXCEPT !.step = "read", !.tries = @ + 1]
    BY <1>1, SMT DEF Calls
  <2>3. \/ Answered(p, done)
        \/ Answered(p, Throws(c))
        \/ Answered(p, again) /\ c.tries < MaxAttempts
    BY <1>3, <2>2 DEF WriteVault
  <2> HIDE DEF c
  <2>4. Good(done, vault'[own])
    <3> DEFINE changed == Change(c.read, own, c)
    <3>1. changed \in Vaults
      BY <1>1, ChangeExtends, FieldsOf DEF Extends
    <3> HIDE DEF changed
    <3>2. [changed EXCEPT !.version = @ + 1] \in Vaults
      BY <3>1, SMT DEF Vaults
    <3>3. to \in Vaults
      BY <3>2 DEF changed
    <3> HIDE DEF to
    <3>4. Aside(Updated(p, c, to))
      BY <1>1, <3>3, UpdatedAside
    <3>5. done \in Calls /\ done.step = Updated(p, c, to).step
      BY <3>4, SetData, NothingTypes DEF Aside
    <3> HIDE DEF done
    <3> QED
      BY <3>4, <3>5 DEF Aside, Good, Writing
  <2>5. ASSUME c.tries < MaxAttempts PROVE Good(again, vault'[own])
    <3>1. d \in Calls /\ d.step = "read"
      BY <1>1, SetStep DEF Steps
    <3>2. c.tries + 1 \in 1 .. MaxAttempts /\ c.tries + 1 \in 0 .. MaxAttempts
      BY <2>1, <2>5 DEF MaxAttempts
    <3> HIDE DEF d
    <3>3. again \in Calls /\ again.step = "read" /\ again.tries = c.tries + 1
      BY <3>1, <3>2, SetTries
    <3> HIDE DEF again
    <3> QED
      BY <3>2, <3>3 DEF Good, Writing
  <2>6. Good(Throws(c), vault'[own])
    BY <1>1, ThrowsAside, AsideIsGood
  <2> QED
    BY <2>1, <2>3, <2>4, <2>5, <2>6, AnsweredStep, RestStep
<1> QED
  BY <1>2, <1>3

LEMMA SmallCalls ==
  ASSUME RotationInv, VaultsGrow, VaultType', NEW p \in Processes,
         ListCopies(p) \/ OpenVault(p) \/ Trouble(p)
  PROVE  CallType' /\ ServerType'
<1> DEFINE c == call[p]
           own == Account(p)
<1>1. /\ c \in Calls /\ own \in Accounts /\ vault[own] \in Vaults /\ vault[Owner] \in Vaults
      /\ copies[own] \in Copies /\ troubles \in Nat
  BY InvParts, AccountOf DEF CallType, VaultType, ServerType, Accounts
<1>2. CASE ListCopies(p)
  <2> DEFINE copy == IF own \in InGraph THEN copies[own] ELSE NoCopy
             f == [NoOne EXCEPT ![Owner] = vault[Owner].identity]
             d == [c EXCEPT !.copy = copy]
             e == [d EXCEPT !.presented = f]
  <2>1. e = [c EXCEPT !.copy = copy, !.presented = f]
    OBVIOUS
  <2>2. Answered(p, Reads(e)) /\ UNCHANGED Rest
    BY <1>2, <2>1 DEF ListCopies, server, Rest
  <2>3. copy \in Copies /\ f \in [Accounts -> Nat]
    BY <1>1, NothingTypes, VaultFields DEF NoOne
  <2> HIDE DEF c, copy, f
  <2>4. d \in Calls
    BY <1>1, <2>3, SetData
  <2> HIDE DEF d
  <2>5. e \in Calls
    BY <2>3, <2>4, SetData
  <2> HIDE DEF e
  <2>6. Good(Reads(e), vault'[own])
    BY <2>5, ReadsType DEF Good, Writing, MaxAttempts
  <2> QED
    BY <2>2, <2>6, AnsweredStep, RestStep
<1>3. CASE OpenVault(p)
  <2> DEFINE d == [c EXCEPT !.step = "replace"]
             e == [d EXCEPT !.read = vault[own]]
  <2>1. e = [c EXCEPT !.step = "replace", !.read = vault[own]]
    OBVIOUS
  <2>2. (Answered(p, Idle) \/ Answered(p, e)) /\ UNCHANGED Rest /\ UNCHANGED vault
    BY <1>3, <2>1 DEF OpenVault, server, Rest
  <2> HIDE DEF c
  <2>3. d \in Calls /\ d.step = "replace"
    BY <1>1, SetStep DEF Steps
  <2> HIDE DEF d
  <2>4. e \in Calls /\ e.step = "replace" /\ e.read = vault[own]
    BY <1>1, <2>3, SetData
  <2> HIDE DEF e
  <2>5. Good(e, vault'[own])
    <3>1. ReadIsTrue(e, vault'[own])
      BY <1>1, <2>2, <2>4, VaultFields DEF ReadIsTrue
    <3> QED
      BY <2>4, <3>1 DEF Good
  <2> QED
    BY <2>2, <2>5, AnsweredStep, RestStep, IdleAside, AsideIsGood
<1>4. CASE Trouble(p)
  <2>1. /\ call' = [call EXCEPT ![p] = Throws(c)] \/ call' = [call EXCEPT ![p] = Idle]
        /\ troubles' \in Nat /\ UNCHANGED Rest
    BY <1>1, <1>4 DEF Trouble, Goes, server, Rest
  <2>2. Good(Throws(c), vault'[own]) /\ Good(Idle, vault'[own])
    BY <1>1, ThrowsAside, IdleAside, AsideIsGood
  <2> QED
    BY <2>1, <2>2, CallStepOf, RestStep
<1> QED
  BY <1>2, <1>3, <1>4

\* Requests that change the server: what they leave of it.
LEMMA RotateCalls ==
  ASSUME RotationInv, VaultsGrow, VaultType', NEW p \in Processes, Allocate(p) \/ Commit(p)
  PROVE  CallType' /\ ServerType'
<1> DEFINE c == call[p]
           own == Account(p)
<1>1. c \in Calls /\ ServerType /\ VaultType
  BY InvParts DEF CallType
<1>2. CASE Allocate(p)
  <2> DEFINE epoch == Current + 1
             f == [a \in Accounts |-> IF a \in InGraph THEN Identity[a] ELSE 0]
             d == [c EXCEPT !.epoch = epoch]
             e == [d EXCEPT !.presented = f]
             g == [c EXCEPT !.epoch = epoch - 1]
  <2>1. e = [c EXCEPT !.epoch = epoch, !.presented = f]
    OBVIOUS
  <2>2. Answered(p, Collects(g, "done")) \/ Answered(p, Reads(e))
    BY <1>2, <2>1 DEF Allocate
  <2>3. epoch \in Nat /\ epoch - 1 \in Nat
    BY <1>1, CurrentIsNat
  <2>4. f \in [Accounts -> Nat]
    <3>1. \A a \in Accounts : Identity[a] \in Nat
      BY <1>1, VaultFields DEF VaultType, Identity
    <3> QED
      BY <3>1
  <2>5. ServerType' \/ troubles' \notin Nat
    BY <1>1, <1>2, <2>3 DEF Allocate, ServerType
  <2> HIDE DEF c, epoch, f
  <2>6. Good(Collects(g, "done"), vault'[own])
    BY <1>1, <2>3, SetNumbers, CollectsAside, AsideIsGood DEF Thens
  <2>7. d \in Calls
    BY <1>1, <2>3, SetNumbers
  <2> HIDE DEF d
  <2>8. e \in Calls
    BY <2>4, <2>7, SetData
  <2> HIDE DEF e
  <2>9. Good(Reads(e), vault'[own])
    BY <2>8, ReadsType DEF Good, Writing, MaxAttempts
  <2> QED
    BY <2>2, <2>5, <2>6, <2>9, AnsweredStep
<1>3. CASE Commit(p)
  <2> DEFINE d == [c EXCEPT !.step = "allocate"]
             e == [d EXCEPT !.attempt = c.attempt + 1]
             f == [e EXCEPT !.previous = c.epoch]
             g == [f EXCEPT !.keys = {}]
             h == [c EXCEPT !.keys = {}]
  <2>1. g = [c EXCEPT !.step = "allocate", !.attempt = @ + 1, !.previous = c.epoch, !.keys = {}]
    BY <1>1, SMT DEF Calls
  <2>2. \/ Answered(p, Collects(h, "done"))
        \/ Answered(p, g) /\ c.attempt < MaxAttempts
        \/ Answered(p, Idle)
    BY <1>3, <2>1 DEF Commit
  <2>3. ServerType' \/ troubles' \notin Nat
    <3>1. CASE CommitHolds(c)
      <4>1. committed' = committed \cup {<<c.epoch, p>>} /\ c.epoch \in Nat
        BY <1>1, <1>3, <3>1, FieldsOf DEF Commit
      <4>2. committed' \in KeySets
        BY <1>1, <4>1 DEF ServerType, KeySets
      <4>3. IsFiniteSet(committed')
        BY <1>1, <4>1, FS_AddElement DEF ServerType
      <4>5. ASSUME NEW a \in Accounts PROVE CopyFor(c, a) \in Copies
        <5>1. /\ c.epoch \in Nat /\ c.keys \in KeySets
              /\ c.presented[a] \in Nat /\ c.presented[Owner] \in Nat
          BY <1>1, FieldsOf DEF Accounts
        <5> HIDE DEF c
        <5> QED
          BY <5>1 DEF CopyFor, Copies
      <4>4. copies' \in [Accounts -> Copies]
        <5>1. copies' = [a \in Accounts |-> IF a \in InGraph THEN CopyFor(c, a) ELSE copies[a]]
          BY <1>3, <3>1 DEF Commit
        <5>2. copies \in [Accounts -> Copies]
          BY <1>1 DEF ServerType
        <5> HIDE DEF c
        <5> QED
          BY <4>5, <5>1, <5>2
      <4>6. missed' \subseteq Accounts /\ lease' \in Nat /\ due' \in BOOLEAN
        <5>1. missed' = missed \ InGraph /\ lease' = 0 /\ due' = FALSE
          BY <1>3, <3>1 DEF Commit
        <5>2. missed \subseteq Accounts
          BY <1>1 DEF ServerType
        <5>3. missed' \subseteq Accounts
          BY <5>1, <5>2
        <5> QED
          BY <5>1, <5>3
      <4> QED
        BY <1>1, <1>3, <4>2, <4>3, <4>4, <4>6 DEF Commit, ServerType
    <3>2. CASE ~CommitHolds(c)
      BY <1>1, <1>3, <3>2 DEF Commit, ServerType
    <3> QED
      BY <3>1, <3>2
  <2>4. {} \in KeySets
    BY DEF KeySets
  <2> HIDE DEF c
  <2>5. Good(Collects(h, "done"), vault'[own])
    BY <1>1, <2>4, SetData, CollectsAside, AsideIsGood DEF Thens
  <2>6. ASSUME c.attempt < MaxAttempts PROVE Good(g, vault'[own])
    <3>1. d \in Calls /\ d.step = "allocate"
      BY <1>1, SetStep DEF Steps
    <3> HIDE DEF d
    <3>2. c.attempt + 1 \in 0 .. MaxAttempts /\ c.epoch \in Nat
      BY <1>1, <2>6, FieldsOf DEF MaxAttempts
    <3>3. e \in Calls /\ e.step = "allocate"
      BY <3>1, <3>2, SetNumbers
    <3> HIDE DEF e
    <3>4. f \in Calls /\ f.step = "allocate"
      BY <3>2, <3>3, SetNumbers
    <3> HIDE DEF f
    <3>5. g \in Calls /\ g.step = "allocate"
      BY <2>4, <3>4, SetData
    <3> HIDE DEF g
    <3> QED
      BY <3>5 DEF Good, Writing
  <2> HIDE DEF g, h
  <2> QED
    BY <2>2, <2>3, <2>5, <2>6, AnsweredStep, IdleAside, AsideIsGood
<1> QED
  BY <1>2, <1>3

\* The identities an account may be shown.
LEMMA IdentityIsNat == ASSUME VaultType PROVE \A a \in Accounts : Identity[a] \in Nat
BY VaultFields DEF VaultType, Identity

LEMMA ClosingCalls ==
  ASSUME RotationInv, VaultsGrow, VaultType', NEW p \in Processes,
         \/ Acknowledge(p) \/ CreateInvite(p)
         \/ p \in Members /\ Activate(p)
  PROVE  CallType' /\ ServerType'
<1>1. call[p] \in Calls /\ ServerType /\ VaultType /\ Account(p) \in Accounts
  BY InvParts, AccountOf DEF CallType
<1>2. Good(Idle, vault'[Account(p)]) /\ Good(Collected(call[p]), vault'[Account(p)])
  BY <1>1, IdleAside, CollectedAside, AsideIsGood
<1>3. CallType' /\ troubles' \in Nat
  BY <1>2, AnsweredStep DEF Acknowledge, CreateInvite, Activate
<1>4. CASE Acknowledge(p)
  BY <1>1, <1>3, <1>4, NothingTypes DEF Acknowledge, ServerType
<1>5. CASE CreateInvite(p)
  <2> DEFINE c == call[p]
  <2>1. PICK m \in Members :
           IF membership[m] # "active" /\ c.presented[m] = Identity[m] /\ c.key = Identity[Owner]
           THEN /\ membership' = [membership EXCEPT ![m] = "invited"]
                /\ invites' = [invites EXCEPT ![m] =
                       [epoch |-> 0, keys |-> c.keys, to |-> c.presented[m], by |-> c.key]]
                /\ leftAt' = [leftAt EXCEPT ![m] = 0]
                /\ missed' = IF c.keys = committed THEN missed ELSE missed \cup {m}
           ELSE UNCHANGED <<membership, invites, leftAt, missed>>
    BY <1>5 DEF CreateInvite
  <2>2. m \in Accounts
    BY DEF Accounts
  <2>3. c.keys \in KeySets /\ c.presented[m] \in Nat /\ c.key \in Nat
    BY <1>1, <2>2, FieldsOf
  <2> HIDE DEF c
  <2>4. [epoch |-> 0, keys |-> c.keys, to |-> c.presented[m], by |-> c.key] \in Copies
    BY <2>3 DEF Copies
  <2>5. invites' \in [Members -> Copies]
    BY <1>1, <2>1, <2>4 DEF ServerType
  <2>6. membership' \in [Accounts -> {"active", "invited", "out"}]
    BY <1>1, <2>1 DEF ServerType
  <2>7. leftAt' \in [Members -> Nat]
    BY <1>1, <2>1 DEF ServerType
  <2>8. missed' \subseteq Accounts
    <3>1. missed' \in {missed, missed \cup {m}}
      BY <2>1
    <3> QED
      BY <1>1, <2>2, <3>1 DEF ServerType
  <2>9. UNCHANGED <<committed, lease, due, copies, changes>>
    BY <1>5 DEF CreateInvite
  <2> QED
    BY <1>1, <1>3, <2>5, <2>6, <2>7, <2>8, <2>9 DEF ServerType
<1>6. CASE p \in Members /\ Activate(p)
  <2>1. invites' \in [Members -> Copies]
    BY <1>1, <1>6, NothingTypes DEF ServerType, Activate
  <2>2. membership' \in [Accounts -> {"active", "invited", "out"}]
    BY <1>1, <1>6 DEF ServerType, Activate
  <2> QED
    BY <1>1, <1>3, <1>6, <2>1, <2>2 DEF ServerType, Activate
<1> QED
  BY <1>3, <1>4, <1>5, <1>6

LEMMA ReplaceCalls ==
  ASSUME RotationInv, VaultsGrow, VaultType', NEW p \in Processes, ReplaceKeys(p)
  PROVE  CallType' /\ ServerType'
<1> DEFINE c == call[p]
           a == Account(p)
           d == [c EXCEPT !.step = "open"]
           e == [d EXCEPT !.attempt = c.attempt + 1]
<1>1. c \in Calls /\ ServerType /\ VaultType /\ a \in Accounts
  BY InvParts, AccountOf DEF CallType
<1>2. e = [c EXCEPT !.step = "open", !.attempt = @ + 1]
  BY <1>1, SMT DEF Calls
<1>3. \/ Answered(p, Idle)
      \/ Answered(p, e) /\ c.attempt < MaxAttempts
  BY <1>2 DEF ReplaceKeys
<1>4. ServerType' \/ troubles' \notin Nat
  <2>1. CASE vault[a].version = c.read.version
    <3> DEFINE gone == {m \in Members : membership[m] = "invited" /\ (a = Owner \/ m = a)}
    <3>1. /\ membership' = [b \in Accounts |-> IF b \in gone THEN "out" ELSE membership[b]]
          /\ invites' = [m \in Members |-> IF m \in gone THEN NoCopy ELSE invites[m]]
          /\ copies' = [b \in Accounts |-> IF b \in gone \cup {a} THEN NoCopy ELSE copies[b]]
          /\ due' = (due \/ a = Owner)
          /\ leftAt' = [m \in Members |-> IF a = Owner /\ m \in gone THEN Current ELSE leftAt[m]]
          /\ missed' = missed \cup {b \in Accounts : Reach(b)' # committed}
          /\ UNCHANGED <<committed, lease, changes>>
      BY <2>1 DEF ReplaceKeys
    <3> HIDE DEF gone, a
    <3>2. membership' \in [Accounts -> {"active", "invited", "out"}]
      BY <1>1, <3>1 DEF ServerType
    <3>3. invites' \in [Members -> Copies] /\ copies' \in [Accounts -> Copies]
      BY <1>1, <3>1, NothingTypes DEF ServerType
    <3>4. leftAt' \in [Members -> Nat]
      BY <1>1, <3>1, CurrentIsNat DEF ServerType
    <3>5. missed' \subseteq Accounts
      BY <1>1, <3>1 DEF ServerType
    <3>6. due' \in BOOLEAN
      BY <1>1, <3>1 DEF ServerType
    <3> QED
      BY <1>1, <3>1, <3>2, <3>3, <3>4, <3>5, <3>6 DEF ServerType
  <2>2. CASE vault[a].version # c.read.version
    BY <1>1, <2>2 DEF ReplaceKeys, ServerType
  <2> QED
    BY <2>1, <2>2
<1> HIDE DEF c, a
<1>5. ASSUME c.attempt < MaxAttempts PROVE Good(e, vault'[Account(p)])
  <2>1. d \in Calls /\ d.step = "open"
    BY <1>1, SetStep DEF Steps
  <2> HIDE DEF d
  <2>2. c.attempt + 1 \in 0 .. MaxAttempts
    BY <1>1, <1>5, FieldsOf DEF MaxAttempts
  <2>3. e \in Calls /\ e.step = "open"
    BY <2>1, <2>2, SetNumbers
  <2> HIDE DEF e
  <2> QED
    BY <2>3 DEF Good, Writing
<1> HIDE DEF e
<1> QED
  BY <1>3, <1>4, <1>5, AnsweredStep, IdleAside, AsideIsGood

LEMMA GoOnStep ==
  ASSUME RotationInv, VaultsGrow, VaultType', NEW p \in Processes, GoOn(p)
  PROVE  CallType' /\ ServerType'
BY VaultCalls, SmallCalls, RotateCalls, ClosingCalls, ReplaceCalls DEF GoOn

-----------------------------------------------------------------------------
(* Calls that begin.                                                       *)

\* A call that begins neither writes nor has counted anything it may not have.
Fresh(c) == c \in Calls /\ c.step # "write" /\ c.step # "replace" /\ (c.step = "read" => c.tries = 1)

LEMMA BeginsStep ==
  ASSUME RotationInv, VaultsGrow, VaultType', NEW p \in Processes, NEW c, Fresh(c), Begins(p, c)
  PROVE  CallType' /\ UNCHANGED troubles
<1> DEFINE k == vault[Account(p)].identity
           d == [c EXCEPT !.key = k]
<1>1. k \in Nat
  BY InvParts, AccountOf, VaultFields DEF VaultType
<1>2. call' = [call EXCEPT ![p] = d] /\ UNCHANGED troubles
  BY DEF Begins, Goes
<1> HIDE DEF k
<1>3. d \in Calls /\ d.step = c.step /\ d.tries = c.tries
  BY <1>1, SetNumbers DEF Fresh
<1> HIDE DEF d
<1>4. Good(d, vault'[Account(p)])
  BY <1>3 DEF Fresh, Good, Writing, MaxAttempts
<1> QED
  BY <1>2, <1>4, CallStepOf

LEMMA CollectsFresh ==
  ASSUME NEW k \in Kinds, NEW then \in Thens
  PROVE  Fresh(Collects([Idle EXCEPT !.kind = k], then))
<1> DEFINE d == [Idle EXCEPT !.kind = k]
<1>1. d \in Calls
  BY IdleAside, SetPlace DEF Aside
<1> HIDE DEF d
<1>2. Aside(Collects(d, then))
  BY <1>1, CollectsAside
<1>3. Fresh(Collects(d, then))
  BY <1>2 DEF Aside, Fresh
<1> QED
  BY <1>3 DEF d

\* A vault update that begins, with the identity it was shown.
LEMMA ReadsFresh ==
  ASSUME NEW k \in Kinds, NEW keys \in KeySets, NEW a \in Accounts, NEW n \in Nat
  PROVE  /\ Fresh(Reads([Idle EXCEPT !.kind = k, !.keys = keys, !.presented[a] = n]))
         /\ Fresh(Reads([Idle EXCEPT !.kind = k, !.presented[a] = n]))
<1> DEFINE d == [Idle EXCEPT !.kind = k]
           e == [d EXCEPT !.keys = keys]
           f == [Idle.presented EXCEPT ![a] = n]
           g == [e EXCEPT !.presented = f]
           h == [d EXCEPT !.presented = f]
<1>1. /\ g = [Idle EXCEPT !.kind = k, !.keys = keys, !.presented[a] = n]
      /\ h = [Idle EXCEPT !.kind = k, !.presented[a] = n]
  BY DEF Idle
<1>2. f \in [Accounts -> Nat]
  BY NothingTypes DEF Idle
<1>3. d \in Calls
  BY IdleAside, SetPlace DEF Aside
<1> HIDE DEF d, f
<1>4. e \in Calls /\ h \in Calls
  BY <1>2, <1>3, SetData
<1> HIDE DEF e
<1>5. g \in Calls
  BY <1>2, <1>4, SetData
<1> HIDE DEF g, h
<1>6. Fresh(Reads(g)) /\ Fresh(Reads(h))
  BY <1>4, <1>5, ReadsType DEF Fresh
<1> QED
  BY <1>1, <1>6

LEMMA StartStep ==
  ASSUME RotationInv, VaultsGrow, VaultType', NEW p \in Processes,
         \/ StartCollect(p) \/ StartRotate(p) \/ StartReplace(p)
         \/ \E a \in Accounts : StartVerify(p, a)
         \/ \E m \in Members : StartInvite(p, m)
         \/ p \in Members /\ StartAccept(p)
  PROVE  CallType' /\ ServerType'
<1>1. ServerType /\ VaultType
  BY InvParts
<1>2. \E c : Fresh(c) /\ Begins(p, c)
  <2>1. CASE StartCollect(p)
    BY <2>1, CollectsFresh DEF StartCollect, Kinds, Thens
  <2>2. CASE StartRotate(p)
    <3> DEFINE c == [Idle EXCEPT !.kind = "rotate", !.step = "allocate", !.attempt = 1, !.from = Current]
    <3>1. Current \in Nat
      BY <1>1, CurrentIsNat
    <3> DEFINE d == [Idle EXCEPT !.kind = "rotate"]
               e == [d EXCEPT !.step = "allocate"]
               f == [e EXCEPT !.attempt = 1]
    <3>4. Begins(p, c)
      BY <2>2 DEF StartRotate
    <3>6. c = [f EXCEPT !.from = Current]
      BY DEF Idle
    <3> HIDE DEF c
    <3>7. d \in Calls
      BY IdleAside, SetPlace DEF Aside, Kinds
    <3> HIDE DEF d
    <3>8. e \in Calls /\ e.step = "allocate"
      BY <3>7, SetStep DEF Steps
    <3> HIDE DEF e
    <3>10. 1 \in 0 .. MaxAttempts
      BY DEF MaxAttempts
    <3>9. f \in Calls /\ f.step = "allocate"
      BY <3>8, <3>10, SetNumbers
    <3> HIDE DEF f
    <3>2. c \in Calls /\ c.step = "allocate"
      BY <3>1, <3>6, <3>9, SetNumbers
    <3>5. Fresh(c)
      BY <3>2 DEF Fresh
    <3> QED
      BY <3>4, <3>5
  <2>3. CASE StartReplace(p)
    BY <2>3, CollectsFresh DEF StartReplace, Kinds, Thens
  <2>4. ASSUME NEW a \in Accounts, StartVerify(p, a) PROVE \E c : Fresh(c) /\ Begins(p, c)
    <3>1. Identity[a] \in Nat /\ "verify" \in Kinds /\ {} \in KeySets
      BY <1>1, IdentityIsNat DEF Kinds, KeySets
    <3> QED
      BY <2>4, <3>1, ReadsFresh DEF StartVerify
  <2>5. ASSUME NEW m \in Members, StartInvite(p, m) PROVE \E c : Fresh(c) /\ Begins(p, c)
    <3>1. m \in Accounts /\ "invite" \in Kinds /\ {} \in KeySets
      BY DEF Accounts, Kinds, KeySets
    <3>2. Identity[m] \in Nat
      BY <1>1, <3>1, IdentityIsNat
    <3> QED
      BY <2>5, <3>1, <3>2, ReadsFresh DEF StartInvite
  <2>6. CASE p \in Members /\ StartAccept(p)
    <3>1. invites[p] \in Copies
      BY <1>1, <2>6 DEF ServerType
    <3>2. invites[p].by \in Nat /\ invites[p].keys \in KeySets
      BY <3>1, CopyFields
    <3>3. Owner \in Accounts /\ "accept" \in Kinds
      BY DEF Accounts, Kinds
    <3> QED
      BY <2>6, <3>2, <3>3, ReadsFresh DEF StartAccept
  <2> QED
    BY <2>1, <2>2, <2>3, <2>4, <2>5, <2>6
<1>3. CallType' /\ UNCHANGED troubles
  BY <1>2, BeginsStep
<1>4. UNCHANGED server /\ (UNCHANGED changes \/ changes' = changes + 1)
  BY DEF StartCollect, StartRotate, StartReplace, StartVerify, StartInvite, StartAccept
<1>5. changes' \in Nat
  BY <1>1, <1>4 DEF ServerType
<1> QED
  BY <1>1, <1>3, <1>4, <1>5 DEF ServerType, server

LEMMA RemoveStep ==
  ASSUME RotationInv, NEW m \in Members, RemoveMember(m)
  PROVE  ServerType'
<1>1. ServerType /\ m \in Accounts
  BY InvParts DEF Accounts
<1>2. /\ membership' \in [Accounts -> {"active", "invited", "out"}]
      /\ copies' \in [Accounts -> Copies] /\ invites' \in [Members -> Copies]
  BY <1>1, NothingTypes DEF RemoveMember, Leave, ServerType
<1>3. leftAt' \in [Members -> Nat]
  BY <1>1, CurrentIsNat DEF RemoveMember, ServerType
<1> QED
  BY <1>1, <1>2, <1>3 DEF RemoveMember, ServerType

LEMMA RotationStep ==
  ASSUME RotationInv, [Next]_vars
  PROVE  RotationInv'
<1>1. VaultType' /\ VaultsGrow
  BY VaultStep
<1>2. ServerType /\ CallType
  BY InvParts
<1>3. ASSUME UNCHANGED <<vault, call>> PROVE CallType'
  <2>1. ASSUME NEW q \in Processes PROVE Good(call'[q], vault'[Account(q)])
    <3>1. call'[q] = call[q] /\ vault'[Account(q)] = vault[Account(q)]
      BY <1>3
    <3> QED
      BY <1>2, <3>1 DEF CallType
  <2> QED
    BY <1>2, <1>3, <2>1 DEF CallType
<1>4. ASSUME NEW p \in Processes, GoOn(p) PROVE CallType' /\ ServerType'
  BY <1>1, <1>4, GoOnStep
<1>5. ASSUME NEW p \in Processes, Trouble(p) PROVE CallType' /\ ServerType'
  BY <1>1, <1>5, SmallCalls
<1>6. ASSUME NEW p \in Processes,
             StartCollect(p) \/ StartRotate(p) \/ StartReplace(p)
               \/ (\E a \in Accounts : StartVerify(p, a)) \/ (\E m \in Members : StartInvite(p, m))
      PROVE  CallType' /\ ServerType'
  BY <1>1, <1>6, StartStep
<1>7. ASSUME NEW m \in Members, RemoveMember(m) PROVE CallType' /\ ServerType'
  BY <1>3, <1>7, RemoveStep DEF RemoveMember
<1>8. ASSUME NEW m \in Members, StartAccept(m) PROVE CallType' /\ ServerType'
  BY <1>1, <1>8, StartStep DEF Processes
<1>9. ASSUME RequestRotation PROVE CallType' /\ ServerType'
  BY <1>2, <1>3, <1>9 DEF RequestRotation, ServerType
<1>10. ASSUME UNCHANGED vars PROVE CallType' /\ ServerType'
  BY <1>2, <1>3, <1>10 DEF vars, server, ServerType
<1>11. CallType' /\ ServerType'
  BY <1>4, <1>5, <1>6, <1>7, <1>8, <1>9, <1>10 DEF Next
<1> QED
  BY <1>1, <1>11, InvPartsNext

LEMMA RotationInit == Init => RotationInv
<1> SUFFICES ASSUME Init PROVE RotationInv
  OBVIOUS
<1>1. committed = {<<1, Owner>>} /\ {} \in KeySets
  BY DEF Init, KeySets
<1>2. committed \in KeySets
  BY <1>1 DEF KeySets
<1>3. IsFiniteSet(committed)
  BY <1>1, FS_Singleton
<1>4. ServerType
  BY <1>2, <1>3, NothingTypes, EpochRotationAssumption DEF Init, ServerType
<1>5. VaultType
  <2>1. ASSUME NEW a \in Accounts PROVE vault[a] \in Vaults
    BY <1>1, <1>2, NothingTypes DEF Init, Vaults
  <2> QED
    BY <2>1 DEF Init, VaultType
<1>6. CallType
  <2>1. \A p \in Processes : Good(Idle, vault[Account(p)])
    BY IdleAside, AsideIsGood
  <2>2. Idle \in Calls
    BY IdleAside DEF Aside
  <2> QED
    BY <2>1, <2>2 DEF Init, CallType
<1> QED
  BY <1>4, <1>5, <1>6, InvParts

-----------------------------------------------------------------------------

\* Whatever a device is about to write over is what the server has, or a version behind it: the
\* compare-and-set of a vault is never passed by a vault read before another device's write.
THEOREM RotationInvariant == Spec => []RotationInv
<1>1. RotationInv /\ [Next]_vars => RotationInv'
  BY RotationStep
<1> QED
  BY RotationInit, <1>1, PTL DEF Spec

\* Every variable keeps its type, and a vault update counts its attempts from one to three.
THEOREM RotationTypeCorrect == Spec => []TypeOK
<1>1. RotationInv => TypeOK
  BY DEF RotationInv
<1> QED
  BY RotationInvariant, <1>1, PTL

\* No write of a vault loses an epoch or a pin that another device of the account put there,
\* whatever calls of whatever devices overlap, are cut short, or are tried again.
THEOREM NothingLostByAWrite == Spec => VaultKeepsWhatItHolds
<1> DEFINE Kept == \A a \in Accounts :
                      /\ vault[a].keys \subseteq vault'[a].keys
                      /\ \A b \in Accounts : vault[a].pins[b] # 0 => vault'[a].pins[b] # 0
<1>1. RotationInv /\ [Next]_vars => [Kept]_vars
  BY VaultStep DEF VaultsGrow
<1>2. VaultKeepsWhatItHolds <=> [][Kept]_vars
  BY DEF VaultKeepsWhatItHolds
<1> HIDE DEF Kept
<1> QED
  BY RotationInvariant, <1>1, <1>2, PTL DEF Spec

-----------------------------------------------------------------------------
(* What an account may know of the graph's epochs: an initial part of      *)
(* them, as long as it is in the graph, up to the one it left at after.    *)

Up(g, n) == {k \in g : k[1] <= n}
Top(g)   == Cardinality(g)

\* The epochs of a graph are counted from one, each with a key.
Chained(g) == g \in KeySets /\ IsFiniteSet(g) /\ EpochsIn(g) = 1 .. Top(g)

\* A keyring is an initial part of the graph's epochs.
Ring(g, lim, keys) == \E n \in 0 .. lim : keys = Up(g, n)
Whole(g, lim, c)   == c.epoch \in 0 .. lim /\ c.keys = Up(g, c.epoch)

\* What a call carries, held being what its account's vault holds and lim the last epoch it may know.
Sound(g, held, lim, p, c) ==
    /\ Whole(g, lim, c.copy)
    /\ c.step = "commit" =>
           /\ c.kind = "rotate" /\ c.then = "no" /\ c.epoch - 1 \in 1 .. Top(g)
           /\ c.keys = Up(g, c.epoch - 1) \cup {<<c.epoch, p>>}
    /\ c.step # "commit" => Ring(g, lim, c.keys)
    /\ c.step = "allocate" => c.then = "no"
    /\ c.kind \in {"rotate", "invite"} => p \in Devices
    /\ c.kind = "accept" \/ c.step \in {"create", "activate"} => c.keys # {}
    /\ c.step = "activate" => c.keys \subseteq held
    /\ c.step = "ack" => c.copy.keys \subseteq held
    /\ c.from <= Top(g)
    /\ c.epoch = 0 \/ c.from < c.epoch
    /\ c.previous = 0 \/ c.from < c.previous
    /\ c.then = "done" => c.epoch \in c.from + 1 .. Top(g)

LEMMA KeyEpochIsNat == ASSUME NEW g \in KeySets PROVE \A k \in g : k[1] \in Nat
BY DEF KeySets

LEMMA TopIsNat == ASSUME NEW g, Chained(g) PROVE Top(g) \in Nat
BY FS_CardinalityType DEF Chained, Top

LEMMA KeysWithin == ASSUME NEW g, Chained(g) PROVE \A k \in g : k[1] \in 1 .. Top(g)
BY DEF Chained, EpochsIn

LEMMA ChainGrows ==
  ASSUME NEW g, Chained(g), NEW x \in Nat \X (Processes \cup {Owner}), x[1] = Top(g) + 1
  PROVE  LET h == g \cup {x} IN
         Chained(h) /\ Top(h) = Top(g) + 1 /\ Up(h, Top(h)) = h /\ \A n \in 0 .. Top(g) : Up(h, n) = Up(g, n)
<1> DEFINE h == g \cup {x}
<1>1. Top(g) \in Nat /\ \A k \in g : k[1] \in 1 .. Top(g)
  BY TopIsNat, KeysWithin
<1>2. x \notin g
  BY <1>1
<1>3. IsFiniteSet(h) /\ Top(h) = Top(g) + 1
  BY <1>2, FS_AddElement DEF Chained, Top
<1>4. h \in KeySets
  BY DEF Chained, KeySets
<1>5. EpochsIn(h) = EpochsIn(g) \cup {x[1]}
  BY DEF EpochsIn
<1>6. EpochsIn(h) = 1 .. Top(h)
  <2>1. EpochsIn(h) = (1 .. Top(g)) \cup {Top(g) + 1}
    BY <1>5 DEF Chained
  <2>2. \A n \in Nat : (1 .. n) \cup {n + 1} = 1 .. (n + 1)
    OBVIOUS
  <2> QED
    BY <1>1, <1>3, <2>1, <2>2
<1>7. ASSUME NEW n \in 0 .. Top(g) PROVE Up(h, n) = Up(g, n)
  BY <1>1 DEF Up
<1>8. Up(h, Top(h)) = h
  BY <1>1, <1>3 DEF Up
<1>9. Chained(h)
  BY <1>3, <1>4, <1>6 DEF Chained
<1> QED
  BY <1>3, <1>7, <1>8, <1>9

LEMMA AllOfIt == ASSUME NEW g, Chained(g) PROVE Up(g, Top(g)) = g /\ Up(g, 0) = {}
BY TopIsNat, KeysWithin DEF Up

LEMMA RingIn ==
  ASSUME NEW g, Chained(g), NEW lim \in 0 .. Top(g), NEW keys, Ring(g, lim, keys)
  PROVE  keys \subseteq g /\ \A k \in keys : k[1] <= lim
BY TopIsNat, KeysWithin DEF Ring, Up

LEMMA NoRing == ASSUME NEW g, Chained(g), NEW lim \in Nat PROVE Ring(g, lim, {}) /\ Whole(g, lim, NoCopy)
<1>1. 0 \in 0 .. lim
  OBVIOUS
<1> QED
  BY <1>1, AllOfIt DEF Ring, Whole, NoCopy

LEMMA JoinRings ==
  ASSUME NEW g, Chained(g), NEW lim \in 0 .. Top(g), NEW a, NEW b, Ring(g, lim, a), Ring(g, lim, b)
  PROVE  Ring(g, lim, a \cup b)
<1>1. PICK n \in 0 .. lim, m \in 0 .. lim : a = Up(g, n) /\ b = Up(g, m)
  BY DEF Ring
<1>2. lim \in Nat /\ \A k \in g : k[1] \in Nat
  BY TopIsNat, KeysWithin
<1>3. CASE n <= m
  <2>1. a \cup b = Up(g, m)
    BY <1>1, <1>2, <1>3 DEF Up
  <2> QED
    BY <2>1, <1>1 DEF Ring
<1>4. CASE m <= n
  <2>1. a \cup b = Up(g, n)
    BY <1>1, <1>2, <1>4 DEF Up
  <2> QED
    BY <2>1, <1>1 DEF Ring
<1> QED
  BY <1>2, <1>3, <1>4

LEMMA NewestOfRing ==
  ASSUME NEW g, Chained(g), NEW n \in 1 .. Top(g)
  PROVE  Newest(Up(g, n)) = n
<1>1. Top(g) \in Nat /\ \A k \in g : k[1] \in 1 .. Top(g)
  BY TopIsNat, KeysWithin
<1>2. EpochsIn(Up(g, n)) = 1 .. n
  <2>1. ASSUME NEW e \in 1 .. n PROVE e \in EpochsIn(Up(g, n))
    <3>1. e \in EpochsIn(g)
      BY <1>1 DEF Chained
    <3>2. PICK k \in g : k[1] = e
      BY <3>1 DEF EpochsIn
    <3> QED
      BY <3>2 DEF EpochsIn, Up
  <2>2. ASSUME NEW e \in EpochsIn(Up(g, n)) PROVE e \in 1 .. n
    BY <1>1 DEF EpochsIn, Up
  <2> QED
    BY <2>1, <2>2
<1>3. n \in 1 .. n /\ \A f \in 1 .. n : f <= n
  OBVIOUS
<1>4. \A e \in 1 .. n : (\A f \in 1 .. n : f <= e) => e = n
  BY <1>3
<1> QED
  BY <1>2, <1>3, <1>4 DEF Newest

-----------------------------------------------------------------------------
(* The calls, by what they carry.                                          *)

\* The call goes on with what it had, or with less.
Alike(c, d) ==
    /\ d.kind = c.kind /\ d.keys = c.keys /\ d.from = c.from /\ d.epoch = c.epoch /\ d.previous = c.previous
    /\ d.copy \in {c.copy, NoCopy}
    /\ d.then = "done" => c.then = "done"
    /\ d.step = "allocate" => d.then = "no"

LEMMA SoundMoves ==
  ASSUME NEW g, NEW held, NEW lim \in Nat, NEW p, NEW c, NEW d, Chained(g),
         Sound(g, held, lim, p, c), c.step # "commit", Alike(c, d),
         d.step \notin {"commit", "create", "activate", "ack"}
  PROVE  Sound(g, held, lim, p, d)
<1>1. Whole(g, lim, NoCopy)
  BY NoRing
<1> QED
  BY <1>1 DEF Sound, Alike

LEMMA SoundIdle ==
  ASSUME NEW g, NEW held, NEW lim \in Nat, NEW p, Chained(g)
  PROVE  Sound(g, held, lim, p, Idle)
<1>1. Whole(g, lim, NoCopy) /\ Ring(g, lim, {}) /\ Top(g) \in Nat
  BY NoRing, TopIsNat
<1> QED
  BY <1>1 DEF Sound, Idle

LEMMA CollectedIs ==
  ASSUME NEW c \in Calls
  PROVE  \/ Collected(c) = Idle
         \/ c.then # "no" /\ Alike(c, Collected(c)) /\ Collected(c).step \in {"open", "allocate"}
<1>1. CASE c.then = "replace"
  <2> DEFINE d == [c EXCEPT !.step = "open", !.then = "no", !.attempt = 1]
  <2>1. Alike(c, d) /\ d.step = "open"
    BY SMT DEF Calls, Alike
  <2> QED
    BY <1>1, <2>1 DEF Collected
<1>2. CASE c.then = "again" /\ c.attempt < MaxAttempts
  <2> DEFINE d == [c EXCEPT !.step = "allocate", !.then = "no", !.attempt = @ + 1, !.copy = NoCopy]
  <2>1. Alike(c, d) /\ d.step = "allocate"
    BY SMT DEF Calls, Alike
  <2> QED
    BY <1>2, <2>1 DEF Collected
<1> QED
  BY <1>1, <1>2 DEF Collected

LEMMA SoundCollected ==
  ASSUME NEW g, NEW held, NEW lim \in Nat, NEW p, NEW c \in Calls, Chained(g), Sound(g, held, lim, p, c)
  PROVE  Sound(g, held, lim, p, Collected(c)) /\ Sound(g, held, lim, p, Throws(c))
<1>1. c.then # "no" => c.step # "commit"
  BY DEF Sound
<1>2. Sound(g, held, lim, p, Idle)
  BY SoundIdle
<1>3. Sound(g, held, lim, p, Collected(c))
  <2>1. CASE Collected(c) = Idle
    BY <1>2, <2>1
  <2>2. CASE c.then # "no" /\ Alike(c, Collected(c)) /\ Collected(c).step \in {"open", "allocate"}
    BY <1>1, <2>2, SoundMoves
  <2> QED
    BY <2>1, <2>2, CollectedIs
<1> QED
  BY <1>2, <1>3 DEF Throws

LEMMA CollectsIs ==
  ASSUME NEW c \in Calls, NEW then \in Thens
  PROVE  LET d == Collects(c, then) IN
         /\ d.step = "list" /\ d.then = then /\ (then # "done" => Alike(c, d))
         /\ d.kind = c.kind /\ d.keys = c.keys /\ d.copy = c.copy
         /\ d.from = c.from /\ d.epoch = c.epoch /\ d.previous = c.previous
BY SMT DEF Calls, Collects, Alike

LEMMA SoundCollects ==
  ASSUME NEW g, NEW held, NEW lim \in Nat, NEW p, NEW c \in Calls, Chained(g), Sound(g, held, lim, p, c),
         c.step # "commit", NEW then \in Thens, then = "done" => c.epoch \in c.from + 1 .. Top(g)
  PROVE  Sound(g, held, lim, p, Collects(c, then))
<1> DEFINE d == Collects(c, then)
<1>1. /\ d.step = "list" /\ d.then = then
      /\ d.kind = c.kind /\ d.keys = c.keys /\ d.copy = c.copy
      /\ d.from = c.from /\ d.epoch = c.epoch /\ d.previous = c.previous
  BY CollectsIs
<1> HIDE DEF d
<1>2. Sound(g, held, lim, p, d)
  BY <1>1 DEF Sound
<1> QED
  BY <1>2 DEF d

LEMMA SoundReads ==
  ASSUME NEW g, NEW held, NEW lim \in Nat, NEW p, NEW c \in Calls, Chained(g), Sound(g, held, lim, p, c),
         c.step # "commit"
  PROVE  Sound(g, held, lim, p, Reads(c))
<1>1. Alike(c, Reads(c)) /\ Reads(c).step = "read"
  BY SMT DEF Calls, Alike, Reads
<1> QED
  BY <1>1, SoundMoves

\* The graph gains an epoch, the vault what it gains, the account what it may know.
Longer(g, h) == Top(g) <= Top(h) /\ \A n \in 0 .. Top(g) : Up(h, n) = Up(g, n)

LEMMA RingStays ==
  ASSUME NEW g, NEW h, Chained(g), Chained(h), Longer(g, h),
         NEW lim \in 0 .. Top(g), NEW more \in 0 .. Top(h), lim <= more
  PROVE  /\ \A keys : Ring(g, lim, keys) => Ring(h, more, keys)
         /\ \A c : Whole(g, lim, c) => Whole(h, more, c)
<1>1. Top(g) \in Nat /\ Top(h) \in Nat
  BY TopIsNat
<1>2. \A n \in 0 .. lim : n \in 0 .. more /\ Up(h, n) = Up(g, n)
  BY <1>1 DEF Longer
<1> QED
  BY <1>2 DEF Ring, Whole

LEMMA SoundStays ==
  ASSUME NEW g, NEW h, Chained(g), Chained(h), Longer(g, h), NEW p, NEW c \in Calls,
         NEW lim \in 0 .. Top(g), NEW more \in 0 .. Top(h), lim <= more,
         NEW held, NEW kept, held \subseteq kept, Sound(g, held, lim, p, c)
  PROVE  Sound(h, kept, more, p, c)
<1>1. Top(g) \in Nat /\ Top(h) \in Nat /\ c.epoch \in Nat /\ c.from \in Nat /\ c.previous \in Nat
  BY TopIsNat, FieldsOf
<1>2. Whole(h, more, c.copy) /\ (c.step # "commit" => Ring(h, more, c.keys))
  BY RingStays DEF Sound
<1>3. ASSUME c.step = "commit"
      PROVE  c.epoch - 1 \in 1 .. Top(h) /\ c.keys = Up(h, c.epoch - 1) \cup {<<c.epoch, p>>}
  <2>1. c.epoch - 1 \in 1 .. Top(g) /\ c.keys = Up(g, c.epoch - 1) \cup {<<c.epoch, p>>}
    BY <1>3 DEF Sound
  <2> QED
    BY <1>1, <2>1 DEF Longer
<1>4. c.from <= Top(h) /\ (c.then = "done" => c.epoch \in c.from + 1 .. Top(h))
  BY <1>1 DEF Sound, Longer
<1> QED
  BY <1>2, <1>3, <1>4 DEF Sound

\* What a call makes of a vault holds no more than the call carries, and what it came to bring.
LEMMA ChangeRings ==
  ASSUME NEW g, Chained(g), NEW lim \in 0 .. Top(g), NEW held, NEW p, NEW c \in Calls,
         Sound(g, held, lim, p, c), c.step # "commit",
         NEW v \in Vaults, NEW own \in Accounts, Ring(g, lim, v.keys)
  PROVE  LET to == Change(v, own, c) IN
         /\ Ring(g, lim, to.keys) /\ to.identity = v.identity /\ to.pins \in [Accounts -> Nat]
         /\ Collecting(c) /\ Folds(v, own, c) => c.copy.keys \subseteq to.keys
         /\ ~Collecting(c) /\ c.kind = "accept" => c.keys \subseteq to.keys
<1> DEFINE w == WithPins(v, own, c.presented)
           to == Change(v, own, c)
<1>1. w \in Vaults /\ w.keys = v.keys /\ w.identity = v.identity
  <2>1. w \in Vaults
    BY WithPinsExtends, FieldsOf DEF Extends
  <2>2. w.keys = v.keys /\ w.identity = v.identity
    BY SMT DEF WithPins, Vaults
  <2> QED
    BY <2>1, <2>2
<1>2. Ring(g, lim, c.copy.keys) /\ Ring(g, lim, c.keys)
  BY DEF Sound, Whole, Ring
<1>3. to \in Vaults
  BY ChangeExtends DEF Extends
<1>4. /\ to = v \/ to = w \/ to = [w EXCEPT !.keys = @ \cup c.copy.keys] \/ to = [w EXCEPT !.keys = @ \cup c.keys]
      /\ Collecting(c) /\ Folds(v, own, c) => to = [w EXCEPT !.keys = @ \cup c.copy.keys]
      /\ ~Collecting(c) /\ c.kind = "accept" => to = [w EXCEPT !.keys = @ \cup c.keys]
  BY DEF Change
<1> HIDE DEF w, to
<1> DEFINE x(k) == [w EXCEPT !.keys = @ \cup k]
<1>5. ASSUME NEW k PROVE x(k).keys = v.keys \cup k /\ x(k).identity = v.identity
  BY <1>1, SMT DEF Vaults
<1>6. Ring(g, lim, v.keys \cup c.copy.keys) /\ Ring(g, lim, v.keys \cup c.keys)
  BY <1>2, JoinRings
<1> HIDE DEF x
<1>11. /\ to = v \/ to = w \/ to = x(c.copy.keys) \/ to = x(c.keys)
       /\ Collecting(c) /\ Folds(v, own, c) => to = x(c.copy.keys)
       /\ ~Collecting(c) /\ c.kind = "accept" => to = x(c.keys)
  BY <1>4 DEF x
<1>7. Ring(g, lim, to.keys) /\ to.identity = v.identity
  BY <1>1, <1>5, <1>6, <1>11
<1>8. Collecting(c) /\ Folds(v, own, c) => c.copy.keys \subseteq to.keys
  BY <1>5, <1>11
<1>9. ~Collecting(c) /\ c.kind = "accept" => c.keys \subseteq to.keys
  BY <1>5, <1>11
<1>10. to.pins \in [Accounts -> Nat]
  BY <1>3, VaultFields
<1> QED
  BY <1>7, <1>8, <1>9, <1>10 DEF to

LEMMA SoundUpdated ==
  ASSUME NEW g, Chained(g), NEW lim \in 0 .. Top(g), NEW held, NEW p, NEW c \in Calls,
         Sound(g, held, lim, p, c), c.step \in {"read", "write"},
         NEW v \in Vaults, Ring(g, lim, v.keys), p \in Devices => v.keys # {},
         Collecting(c) /\ Folds(v, Account(p), c) => c.copy.keys \subseteq held,
         ~Collecting(c) /\ c.kind = "accept" => c.keys \subseteq held
  PROVE  Sound(g, held, lim, p, Updated(p, c, v))
<1> DEFINE ack == [c EXCEPT !.step = "ack"]
           commit == [c EXCEPT !.step = "commit", !.keys = v.keys \cup {<<c.epoch, p>>},
                               !.presented[Owner] = v.identity]
           create == [c EXCEPT !.step = "create", !.keys = v.keys]
           activate == [c EXCEPT !.step = "activate"]
<1>0. lim \in Nat /\ Top(g) \in Nat
  BY TopIsNat
<1>1. ASSUME Collecting(c), Folds(v, Account(p), c) PROVE Sound(g, held, lim, p, ack)
  <2>1. Alike(c, ack) /\ ack.step = "ack" /\ ack.copy = c.copy /\ ack.then = c.then
    BY SMT DEF Calls, Alike
  <2> HIDE DEF ack
  <2> QED
    BY <1>1, <2>1 DEF Sound, Alike
<1>2. ASSUME ~Collecting(c), c.kind = "rotate", BuildsOn(v.keys, c.epoch) PROVE Sound(g, held, lim, p, commit)
  <2>1. /\ commit.kind = c.kind /\ commit.from = c.from /\ commit.epoch = c.epoch
        /\ commit.previous = c.previous /\ commit.copy = c.copy /\ commit.then = c.then
        /\ commit.step = "commit" /\ commit.keys = v.keys \cup {<<c.epoch, p>>}
    BY SMT DEF Calls
  <2>2. PICK n \in 0 .. lim : v.keys = Up(g, n)
    BY DEF Ring
  <2>3. v.keys # {}
    BY <1>2 DEF Sound
  <2>4. n # 0
    BY <2>2, <2>3, AllOfIt
  <2>5. n \in 1 .. Top(g)
    BY <1>0, <2>4
  <2>6. n = c.epoch - 1
    BY <1>2, <2>2, <2>5, NewestOfRing DEF BuildsOn
  <2>7. c.epoch - 1 \in 1 .. Top(g) /\ commit.keys = Up(g, c.epoch - 1) \cup {<<c.epoch, p>>}
    BY <2>1, <2>2, <2>5, <2>6
  <2>8. commit.then = "no"
    BY <1>2, <2>1 DEF Collecting
  <2> HIDE DEF commit
  <2> QED
    BY <1>2, <2>1, <2>7, <2>8 DEF Sound
<1>3. ASSUME c.kind = "invite" PROVE Sound(g, held, lim, p, create)
  <2>1. /\ create.kind = c.kind /\ create.from = c.from /\ create.epoch = c.epoch
        /\ create.previous = c.previous /\ create.copy = c.copy /\ create.then = c.then
        /\ create.step = "create" /\ create.keys = v.keys
    BY SMT DEF Calls
  <2>2. v.keys # {}
    BY <1>3 DEF Sound
  <2> HIDE DEF create
  <2> QED
    BY <1>3, <2>1, <2>2 DEF Sound
<1>4. ASSUME ~Collecting(c), c.kind = "accept" PROVE Sound(g, held, lim, p, activate)
  <2>1. Alike(c, activate) /\ activate.step = "activate" /\ activate.copy = c.copy /\ activate.then = c.then
    BY SMT DEF Calls, Alike
  <2> HIDE DEF activate
  <2> QED
    BY <1>4, <2>1 DEF Sound, Alike
<1>5. /\ Sound(g, held, lim, p, Idle) /\ Sound(g, held, lim, p, Collected(c))
      /\ Sound(g, held, lim, p, Collects(c, "again"))
  BY <1>0, SoundIdle, SoundCollected, SoundCollects DEF Thens
<1> HIDE DEF ack, commit, create, activate
<1>6. \/ Updated(p, c, v) \in {Idle, Collected(c), Collects(c, "again")}
      \/ Collecting(c) /\ Folds(v, Account(p), c) /\ Updated(p, c, v) = ack
      \/ ~Collecting(c) /\ c.kind = "rotate" /\ BuildsOn(v.keys, c.epoch) /\ Updated(p, c, v) = commit
      \/ c.kind = "invite" /\ Updated(p, c, v) = create
      \/ ~Collecting(c) /\ c.kind = "accept" /\ Updated(p, c, v) = activate
  BY DEF Updated, ack, commit, create, activate
<1> QED
  BY <1>1, <1>2, <1>3, <1>4, <1>5, <1>6

-----------------------------------------------------------------------------
(* The invariant: whoever is in the graph, or was, knows an initial part   *)
(* of its epochs, up to the one it left at.                                *)

\* The last epoch an account may know.
Lim(a) == IF a \in Members /\ a \notin InGraph /\ leftAt[a] # 0 THEN leftAt[a] ELSE Top(committed)

KnownInv ==
    /\ Chained(committed) /\ vault[Owner].keys # {}
    /\ \A a \in Accounts : Ring(committed, Lim(a), vault[a].keys) /\ Whole(committed, Lim(a), copies[a])
    /\ \A m \in Members : /\ Ring(committed, Lim(m), invites[m].keys)
                          /\ invites[m] = NoCopy \/ invites[m].keys # {}

CallsSound ==
    \A p \in Processes : Sound(committed, vault[Account(p)].keys, Lim(Account(p)), p, call[p])

Standing ==
    /\ membership[Owner] = "active"
    /\ \A m \in Members :
           /\ leftAt[m] <= Top(committed)
           /\ m \in InGraph => leftAt[m] = 0
           /\ m \notin InGraph => invites[m] = NoCopy /\ (leftAt[m] # 0 => due \/ leftAt[m] < Top(committed))

EpochInv == KnownInv /\ CallsSound /\ Standing /\ NoEpochLost

\* What a step does to the graph.
EpochsGrow ==
    /\ Chained(committed') /\ Longer(committed, committed')
    /\ \A a \in Accounts : Lim(a) <= Lim(a)' /\ Lim(a)' \in 0 .. Top(committed')

LEMMA LimIs ==
  ASSUME RotationInv, Chained(committed), Standing
  PROVE  \A a \in Accounts : Lim(a) \in 0 .. Top(committed)
<1>1. Top(committed) \in Nat /\ leftAt \in [Members -> Nat]
  BY TopIsNat, InvParts DEF ServerType
<1> QED
  BY <1>1 DEF Lim, Standing

LEMMA SameServer ==
  ASSUME RotationInv, EpochInv, UNCHANGED <<committed, membership, leftAt>>
  PROVE  EpochsGrow /\ \A a \in Accounts : Lim(a)' = Lim(a)
<1>1. Top(committed) \in Nat /\ \A a \in Accounts : Lim(a) \in 0 .. Top(committed)
  BY LimIs, TopIsNat DEF EpochInv, KnownInv
<1>2. \A a \in Accounts : Lim(a)' = Lim(a)
  BY DEF Lim, InGraph
<1>3. Chained(committed') /\ Longer(committed, committed')
  BY <1>1 DEF EpochInv, KnownInv, Longer
<1>4. \A a \in Accounts : Lim(a) <= Lim(a)' /\ Lim(a)' \in 0 .. Top(committed')
  BY <1>1, <1>2
<1> QED
  BY <1>2, <1>3, <1>4 DEF EpochsGrow

LEMMA SoundNext ==
  ASSUME RotationInv, EpochInv, VaultsGrow, EpochsGrow, NEW p \in Processes
  PROVE  Sound(committed', vault'[Account(p)].keys, Lim(Account(p))', p, call[p])
<1> DEFINE own == Account(p)
<1>1. own \in Accounts /\ call[p] \in Calls /\ Chained(committed)
  BY AccountOf, InvParts DEF CallType, EpochInv, KnownInv
<1>2. Lim(own) \in 0 .. Top(committed) /\ Lim(own) <= Lim(own)' /\ Lim(own)' \in 0 .. Top(committed')
  BY <1>1, LimIs DEF EpochInv, EpochsGrow
<1>3. vault[own].keys \subseteq vault'[own].keys
  BY <1>1 DEF VaultsGrow
<1>4. Sound(committed, vault[own].keys, Lim(own), p, call[p])
  BY DEF EpochInv, CallsSound
<1>5. Chained(committed') /\ Longer(committed, committed')
  BY DEF EpochsGrow
<1> HIDE DEF own
<1>6. Sound(committed', vault'[own].keys, Lim(own)', p, call[p])
  BY <1>1, <1>2, <1>3, <1>4, <1>5, SoundStays
<1> QED
  BY <1>6 DEF own

LEMMA CallsGoOn ==
  ASSUME RotationInv, EpochInv, VaultsGrow, EpochsGrow, NEW p \in Processes, NEW d,
         Sound(committed', vault'[Account(p)].keys, Lim(Account(p))', p, d),
         call' = [call EXCEPT ![p] = d]
  PROVE  CallsSound'
<1>1. call \in [Processes -> Calls]
  BY InvParts DEF CallType
<1>2. ASSUME NEW q \in Processes
      PROVE  Sound(committed', vault'[Account(q)].keys, Lim(Account(q))', q, call'[q])
  <2>1. CASE q = p
    BY <1>1, <2>1
  <2>2. CASE q # p
    <3>1. call'[q] = call[q]
      BY <1>1, <2>2
    <3> QED
      BY <3>1, SoundNext
  <2> QED
    BY <2>1, <2>2
<1> QED
  BY <1>2 DEF CallsSound

LEMMA AnswersGoOn ==
  ASSUME RotationInv, EpochInv, VaultsGrow, EpochsGrow, NEW p \in Processes, NEW d,
         Sound(committed', vault'[Account(p)].keys, Lim(Account(p))', p, d),
         \/ Answered(p, d)
         \/ Goes(p, Throws(call[p])) \/ Goes(p, Idle)
  PROVE  CallsSound'
<1>1. Account(p) \in Accounts /\ call[p] \in Calls
  BY AccountOf, InvParts DEF CallType
<1>2. Lim(Account(p))' \in Nat /\ Chained(committed')
  BY <1>1 DEF EpochsGrow
<1>3. Sound(committed', vault'[Account(p)].keys, Lim(Account(p))', p, call[p])
  BY SoundNext
<1>4. /\ Sound(committed', vault'[Account(p)].keys, Lim(Account(p))', p, Throws(call[p]))
      /\ Sound(committed', vault'[Account(p)].keys, Lim(Account(p))', p, Idle)
  BY <1>1, <1>2, <1>3, SoundCollected, SoundIdle
<1>5. \E e \in {d, Throws(call[p]), Idle} : call' = [call EXCEPT ![p] = e]
  BY DEF Answered, Goes
<1> QED
  BY <1>4, <1>5, CallsGoOn

LEMMA CallsStay ==
  ASSUME RotationInv, EpochInv, VaultsGrow, EpochsGrow, UNCHANGED call
  PROVE  CallsSound'
BY SoundNext DEF CallsSound

\* Whatever an account can reach is of the graph.
LEMMA ReachNext ==
  ASSUME KnownInv', NEW a \in Accounts, Lim(a)' \in 0 .. Top(committed')
  PROVE  Reach(a)' \subseteq committed'
<1>1. Chained(committed') /\ Ring(committed', Lim(a)', vault'[a].keys) /\ Whole(committed', Lim(a)', copies'[a])
  BY DEF KnownInv
<1>2. a \in Members => Ring(committed', Lim(a)', invites'[a].keys)
  BY DEF KnownInv
<1>3. Ring(committed', Lim(a)', copies'[a].keys)
  BY <1>1 DEF Whole, Ring
<1>4. /\ vault'[a].keys \subseteq committed' /\ copies'[a].keys \subseteq committed'
      /\ a \in Members => invites'[a].keys \subseteq committed'
  BY <1>1, <1>2, <1>3, RingIn
<1> QED
  BY <1>4 DEF Reach

\* No epoch of those in the graph before is lost, if what each reaches stays.
LEMMA NothingLost ==
  ASSUME RotationInv, EpochInv, KnownInv', EpochsGrow, UNCHANGED committed,
         \A a \in InGraph' \ missed' : a \in Accounts /\ (committed \subseteq Reach(a)' \/
                                       (a \in InGraph \ missed /\ Reach(a) \subseteq Reach(a)'))
  PROVE  NoEpochLost'
<1> SUFFICES ASSUME NEW a \in InGraph' \ missed' PROVE Reach(a)' = committed'
  BY DEF NoEpochLost
<1>1. a \in Accounts /\ committed \subseteq Reach(a)'
  BY DEF EpochInv, NoEpochLost
<1>2. Reach(a)' \subseteq committed'
  BY <1>1, ReachNext DEF EpochsGrow
<1> QED
  BY <1>1, <1>2

\* Steps that touch nothing but calls and the count of troubles and changes.
LEMMA CallsOnly ==
  ASSUME RotationInv, EpochInv,
         UNCHANGED server \/ UNCHANGED <<committed, due, membership, copies, invites, leftAt, missed>>,
         UNCHANGED vault, CallsSound'
  PROVE  EpochInv'
<1>1. EpochsGrow /\ \A a \in Accounts : Lim(a)' = Lim(a)
  BY SameServer DEF server
<1>2. UNCHANGED <<committed, due, membership, copies, invites, leftAt, missed, vault>>
  BY DEF server
<1>3. \A m \in Members : m \in Accounts
  BY DEF Accounts
<1>4. KnownInv'
  BY <1>1, <1>2, <1>3 DEF EpochInv, KnownInv
<1>5. Standing'
  BY <1>2 DEF EpochInv, Standing, InGraph
<1>6. NoEpochLost'
  BY <1>2 DEF EpochInv, NoEpochLost, InGraph, Reach, Identity
<1> QED
  BY <1>4, <1>5, <1>6 DEF EpochInv

-----------------------------------------------------------------------------
(* The steps.                                                              *)

LEMMA SoundBegun ==
  ASSUME RotationInv, EpochInv, NEW p \in Processes, NEW d,
         d.copy = NoCopy, d.step \in {"list", "read", "allocate"}, d.then # "done",
         d.step = "allocate" => d.then = "no",
         d.epoch = 0, d.previous = 0, d.from <= Top(committed),
         Ring(committed, Lim(Account(p)), d.keys),
         d.kind \in {"rotate", "invite"} => p \in Devices,
         d.kind = "accept" => d.keys # {}
  PROVE  Sound(committed, vault[Account(p)].keys, Lim(Account(p)), p, d)
<1>1. Lim(Account(p)) \in Nat /\ Chained(committed)
  BY AccountOf, LimIs DEF EpochInv, KnownInv
<1>2. Whole(committed, Lim(Account(p)), d.copy)
  BY <1>1, NoRing
<1> QED
  BY <1>2 DEF Sound

LEMMA StartRings ==
  ASSUME RotationInv, EpochInv, NEW p \in Processes,
         \/ StartCollect(p) \/ StartRotate(p) \/ StartReplace(p)
         \/ \E a \in Accounts : StartVerify(p, a)
         \/ \E m \in Members : StartInvite(p, m)
         \/ p \in Members /\ StartAccept(p)
  PROVE  EpochInv'
<1> DEFINE own == Account(p)
           Begun(d) == /\ d.copy = NoCopy /\ d.step \in {"list", "read", "allocate"} /\ d.then # "done"
                       /\ d.step = "allocate" => d.then = "no"
                       /\ d.epoch = 0 /\ d.previous = 0 /\ d.from <= Top(committed)
                       /\ Ring(committed, Lim(own), d.keys)
                       /\ d.kind \in {"rotate", "invite"} => p \in Devices
                       /\ d.kind = "accept" => d.keys # {}
<1>1. Top(committed) \in Nat /\ Ring(committed, Lim(own), {}) /\ Current = Top(committed)
  BY AccountOf, LimIs, TopIsNat, NoRing DEF EpochInv, KnownInv, Current, Top
<1>2. \E d : Begun(d) /\ call' = [call EXCEPT ![p] = d]
  <2>1. ASSUME NEW k \in {"collect", "replace"}, NEW t \in {"end", "replace"},
               Begins(p, Collects([Idle EXCEPT !.kind = k], t))
        PROVE  \E d : Begun(d) /\ call' = [call EXCEPT ![p] = d]
    <3> DEFINE d == [Collects([Idle EXCEPT !.kind = k], t) EXCEPT !.key = vault[own].identity]
    <3>1. Begun(d)
      BY <1>1 DEF Collects, Idle
    <3> QED
      BY <2>1, <3>1 DEF Begins, Goes
  <2>2. ASSUME NEW k \in {"verify", "invite"}, NEW a, k = "invite" => p \in Devices,
               Begins(p, Reads([Idle EXCEPT !.kind = k, !.presented[a] = Identity[a]]))
        PROVE  \E d : Begun(d) /\ call' = [call EXCEPT ![p] = d]
    <3> DEFINE d == [Reads([Idle EXCEPT !.kind = k, !.presented[a] = Identity[a]])
                        EXCEPT !.key = vault[own].identity]
    <3>1. Begun(d)
      BY <1>1, <2>2 DEF Reads, Idle
    <3> QED
      BY <2>2, <3>1 DEF Begins, Goes
  <2>3. CASE StartRotate(p)
    <3> DEFINE d == [[Idle EXCEPT !.kind = "rotate", !.step = "allocate", !.attempt = 1, !.from = Current]
                        EXCEPT !.key = vault[own].identity]
    <3>1. Begun(d)
      BY <1>1, <2>3 DEF StartRotate, Idle
    <3> QED
      BY <2>3, <3>1 DEF StartRotate, Begins, Goes
  <2>4. CASE p \in Members /\ StartAccept(p)
    <3> DEFINE d == [Reads([Idle EXCEPT !.kind = "accept", !.keys = invites[p].keys,
                                        !.presented[Owner] = invites[p].by])
                        EXCEPT !.key = vault[own].identity]
    <3>1. own = p
      BY <2>4, EpochRotationAssumption DEF Account
    <3>2. Ring(committed, Lim(own), invites[p].keys) /\ invites[p].keys # {}
      BY <2>4, <3>1 DEF StartAccept, EpochInv, KnownInv
    <3> HIDE DEF own
    <3>3. Begun(d)
      BY <1>1, <3>2 DEF Reads, Idle
    <3> QED
      BY <2>4, <3>3 DEF StartAccept, Begins, Goes, own
  <2> HIDE DEF Begun
  <2> QED
    BY <2>1, <2>2, <2>3, <2>4 DEF StartCollect, StartReplace, StartVerify, StartInvite
<1>3. UNCHANGED server /\ UNCHANGED vault
  BY DEF StartCollect, StartRotate, StartReplace, StartVerify, StartInvite, StartAccept, Begins
<1>4. EpochsGrow /\ VaultsGrow /\ Lim(own)' = Lim(own)
  BY <1>3, SameServer, AccountOf DEF server, VaultsGrow
<1>5. PICK d : Begun(d) /\ call' = [call EXCEPT ![p] = d]
  BY <1>2
<1>6. Sound(committed, vault[own].keys, Lim(own), p, d)
  BY <1>5, SoundBegun
<1>7. Sound(committed', vault'[own].keys, Lim(own)', p, d)
  BY <1>3, <1>4, <1>6 DEF server
<1>8. CallsSound'
  BY <1>4, <1>5, <1>7, CallsGoOn
<1> QED
  BY <1>3, <1>8, CallsOnly

\* A step of a call that changes neither the server nor a vault.
LEMMA QuietStep ==
  ASSUME RotationInv, EpochInv, NEW p \in Processes, NEW d,
         UNCHANGED server \/ UNCHANGED <<committed, due, membership, copies, invites, leftAt, missed>>,
         UNCHANGED vault,
         Sound(committed, vault[Account(p)].keys, Lim(Account(p)), p, d),
         Answered(p, d) \/ Goes(p, Throws(call[p])) \/ Goes(p, Idle)
  PROVE  EpochInv'
<1>1. EpochsGrow /\ VaultsGrow /\ Lim(Account(p))' = Lim(Account(p))
  BY SameServer, AccountOf DEF server, VaultsGrow
<1>2. Sound(committed', vault'[Account(p)].keys, Lim(Account(p))', p, d)
  BY <1>1 DEF server
<1>3. CallsSound'
  BY <1>1, <1>2, AnswersGoOn
<1> QED
  BY <1>3, CallsOnly

LEMMA QuietRings ==
  ASSUME RotationInv, EpochInv, NEW p \in Processes,
         ListCopies(p) \/ OpenVault(p) \/ Trouble(p) \/ ReadVault(p) \/ Allocate(p)
  PROVE  EpochInv'
<1> DEFINE own == Account(p)
           c == call[p]
           lim == Lim(own)
           held == vault[own].keys
<1>1. /\ own \in Accounts /\ c \in Calls /\ Chained(committed) /\ Top(committed) \in Nat
      /\ lim \in 0 .. Top(committed) /\ Sound(committed, held, lim, p, c)
      /\ vault[own] \in Vaults /\ Ring(committed, lim, held) /\ Whole(committed, lim, copies[own])
      /\ Whole(committed, lim, NoCopy)
  BY AccountOf, LimIs, TopIsNat, NoRing, InvParts DEF CallType, VaultType, EpochInv, KnownInv, CallsSound
<1>2. lim \in Nat /\ Current = Top(committed)
  BY <1>1 DEF Current, Top
<1>3. CASE ListCopies(p)
  <2> DEFINE d == [c EXCEPT !.copy = IF own \in InGraph THEN copies[own] ELSE NoCopy,
                            !.presented = [NoOne EXCEPT ![Owner] = vault[Owner].identity]]
  <2>1. Answered(p, Reads(d)) /\ UNCHANGED <<server, vault>>
    BY <1>3 DEF ListCopies
  <2>2. /\ Reads(d).kind = c.kind /\ Reads(d).keys = c.keys /\ Reads(d).from = c.from
        /\ Reads(d).epoch = c.epoch /\ Reads(d).previous = c.previous /\ Reads(d).then = c.then
        /\ Reads(d).step = "read" /\ Reads(d).copy \in {copies[own], NoCopy}
    BY <1>1, SMT DEF Calls, Reads
  <2>3. c.step = "list"
    BY <1>3 DEF ListCopies
  <2> HIDE DEF c, d, lim, held, own
  <2>4. Sound(committed, held, lim, p, Reads(d))
    BY <1>1, <2>2, <2>3 DEF Sound
  <2> QED
    BY <2>1, <2>4, QuietStep DEF held, lim, own
<1>4. CASE OpenVault(p)
  <2> DEFINE d == [c EXCEPT !.step = "replace", !.read = vault[own]]
  <2>1. (Answered(p, Idle) \/ Answered(p, d)) /\ UNCHANGED <<server, vault>> /\ c.step = "open"
    BY <1>4 DEF OpenVault
  <2>2. Alike(c, d) /\ d.step = "replace"
    BY <1>1, SMT DEF Calls, Alike
  <2> HIDE DEF c, d, lim, held, own
  <2>3. Sound(committed, held, lim, p, d) /\ Sound(committed, held, lim, p, Idle)
    BY <1>1, <1>2, <2>1, <2>2, SoundMoves, SoundIdle
  <2> QED
    BY <2>1, <2>3, QuietStep DEF held, lim, own
<1>5. CASE Trouble(p)
  BY <1>1, <1>5, QuietStep DEF Trouble
<1>6. CASE ReadVault(p)
  <2> DEFINE v == ReadNow(c, vault[own])
             to == Change(v, own, c)
             d == [c EXCEPT !.step = "write", !.read = v]
  <2>0. v = vault[own]
    BY DEF ReadNow
  <2>1. /\ c.step = "read" /\ UNCHANGED <<server, vault>>
        /\ \/ Answered(p, Throws(c))
           \/ Answered(p, d)
           \/ Answered(p, Updated(p, c, v)) /\ to = v /\ (Collecting(c) \/ c.kind # "accept")
    BY <1>6 DEF ReadVault
  <2>2. Alike(c, d) /\ d.step = "write"
    BY <1>1, SMT DEF Calls, Alike
  <2>3. Collecting(c) /\ Folds(v, own, c) => c.copy.keys \subseteq to.keys
    BY <1>1, <2>0, <2>1, ChangeRings
  <2>4. p \in Devices => v.keys # {}
    BY <2>0 DEF Account, EpochInv, KnownInv
  <2> HIDE DEF c, d, v, to, lim
  <2>5. Sound(committed, held, lim, p, d) /\ Sound(committed, held, lim, p, Throws(c))
    BY <1>1, <1>2, <2>1, <2>2, SoundMoves, SoundCollected
  <2>6. ASSUME to = v, Collecting(c) \/ c.kind # "accept"
        PROVE  Sound(committed, held, lim, p, Updated(p, c, v))
    <3>1. Collecting(c) /\ Folds(v, own, c) => c.copy.keys \subseteq held
      BY <2>0, <2>3, <2>6
    <3>2. v \in Vaults /\ Ring(committed, lim, v.keys)
      BY <1>1, <2>0
    <3> QED
      BY <1>1, <2>1, <2>4, <2>6, <3>1, <3>2, SoundUpdated
  <2> QED
    BY <2>1, <2>5, <2>6, QuietStep DEF lim, c
<1>7. CASE Allocate(p)
  <2> DEFINE epoch == Current + 1
             e == [c EXCEPT !.epoch = epoch - 1]
             d == [c EXCEPT !.epoch = epoch, !.presented =
                       [a \in Accounts |-> IF a \in InGraph THEN Identity[a] ELSE 0]]
  <2>1. /\ c.step = "allocate" /\ UNCHANGED vault
        /\ UNCHANGED <<committed, due, membership, copies, invites, leftAt, missed>>
        /\ \/ Answered(p, Collects(e, "done")) /\ Superseded(c, epoch)
           \/ Answered(p, Reads(d))
    BY <1>7 DEF Allocate
  <2>2. /\ Collects(e, "done").kind = c.kind /\ Collects(e, "done").keys = c.keys
        /\ Collects(e, "done").from = c.from /\ Collects(e, "done").epoch = epoch - 1
        /\ Collects(e, "done").previous = c.previous /\ Collects(e, "done").copy = c.copy
        /\ Collects(e, "done").step = "list" /\ Collects(e, "done").then = "done"
    BY <1>1, SMT DEF Calls, Collects
  <2>3. /\ Reads(d).kind = c.kind /\ Reads(d).keys = c.keys /\ Reads(d).from = c.from
        /\ Reads(d).epoch = epoch /\ Reads(d).previous = c.previous /\ Reads(d).copy = c.copy
        /\ Reads(d).step = "read" /\ Reads(d).then = c.then
    BY <1>1, SMT DEF Calls, Reads
  <2>4. c.from \in Nat /\ c.previous \in Nat /\ c.from <= Top(committed)
    BY <1>1, FieldsOf DEF Sound
  <2>7. c.then # "done"
    BY <1>1, <2>1 DEF Sound
  <2> HIDE DEF c, d, e, lim, held, own
  <2>5. Sound(committed, held, lim, p, Reads(d))
    <3>1. c.from < epoch
      BY <1>1, <1>2, <2>4
    <3> HIDE DEF epoch
    <3> QED
      BY <1>1, <2>1, <2>3, <2>7, <3>1 DEF Sound
  <2>6. ASSUME Superseded(c, epoch) PROVE Sound(committed, held, lim, p, Collects(e, "done"))
    <3>1. c.from < c.previous /\ c.previous < epoch
      BY <1>1, <2>6 DEF Sound, Superseded
    <3>2. epoch - 1 \in c.from + 1 .. Top(committed) /\ c.from < epoch - 1
      BY <1>1, <1>2, <2>4, <3>1
    <3> HIDE DEF epoch
    <3> QED
      BY <1>1, <2>1, <2>2, <3>2 DEF Sound
  <2> QED
    BY <2>1, <2>5, <2>6, QuietStep DEF held, lim, own
<1> QED
  BY <1>3, <1>4, <1>5, <1>6, <1>7

LEMMA VersionAside ==
  ASSUME NEW w \in Vaults, NEW own, NEW c, NEW n
  PROVE  LET to == [w EXCEPT !.version = n] IN
         /\ to.keys = w.keys /\ to.identity = w.identity /\ to.pins = w.pins
         /\ Folds(to, own, c) <=> Folds(w, own, c)
<1> DEFINE to == [w EXCEPT !.version = n]
<1>1. to.keys = w.keys /\ to.identity = w.identity /\ to.pins = w.pins
  BY SMT DEF Vaults
<1> HIDE DEF to
<1>2. Folds(to, own, c) <=> Folds(w, own, c)
  BY <1>1 DEF Folds, ChecksOut, PinChanged
<1> QED
  BY <1>1, <1>2 DEF to

\* A vault that gains what its account may know; nothing on the server changes.
LEMMA VaultRings ==
  ASSUME RotationInv, EpochInv, VaultsGrow, VaultType', UNCHANGED server,
         \A a \in Accounts : vault'[a].identity = vault[a].identity /\ Ring(committed, Lim(a), vault'[a].keys),
         CallsSound'
  PROVE  EpochInv'
<1>1. EpochsGrow /\ \A a \in Accounts : Lim(a)' = Lim(a)
  BY SameServer DEF server
<1>2. UNCHANGED <<committed, due, membership, copies, invites, leftAt, missed>>
  BY DEF server
<1>3. Owner \in Accounts /\ \A m \in Members : m \in Accounts
  BY DEF Accounts
<1>4. \A a \in Accounts : vault[a].keys \subseteq vault'[a].keys
  BY DEF VaultsGrow
<1>5. KnownInv'
  <2>1. vault'[Owner].keys # {}
    BY <1>3, <1>4 DEF EpochInv, KnownInv
  <2> QED
    BY <1>1, <1>2, <1>3, <2>1 DEF EpochInv, KnownInv
<1>6. Standing'
  BY <1>2 DEF EpochInv, Standing, InGraph
<1>7. NoEpochLost'
  <2>1. ASSUME NEW a \in Accounts PROVE Reach(a) \subseteq Reach(a)'
    <3>1. vault'[Owner].identity = vault[Owner].identity /\ vault'[a].identity = vault[a].identity
      BY <1>3
    <3> QED
      BY <1>2, <1>3, <1>4, <3>1 DEF Reach, ChecksOut, Identity
  <2>2. \A a \in InGraph' : a \in Accounts /\ a \in InGraph
    BY <1>2 DEF InGraph
  <2> QED
    BY <1>1, <1>2, <1>5, <2>1, <2>2, NothingLost
<1> QED
  BY <1>5, <1>6, <1>7 DEF EpochInv

LEMMA WriteRings ==
  ASSUME RotationInv, EpochInv, NEW p \in Processes, WriteVault(p)
  PROVE  EpochInv'
<1> DEFINE own == Account(p)
           c == call[p]
           lim == Lim(own)
           held == vault[own].keys
           changed == Change(c.read, own, c)
           to == [changed EXCEPT !.version = @ + 1]
           done == [Updated(p, c, to) EXCEPT !.read = NoVault]
           again == [c EXCEPT !.step = "read", !.tries = @ + 1]
<1>1. /\ own \in Accounts /\ c \in Calls /\ Chained(committed)
      /\ lim \in 0 .. Top(committed) /\ Sound(committed, held, lim, p, c)
      /\ vault \in [Accounts -> Vaults] /\ vault[own] \in Vaults /\ Ring(committed, lim, held)
  BY AccountOf, LimIs, InvParts DEF CallType, VaultType, EpochInv, KnownInv, CallsSound
<1>2. lim \in Nat /\ c.step = "write" /\ UNCHANGED server
  BY <1>1 DEF WriteVault
<1>3. CASE vault[own].version = c.read.version
  <2>1. c.read = vault[own]
    BY <1>1, <1>2, <1>3, InvParts DEF CallType, Good, Writing, ReadIsTrue
  <2>2. vault' = [vault EXCEPT ![own] = to] /\ Answered(p, done)
    BY <1>3 DEF WriteVault
  <2>3. /\ changed \in Vaults /\ changed.identity = vault[own].identity
        /\ Ring(committed, lim, changed.keys)
        /\ Collecting(c) /\ Folds(c.read, own, c) => c.copy.keys \subseteq changed.keys
        /\ ~Collecting(c) /\ c.kind = "accept" => c.keys \subseteq changed.keys
    BY <1>1, <1>2, <2>1, ChangeRings, ChangeExtends DEF Extends
  <2>4. Collecting(c) /\ ~Folds(c.read, own, c) => changed = c.read
    BY DEF Change
  <2>5. VaultType' /\ VaultsGrow
    BY WriteVaultGrows
  <2> HIDE DEF changed, c
  <2>6. /\ to.keys = changed.keys /\ to.identity = changed.identity
        /\ Folds(to, own, c) <=> Folds(changed, own, c)
    BY <2>3, VersionAside
  <2>7. Collecting(c) /\ Folds(to, own, c) => c.copy.keys \subseteq to.keys
    BY <2>3, <2>4, <2>6
  <2>8. vault'[own] = to /\ \A a \in Accounts \ {own} : vault'[a] = vault[a]
    BY <1>1, <2>2
  <2> HIDE DEF to, lim, held
  <2>9. \A a \in Accounts : vault'[a].identity = vault[a].identity /\ Ring(committed, Lim(a), vault'[a].keys)
    <3>1. vault'[own].identity = vault[own].identity /\ Ring(committed, lim, vault'[own].keys)
      BY <2>3, <2>6, <2>8
    <3> QED
      BY <2>8, <3>1 DEF EpochInv, KnownInv, lim
  <2>10. EpochsGrow /\ Lim(own)' = lim /\ committed' = committed
    BY <1>1, <1>2, SameServer DEF server, lim
  <2>11. to \in Vaults /\ (p \in Devices => to.keys # {}) /\ held \subseteq to.keys
    <3>1. to \in Vaults
      BY <1>1, <2>5, <2>8 DEF VaultType
    <3>2. held \subseteq to.keys
      BY <1>1, <2>5, <2>8 DEF VaultsGrow, held
    <3>3. p \in Devices => held # {}
      BY DEF held, Account, EpochInv, KnownInv
    <3> QED
      BY <3>1, <3>2, <3>3
  <2>12. Sound(committed, to.keys, lim, p, c)
    <3>1. Longer(committed, committed)
      BY <1>1, TopIsNat DEF Longer
    <3> QED
      BY <1>1, <1>2, <2>11, <3>1, SoundStays
  <2>13. Sound(committed, to.keys, lim, p, Updated(p, c, to))
    <3>1. Ring(committed, lim, to.keys) /\ (~Collecting(c) /\ c.kind = "accept" => c.keys \subseteq to.keys)
      BY <2>3, <2>6
    <3> QED
      BY <1>1, <1>2, <2>7, <2>11, <2>12, <3>1, SoundUpdated
  <2>14. Updated(p, c, to) \in Calls
    BY <1>1, <2>11, UpdatedAside DEF Aside
  <2>15. Sound(committed, to.keys, lim, p, done)
    <3> DEFINE x == Updated(p, c, to)
    <3>1. x \in Calls
      BY <2>14
    <3> HIDE DEF x
    <3>2. LET y == [x EXCEPT !.read = NoVault] IN
          /\ y.kind = x.kind /\ y.step = x.step /\ y.then = x.then /\ y.keys = x.keys /\ y.copy = x.copy
          /\ y.from = x.from /\ y.epoch = x.epoch /\ y.previous = x.previous
      BY <3>1, SMT DEF Calls
    <3>3. Sound(committed, to.keys, lim, p, x) => Sound(committed, to.keys, lim, p, [x EXCEPT !.read = NoVault])
      BY <3>2 DEF Sound
    <3> QED
      BY <2>13, <3>3 DEF x
  <2> HIDE DEF done
  <2>16. CallsSound'
    <3>1. Sound(committed', vault'[own].keys, Lim(own)', p, done)
      BY <2>8, <2>10, <2>15
    <3> QED
      BY <2>2, <2>5, <2>10, <3>1, AnswersGoOn
  <2> QED
    BY <1>2, <2>5, <2>9, <2>16, VaultRings
<1>4. CASE vault[own].version # c.read.version
  <2>1. UNCHANGED vault /\ (Answered(p, again) \/ Answered(p, Throws(c)))
    BY <1>4 DEF WriteVault
  <2>2. Alike(c, again) /\ again.step = "read"
    BY <1>1, SMT DEF Calls, Alike
  <2> HIDE DEF c, again, lim, held, own
  <2>3. Sound(committed, held, lim, p, again) /\ Sound(committed, held, lim, p, Throws(c))
    BY <1>1, <1>2, <2>2, SoundMoves, SoundCollected
  <2> QED
    BY <1>2, <2>1, <2>3, QuietStep DEF lim, held, own
<1> QED
  BY <1>3, <1>4

\* Steps that leave the graph's epochs as they are: each account's reach is seen to apart.
LEMMA AcknowledgeRings ==
  ASSUME RotationInv, EpochInv, NEW p \in Processes, Acknowledge(p)
  PROVE  EpochInv'
<1> DEFINE own == Account(p)
           c == call[p]
<1>1. /\ own \in Accounts /\ c \in Calls /\ Chained(committed) /\ Lim(own) \in Nat
      /\ Sound(committed, vault[own].keys, Lim(own), p, c) /\ copies \in [Accounts -> Copies]
  BY AccountOf, LimIs, InvParts DEF CallType, ServerType, EpochInv, KnownInv, CallsSound
<1>2. /\ c.step = "ack" /\ Answered(p, Collected(c))
      /\ UNCHANGED <<committed, lease, due, membership, invites, leftAt, missed, vault, changes>>
      /\ copies' = IF copies[own].epoch = c.copy.epoch THEN [copies EXCEPT ![own] = NoCopy] ELSE copies
  BY DEF Acknowledge
<1>3. EpochsGrow /\ VaultsGrow /\ \A a \in Accounts : Lim(a)' = Lim(a)
  BY <1>2, SameServer DEF VaultsGrow
<1>4. c.copy.keys \subseteq vault[own].keys
  BY <1>1, <1>2 DEF Sound
<1>5. CallsSound'
  <2>1. Sound(committed, vault[own].keys, Lim(own), p, Collected(c))
    BY <1>1, SoundCollected
  <2> QED
    BY <1>1, <1>2, <1>3, <2>1, AnswersGoOn
<1> HIDE DEF c, own
<1>6. KnownInv'
  <2>1. \A a \in Accounts : Whole(committed, Lim(a), NoCopy)
    BY <1>1, NoRing, LimIs DEF EpochInv
  <2>2. \A a \in Accounts : copies'[a] \in {copies[a], NoCopy}
    BY <1>1, <1>2
  <2>3. \A m \in Members : m \in Accounts
    BY DEF Accounts
  <2>4. \A a \in Accounts : Whole(committed', Lim(a)', copies'[a])
    BY <1>2, <1>3, <2>1, <2>2 DEF EpochInv, KnownInv
  <2> QED
    BY <1>2, <1>3, <2>3, <2>4 DEF EpochInv, KnownInv
<1>7. Standing'
  BY <1>2 DEF EpochInv, Standing, InGraph
<1>8. NoEpochLost'
  <2>1. ASSUME NEW a \in Accounts PROVE Reach(a) \subseteq Reach(a)'
    <3>1. UNCHANGED <<vault, invites>> /\ Identity' = Identity
      BY <1>2 DEF Identity
    <3>2. CASE copies'[a] = copies[a]
      BY <3>1, <3>2 DEF Reach
    <3>3. CASE copies'[a] # copies[a]
      <4>1. a = own /\ copies[a].epoch = c.copy.epoch
        BY <1>1, <1>2, <3>3
      <4>2. copies[a].keys = c.copy.keys
        BY <1>1, <4>1 DEF Sound, Whole, EpochInv, KnownInv
      <4>3. copies[a].keys \subseteq vault[a].keys
        BY <1>4, <4>1, <4>2
      <4> QED
        BY <3>1, <4>3 DEF Reach
    <3> QED
      BY <3>2, <3>3
  <2>2. \A a \in InGraph' : a \in Accounts /\ a \in InGraph
    BY <1>2 DEF InGraph
  <2>3. UNCHANGED <<committed, missed>>
    BY <1>2
  <2> QED
    BY <1>3, <1>6, <2>1, <2>2, <2>3, NothingLost
<1> QED
  BY <1>5, <1>6, <1>7, <1>8 DEF EpochInv

LEMMA RequestRings ==
  ASSUME RotationInv, EpochInv, RequestRotation
  PROVE  EpochInv'
<1>1. UNCHANGED <<committed, lease, membership, copies, invites, leftAt, missed, vault, call, troubles>> /\ due' = TRUE
  BY DEF RequestRotation
<1>2. EpochsGrow /\ VaultsGrow /\ \A a \in Accounts : Lim(a)' = Lim(a)
  BY <1>1, SameServer DEF VaultsGrow
<1>3. \A m \in Members : m \in Accounts
  BY DEF Accounts
<1>4. KnownInv'
  BY <1>1, <1>2, <1>3 DEF EpochInv, KnownInv
<1>5. Standing'
  BY <1>1 DEF EpochInv, Standing, InGraph
<1>6. NoEpochLost'
  BY <1>1 DEF EpochInv, NoEpochLost, InGraph, Reach, Identity
<1>7. CallsSound'
  BY <1>1, <1>2, CallsStay
<1> QED
  BY <1>4, <1>5, <1>6, <1>7 DEF EpochInv

LEMMA RemoveRings ==
  ASSUME RotationInv, EpochInv, NEW m \in Members, RemoveMember(m)
  PROVE  EpochInv'
<1>1. /\ m \in InGraph /\ due' = TRUE /\ leftAt' = [leftAt EXCEPT ![m] = Current]
      /\ UNCHANGED <<committed, lease, missed, vault, call, troubles>>
      /\ membership' = [a \in Accounts |-> IF a \in {m} THEN "out" ELSE membership[a]]
      /\ copies' = [a \in Accounts |-> IF a \in {m} THEN NoCopy ELSE copies[a]]
      /\ invites' = [n \in Members |-> IF n \in {m} THEN NoCopy ELSE invites[n]]
  BY DEF RemoveMember, Leave
<1>2. /\ Chained(committed) /\ Top(committed) \in Nat /\ Current = Top(committed)
      /\ leftAt \in [Members -> Nat] /\ Owner \notin Members /\ Owner \in Accounts
      /\ \A n \in Members : n \in Accounts
  BY TopIsNat, InvParts, EpochRotationAssumption DEF ServerType, EpochInv, KnownInv, Current, Top, Accounts
<1>3. /\ \A a \in Accounts : (a \in InGraph' <=> a \in InGraph /\ a # m) /\ (a # m => membership'[a] = membership[a])
      /\ leftAt'[m] = Top(committed) /\ \A n \in Members \ {m} : leftAt'[n] = leftAt[n]
  BY <1>1, <1>2 DEF InGraph
<1>4. \A a \in Accounts : Lim(a)' = Lim(a)
  <2>1. Lim(m)' = Lim(m)
    BY <1>1, <1>2, <1>3 DEF Lim
  <2>2. ASSUME NEW a \in Accounts \ {m} PROVE Lim(a)' = Lim(a)
    BY <1>1, <1>3 DEF Lim
  <2> QED
    BY <2>1, <2>2
<1>5. EpochsGrow /\ VaultsGrow
  <2>1. \A a \in Accounts : Lim(a) \in 0 .. Top(committed)
    BY <1>2, LimIs DEF EpochInv
  <2>2. Longer(committed, committed')
    BY <1>1, <1>2 DEF Longer
  <2>3. \A a \in Accounts : Lim(a) <= Lim(a)' /\ Lim(a)' \in 0 .. Top(committed')
    BY <1>1, <1>2, <1>4, <2>1
  <2> QED
    BY <1>1, <1>2, <2>2, <2>3 DEF EpochsGrow, VaultsGrow
<1>6. CallsSound'
  BY <1>1, <1>5, CallsStay
<1>7. KnownInv'
  <2>1. \A a \in Accounts : Whole(committed, Lim(a), NoCopy) /\ Ring(committed, Lim(a), {})
    BY <1>2, NoRing, LimIs DEF EpochInv
  <2>2. \A a \in Accounts : Whole(committed', Lim(a)', copies'[a])
    BY <1>1, <1>4, <2>1 DEF EpochInv, KnownInv
  <2>3. \A n \in Members : /\ Ring(committed', Lim(n)', invites'[n].keys)
                           /\ invites'[n] = NoCopy \/ invites'[n].keys # {}
    <3>1. NoCopy.keys = {}
      BY DEF NoCopy
    <3> QED
      BY <1>1, <1>2, <1>4, <2>1, <3>1 DEF EpochInv, KnownInv
  <2> QED
    BY <1>1, <1>4, <2>2, <2>3 DEF EpochInv, KnownInv
<1>8. Standing'
  <2>1. membership'[Owner] = "active"
    BY <1>2, <1>3 DEF EpochInv, Standing
  <2>2. ASSUME NEW n \in Members
        PROVE  /\ leftAt'[n] <= Top(committed') /\ (n \in InGraph' => leftAt'[n] = 0)
               /\ n \notin InGraph' => invites'[n] = NoCopy /\ due'
    BY <1>1, <1>2, <1>3 DEF EpochInv, Standing
  <2> QED
    BY <2>1, <2>2 DEF Standing
<1>9. NoEpochLost'
  <2>1. ASSUME NEW a \in Accounts \ {m} PROVE Reach(a) \subseteq Reach(a)'
    <3>1. /\ UNCHANGED vault /\ copies'[a] = copies[a] /\ Identity' = Identity
          /\ a \in Members => invites'[a] = invites[a]
      BY <1>1 DEF Identity
    <3> QED
      BY <3>1 DEF Reach
  <2>2. \A a \in InGraph' : a \in Accounts /\ a # m /\ a \in InGraph
    BY <1>3 DEF InGraph
  <2> QED
    BY <1>1, <1>5, <1>7, <2>1, <2>2, NothingLost
<1> QED
  BY <1>6, <1>7, <1>8, <1>9 DEF EpochInv

\* What was known before the step may be known after it.
LEMMA RingsNext ==
  ASSUME RotationInv, EpochInv, EpochsGrow, NEW a \in Accounts
  PROVE  /\ \A keys : Ring(committed, Lim(a), keys) => Ring(committed', Lim(a)', keys)
         /\ \A c : Whole(committed, Lim(a), c) => Whole(committed', Lim(a)', c)
<1>1. Chained(committed) /\ Chained(committed') /\ Longer(committed, committed')
  BY DEF EpochInv, KnownInv, EpochsGrow
<1>2. Lim(a) \in 0 .. Top(committed) /\ Lim(a)' \in 0 .. Top(committed') /\ Lim(a) <= Lim(a)'
  BY <1>1, LimIs DEF EpochInv, EpochsGrow
<1> QED
  BY <1>1, <1>2, RingStays

LEMMA InviteRings ==
  ASSUME RotationInv, EpochInv, NEW p \in Processes, CreateInvite(p)
  PROVE  EpochInv'
<1> DEFINE own == Account(p)
           c == call[p]
<1>1. /\ own \in Accounts /\ Chained(committed) /\ Top(committed) \in Nat
      /\ Lim(own) \in 0 .. Top(committed) /\ Sound(committed, vault[own].keys, Lim(own), p, c)
      /\ invites \in [Members -> Copies] /\ leftAt \in [Members -> Nat]
      /\ membership \in [Accounts -> {"active", "invited", "out"}]
      /\ \A m \in Members : m \in Accounts /\ m # Owner
  BY AccountOf, LimIs, TopIsNat, InvParts, EpochRotationAssumption
     DEF ServerType, EpochInv, KnownInv, CallsSound, Accounts
<1>2. /\ c.step = "create" /\ Answered(p, Idle)
      /\ UNCHANGED <<committed, lease, due, copies, vault, changes>>
  BY DEF CreateInvite
<1>3. Sound(committed, vault[own].keys, Lim(own), p, Idle)
  BY <1>1, SoundIdle
<1>4. c.keys # {} /\ Ring(committed, Lim(own), c.keys)
  BY <1>1, <1>2 DEF Sound
<1>5. PICK m \in Members :
         IF membership[m] # "active" /\ c.presented[m] = Identity[m] /\ c.key = Identity[Owner]
         THEN /\ membership' = [membership EXCEPT ![m] = "invited"]
              /\ invites' = [invites EXCEPT ![m] =
                     [epoch |-> 0, keys |-> c.keys, to |-> c.presented[m], by |-> c.key]]
              /\ leftAt' = [leftAt EXCEPT ![m] = 0]
              /\ missed' = IF c.keys = committed THEN missed ELSE missed \cup {m}
         ELSE UNCHANGED <<membership, invites, leftAt, missed>>
  BY DEF CreateInvite
<1> HIDE DEF c
<1>6. CASE UNCHANGED <<membership, invites, leftAt, missed>>
  BY <1>2, <1>3, <1>6, QuietStep
<1>7. CASE /\ membership' = [membership EXCEPT ![m] = "invited"]
           /\ invites' = [invites EXCEPT ![m] =
                  [epoch |-> 0, keys |-> c.keys, to |-> c.presented[m], by |-> c.key]]
           /\ leftAt' = [leftAt EXCEPT ![m] = 0]
           /\ missed' = IF c.keys = committed THEN missed ELSE missed \cup {m}
  <2>1. /\ m \in InGraph' /\ leftAt'[m] = 0 /\ invites'[m].keys = c.keys
        /\ \A a \in Accounts \ {m} : (a \in InGraph' <=> a \in InGraph) /\ membership'[a] = membership[a]
        /\ \A n \in Members \ {m} : leftAt'[n] = leftAt[n] /\ invites'[n] = invites[n]
    BY <1>1, <1>7 DEF InGraph
  <2>2. Lim(m)' = Top(committed) /\ \A a \in Accounts \ {m} : Lim(a)' = Lim(a)
    <3>1. Lim(m)' = Top(committed)
      BY <1>2, <2>1 DEF Lim
    <3>2. ASSUME NEW a \in Accounts \ {m} PROVE Lim(a)' = Lim(a)
      BY <1>2, <2>1 DEF Lim
    <3> QED
      BY <3>1, <3>2
  <2>3. EpochsGrow /\ VaultsGrow
    <3>1. \A a \in Accounts : Lim(a) \in 0 .. Top(committed)
      BY <1>1, LimIs DEF EpochInv
    <3>2. Longer(committed, committed')
      BY <1>1, <1>2 DEF Longer
    <3>3. \A a \in Accounts : Lim(a) <= Lim(a)' /\ Lim(a)' \in 0 .. Top(committed')
      BY <1>1, <1>2, <2>2, <3>1
    <3> QED
      BY <1>1, <1>2, <3>2, <3>3 DEF EpochsGrow, VaultsGrow
  <2>4. CallsSound'
    <3>1. Sound(committed', vault'[own].keys, Lim(own)', p, Idle)
      BY <1>1, <2>3, SoundIdle DEF EpochsGrow
    <3> QED
      BY <1>2, <2>3, <3>1, AnswersGoOn
  <2>5. KnownInv'
    <3>1. \A a \in Accounts : Ring(committed', Lim(a)', vault'[a].keys) /\ Whole(committed', Lim(a)', copies'[a])
      BY <1>2, <2>3, RingsNext DEF EpochInv, KnownInv
    <3>2. ASSUME NEW n \in Members
          PROVE  /\ Ring(committed', Lim(n)', invites'[n].keys)
                 /\ invites'[n] = NoCopy \/ invites'[n].keys # {}
      <4>1. CASE n = m
        <5>1. Ring(committed, Top(committed), c.keys)
          BY <1>1, <1>4 DEF Ring
        <5> QED
          BY <1>2, <1>4, <2>1, <2>2, <4>1, <5>1
      <4>2. CASE n # m
        BY <1>1, <2>1, <2>3, <4>2, RingsNext DEF EpochInv, KnownInv
      <4> QED
        BY <4>1, <4>2
    <3> QED
      BY <1>2, <2>3, <3>1, <3>2 DEF EpochInv, KnownInv, EpochsGrow
  <2>6. Standing'
    <3>1. membership'[Owner] = "active"
      BY <1>1, <2>1 DEF EpochInv, Standing, Accounts
    <3>2. ASSUME NEW n \in Members
          PROVE  /\ leftAt'[n] <= Top(committed') /\ (n \in InGraph' => leftAt'[n] = 0)
                 /\ n \notin InGraph' => /\ invites'[n] = NoCopy
                                         /\ leftAt'[n] # 0 => due' \/ leftAt'[n] < Top(committed')
      BY <1>1, <1>2, <2>1 DEF EpochInv, Standing
    <3> QED
      BY <3>1, <3>2 DEF Standing
  <2>7. NoEpochLost'
    <3>1. ASSUME NEW a \in InGraph' \ missed'
          PROVE  /\ a \in Accounts
                 /\ committed \subseteq Reach(a)' \/ (a \in InGraph \ missed /\ Reach(a) \subseteq Reach(a)')
      <4>1. CASE a = m
        <5>1. invites'[m].keys = committed
          BY <1>7, <2>1, <3>1, <4>1
        <5> QED
          BY <1>1, <4>1, <5>1 DEF Reach
      <4>2. CASE a # m
        <5>1. a \in Accounts /\ a \in InGraph \ missed
          BY <1>7, <2>1, <3>1, <4>2 DEF InGraph
        <5>2. UNCHANGED <<vault, copies>> /\ (a \in Members => invites'[a] = invites[a]) /\ Identity' = Identity
          BY <1>2, <2>1, <4>2 DEF Identity
        <5> QED
          BY <5>1, <5>2 DEF Reach
      <4> QED
        BY <4>1, <4>2
    <3> QED
      BY <1>2, <2>3, <2>5, <3>1, NothingLost
  <2> QED
    BY <2>4, <2>5, <2>6, <2>7 DEF EpochInv
<1> QED
  BY <1>5, <1>6, <1>7

LEMMA ActivateRings ==
  ASSUME RotationInv, EpochInv, NEW p \in Members, Activate(p)
  PROVE  EpochInv'
<1> DEFINE c == call[p]
<1>1. /\ p \in Processes /\ Account(p) = p /\ p \in Accounts /\ p # Owner /\ Chained(committed)
      /\ Lim(p) \in Nat /\ Sound(committed, vault[p].keys, Lim(p), p, c)
      /\ invites \in [Members -> Copies] /\ membership \in [Accounts -> {"active", "invited", "out"}]
      /\ \A m \in Members : m \in Accounts
  <2>1. p \in Processes /\ Account(p) = p /\ p \in Accounts /\ p # Owner /\ \A m \in Members : m \in Accounts
    BY EpochRotationAssumption DEF Processes, Account, Accounts
  <2> QED
    BY <2>1, LimIs, InvParts DEF ServerType, EpochInv, KnownInv, CallsSound
<1>2. /\ c.step = "activate" /\ Answered(p, Idle)
      /\ UNCHANGED <<committed, lease, due, copies, leftAt, missed, vault, changes>>
      /\ IF invites[p].keys = c.keys
         THEN /\ membership' = [membership EXCEPT ![p] = "active"]
              /\ invites' = [invites EXCEPT ![p] = NoCopy]
         ELSE UNCHANGED <<membership, invites>>
  BY DEF Activate
<1>3. c.keys # {} /\ c.keys \subseteq vault[p].keys
  BY <1>1, <1>2 DEF Sound
<1>4. Sound(committed, vault[p].keys, Lim(p), p, Idle)
  BY <1>1, SoundIdle
<1> HIDE DEF c
<1>5. CASE UNCHANGED <<membership, invites>>
  BY <1>1, <1>2, <1>4, <1>5, QuietStep
<1>6. CASE /\ invites[p].keys = c.keys
           /\ membership' = [membership EXCEPT ![p] = "active"]
           /\ invites' = [invites EXCEPT ![p] = NoCopy]
  <2>1. p \in InGraph
    BY <1>3, <1>6 DEF EpochInv, Standing, NoCopy
  <2>2. InGraph' = InGraph /\ membership'[Owner] = membership[Owner]
    BY <1>1, <1>6, <2>1 DEF InGraph, Accounts
  <2>3. \A a \in Accounts : Lim(a)' = Lim(a)
    BY <1>2, <2>2 DEF Lim
  <2>4. EpochsGrow /\ VaultsGrow
    <3>1. \A a \in Accounts : Lim(a) \in 0 .. Top(committed)
      BY <1>1, LimIs DEF EpochInv
    <3>2. Longer(committed, committed') /\ Top(committed) \in Nat
      BY <1>1, <1>2, TopIsNat DEF Longer
    <3>3. \A a \in Accounts : Lim(a) <= Lim(a)' /\ Lim(a)' \in 0 .. Top(committed')
      BY <1>2, <2>3, <3>1, <3>2
    <3> QED
      BY <1>1, <1>2, <3>2, <3>3 DEF EpochsGrow, VaultsGrow
  <2>5. CallsSound'
    BY <1>1, <1>2, <1>4, <2>3, <2>4, AnswersGoOn
  <2>6. KnownInv'
    <3>1. NoCopy.keys = {} /\ Ring(committed, Lim(p), {})
      BY <1>1, NoRing DEF NoCopy
    <3>2. \A n \in Members : /\ Ring(committed', Lim(n)', invites'[n].keys)
                             /\ invites'[n] = NoCopy \/ invites'[n].keys # {}
      BY <1>1, <1>2, <1>6, <2>3, <3>1 DEF EpochInv, KnownInv
    <3> QED
      BY <1>2, <2>3, <3>2 DEF EpochInv, KnownInv
  <2>7. Standing'
    BY <1>1, <1>2, <1>6, <2>2 DEF EpochInv, Standing
  <2>8. NoEpochLost'
    <3>1. ASSUME NEW a \in Accounts PROVE Reach(a) \subseteq Reach(a)'
      <4>1. UNCHANGED <<vault, copies>> /\ Identity' = Identity
        BY <1>2 DEF Identity
      <4>2. CASE a = p
        <5>1. invites[a].keys \subseteq vault[a].keys
          BY <1>3, <1>6, <4>2
        <5> QED
          BY <4>1, <5>1 DEF Reach
      <4>3. CASE a # p
        <5>1. a \in Members => invites'[a] = invites[a]
          BY <1>1, <1>6, <4>3
        <5> QED
          BY <4>1, <5>1 DEF Reach
      <4> QED
        BY <4>2, <4>3
    <3>2. \A a \in InGraph' \ missed' : a \in Accounts /\ a \in InGraph \ missed
      BY <1>2, <2>2 DEF InGraph
    <3> QED
      BY <1>2, <2>4, <2>6, <3>1, <3>2, NothingLost
  <2> QED
    BY <2>5, <2>6, <2>7, <2>8 DEF EpochInv
<1> QED
  BY <1>2, <1>5, <1>6

\* New keys lose no epoch the vault holds. What else an account loses by it is missed from then on.
LEMMA ReplaceRings ==
  ASSUME RotationInv, EpochInv, NEW p \in Processes, ReplaceKeys(p)
  PROVE  EpochInv'
<1> DEFINE own == Account(p)
           c == call[p]
           gone == {m \in Members : membership[m] = "invited" /\ (own = Owner \/ m = own)}
           again == [c EXCEPT !.step = "open", !.attempt = @ + 1]
<1>1. /\ own \in Accounts /\ c \in Calls /\ Chained(committed) /\ Top(committed) \in Nat
      /\ Lim(own) \in Nat /\ Sound(committed, vault[own].keys, Lim(own), p, c)
      /\ vault \in [Accounts -> Vaults] /\ leftAt \in [Members -> Nat]
      /\ Owner \in Accounts /\ Owner \notin Members /\ \A m \in Members : m \in Accounts
  BY AccountOf, LimIs, TopIsNat, InvParts, EpochRotationAssumption
     DEF CallType, VaultType, ServerType, EpochInv, KnownInv, CallsSound, Accounts
<1>2. c.step = "replace" /\ UNCHANGED <<committed, lease, changes>>
  BY DEF ReplaceKeys
<1>3. Sound(committed, vault[own].keys, Lim(own), p, Idle)
  BY <1>1, SoundIdle
<1>4. CASE vault[own].version # c.read.version
  <2>1. /\ UNCHANGED <<vault, membership, invites, copies, due, leftAt, missed>>
        /\ Answered(p, again) \/ Answered(p, Idle)
    BY <1>4 DEF ReplaceKeys
  <2>2. Alike(c, again) /\ again.step = "open"
    BY <1>1, SMT DEF Calls, Alike
  <2> HIDE DEF c, again, own
  <2>3. Sound(committed, vault[own].keys, Lim(own), p, again)
    BY <1>1, <1>2, <2>2, SoundMoves
  <2> QED
    BY <1>2, <1>3, <2>1, <2>3, QuietStep DEF own
<1>5. CASE vault[own].version = c.read.version
  <2>1. /\ vault' = [vault EXCEPT ![own].version = @ + 1, ![own].identity = @ + 1]
        /\ membership' = [b \in Accounts |-> IF b \in gone THEN "out" ELSE membership[b]]
        /\ invites' = [m \in Members |-> IF m \in gone THEN NoCopy ELSE invites[m]]
        /\ copies' = [b \in Accounts |-> IF b \in gone \cup {own} THEN NoCopy ELSE copies[b]]
        /\ due' = (due \/ own = Owner)
        /\ leftAt' = [m \in Members |-> IF own = Owner /\ m \in gone THEN Current ELSE leftAt[m]]
        /\ Answered(p, Idle)
    BY <1>5 DEF ReplaceKeys
  <2>2. missed' = missed \cup {b \in Accounts : Reach(b)' # committed}
    BY <1>5 DEF ReplaceKeys
  <2>3. \A a \in Accounts : vault'[a].keys = vault[a].keys
    <3> DEFINE w == [vault[own] EXCEPT !.version = @ + 1]
               to == [w EXCEPT !.identity = @ + 1]
    <3>1. to.keys = vault[own].keys
      BY <1>1, SMT DEF Vaults
    <3>2. vault' = [vault EXCEPT ![own] = to]
      BY <1>1, <2>1
    <3> HIDE DEF to
    <3> QED
      BY <1>1, <3>1, <3>2
  <2>4. VaultsGrow
    BY ReplaceKeysGrows
  <2>5. /\ \A m \in gone : m \in Members /\ m \in InGraph /\ m # Owner
        /\ \A a \in Accounts : a \in InGraph' <=> a \in InGraph /\ a \notin gone
        /\ Current = Top(committed) /\ membership'[Owner] = membership[Owner]
    BY <1>1, <2>1 DEF InGraph, Current, Top
  <2> HIDE DEF gone, c, own
  <2>6. ASSUME NEW m \in Members
        PROVE  /\ leftAt'[m] <= Top(committed') /\ (m \in InGraph' => leftAt'[m] = 0)
               /\ m \notin InGraph' => /\ invites'[m] = NoCopy
                                       /\ leftAt'[m] # 0 => due' \/ leftAt'[m] < Top(committed')
    <3>1. /\ leftAt[m] <= Top(committed) /\ (m \in InGraph => leftAt[m] = 0)
          /\ m \notin InGraph => invites[m] = NoCopy /\ (leftAt[m] # 0 => due \/ leftAt[m] < Top(committed))
      BY DEF EpochInv, Standing
    <3>2. m \in Accounts /\ Top(committed') = Top(committed) /\ (m \in gone => m \in InGraph)
      BY <1>1, <1>2, <2>5
    <3>3. CASE m \in gone
      <4>1. leftAt'[m] = (IF own = Owner THEN Top(committed) ELSE 0) /\ invites'[m] = NoCopy /\ m \notin InGraph'
        BY <1>1, <2>1, <2>5, <3>1, <3>2, <3>3
      <4>2. CASE own = Owner
        <5>1. due' /\ leftAt'[m] = Top(committed)
          BY <2>1, <4>1, <4>2
        <5> QED
          BY <1>1, <3>2, <4>1, <5>1
      <4>3. CASE own # Owner
        <5>1. leftAt'[m] = 0
          BY <4>1, <4>3
        <5> QED
          BY <1>1, <3>2, <4>1, <5>1
      <4> QED
        BY <4>2, <4>3
    <3>4. CASE m \notin gone
      <4>1. leftAt'[m] = leftAt[m] /\ invites'[m] = invites[m] /\ (m \in InGraph' <=> m \in InGraph)
        BY <1>1, <2>1, <2>5, <3>4
      <4> QED
        BY <1>2, <2>1, <3>1, <4>1
    <3> QED
      BY <3>3, <3>4
  <2>7. Standing'
    <3>1. membership'[Owner] = "active"
      BY <2>5 DEF EpochInv, Standing
    <3> QED
      BY <2>6, <3>1 DEF Standing
  <2>8. \A a \in Accounts : Lim(a)' = Lim(a)
    <3>1. ASSUME NEW a \in Accounts, a \in gone PROVE Lim(a)' = Lim(a)
      <4>1. Lim(a) = Top(committed)
        BY <2>5, <3>1 DEF Lim
      <4>2. leftAt'[a] \in {0, Top(committed)}
        BY <1>1, <2>1, <2>5, <3>1 DEF EpochInv, Standing
      <4> QED
        BY <1>2, <4>1, <4>2 DEF Lim
    <3>2. ASSUME NEW a \in Accounts, a \notin gone PROVE Lim(a)' = Lim(a)
      <4>1. (a \in InGraph' <=> a \in InGraph) /\ (a \in Members => leftAt'[a] = leftAt[a])
        BY <2>1, <2>5, <3>2
      <4> QED
        BY <1>2, <4>1 DEF Lim
    <3> QED
      BY <3>1, <3>2
  <2>9. EpochsGrow
    <3>1. \A a \in Accounts : Lim(a) \in 0 .. Top(committed)
      BY <1>1, LimIs DEF EpochInv
    <3>2. Longer(committed, committed')
      BY <1>1, <1>2 DEF Longer
    <3>3. \A a \in Accounts : Lim(a) <= Lim(a)' /\ Lim(a)' \in 0 .. Top(committed')
      BY <1>1, <1>2, <2>8, <3>1
    <3> QED
      BY <1>1, <1>2, <3>2, <3>3 DEF EpochsGrow
  <2>10. CallsSound'
    <3>1. Sound(committed', vault'[own].keys, Lim(own)', p, Idle)
      BY <1>1, <1>2, <1>3, <2>3, <2>8
    <3> QED
      BY <2>1, <2>4, <2>9, <3>1, AnswersGoOn DEF own
  <2>11. KnownInv'
    <3>1. NoCopy.keys = {} /\ \A a \in Accounts : Whole(committed, Lim(a), NoCopy) /\ Ring(committed, Lim(a), {})
      BY <1>1, NoRing, LimIs DEF EpochInv, NoCopy
    <3>2. \A a \in Accounts : Ring(committed', Lim(a)', vault'[a].keys) /\ Whole(committed', Lim(a)', copies'[a])
      BY <1>2, <2>1, <2>3, <2>8, <3>1 DEF EpochInv, KnownInv
    <3>3. \A m \in Members : /\ Ring(committed', Lim(m)', invites'[m].keys)
                             /\ invites'[m] = NoCopy \/ invites'[m].keys # {}
      BY <1>1, <1>2, <2>1, <2>8, <3>1 DEF EpochInv, KnownInv
    <3>4. vault'[Owner].keys # {}
      BY <1>1, <2>3 DEF EpochInv, KnownInv
    <3> QED
      BY <1>1, <1>2, <3>2, <3>3, <3>4 DEF KnownInv
  <2>12. NoEpochLost'
    <3>1. \A a \in InGraph' : a \in Accounts
      BY DEF InGraph
    <3> QED
      BY <1>2, <2>2, <3>1 DEF NoEpochLost
  <2> QED
    BY <2>7, <2>10, <2>11, <2>12 DEF EpochInv
<1> QED
  BY <1>4, <1>5

\* An epoch is made on top of all the ones before it, and everyone in the graph has its copy.
LEMMA CommitRings ==
  ASSUME RotationInv, EpochInv, NEW p \in Processes, Commit(p)
  PROVE  EpochInv'
<1> DEFINE c == call[p]
           h == committed \cup {<<c.epoch, p>>}
           e == [c EXCEPT !.keys = {}]
           again == [c EXCEPT !.step = "allocate", !.attempt = @ + 1, !.previous = c.epoch, !.keys = {}]
<1>1. /\ Account(p) \in Accounts /\ c \in Calls /\ Chained(committed) /\ Top(committed) \in Nat
      /\ Lim(Account(p)) \in Nat /\ Sound(committed, vault[Account(p)].keys, Lim(Account(p)), p, c)
      /\ Owner \in Accounts /\ \A m \in Members : m \in Accounts
      /\ copies \in [Accounts -> Copies] /\ leftAt \in [Members -> Nat]
  BY AccountOf, LimIs, TopIsNat, InvParts DEF CallType, ServerType, EpochInv, KnownInv, CallsSound, Accounts
<1>2. c.step = "commit" /\ UNCHANGED <<membership, invites, leftAt, vault, changes>>
  BY DEF Commit
<1>3. /\ c.kind = "rotate" /\ c.then = "no" /\ c.epoch - 1 \in 1 .. Top(committed) /\ p \in Devices
      /\ c.keys = Up(committed, c.epoch - 1) \cup {<<c.epoch, p>>}
      /\ c.epoch \in Nat /\ c.from \in Nat /\ c.previous \in Nat
      /\ c.from < c.epoch /\ c.from <= Top(committed) /\ (c.previous = 0 \/ c.from < c.previous)
      /\ Whole(committed, Lim(Account(p)), c.copy)
  <2>1. /\ c.kind = "rotate" /\ c.then = "no" /\ c.epoch - 1 \in 1 .. Top(committed) /\ p \in Devices
        /\ c.keys = Up(committed, c.epoch - 1) \cup {<<c.epoch, p>>}
        /\ Whole(committed, Lim(Account(p)), c.copy)
    BY <1>1, <1>2 DEF Sound
  <2>2. c.epoch = 0 \/ c.from < c.epoch
    BY <1>1 DEF Sound
  <2>3. c.from <= Top(committed) /\ (c.previous = 0 \/ c.from < c.previous)
    BY <1>1 DEF Sound
  <2>4. c.epoch \in Nat /\ c.from \in Nat /\ c.previous \in Nat
    BY <1>1, FieldsOf
  <2>5. c.epoch # 0
    BY <1>1, <2>1, <2>4
  <2> QED
    BY <2>1, <2>2, <2>3, <2>4, <2>5
<1>4. Account(p) = Owner
  BY <1>3 DEF Account
<1>5. Sound(committed, vault[Account(p)].keys, Lim(Account(p)), p, Idle)
  BY <1>1, SoundIdle
<1>6. CASE ~CommitHolds(c)
  <2>1. /\ UNCHANGED <<committed, due, membership, copies, invites, leftAt, missed>> /\ UNCHANGED vault
        /\ Answered(p, again) \/ Answered(p, Idle)
    BY <1>2, <1>6 DEF Commit
  <2>2. /\ again.kind = c.kind /\ again.from = c.from /\ again.epoch = c.epoch /\ again.keys = {}
        /\ again.previous = c.epoch /\ again.copy = c.copy /\ again.then = c.then /\ again.step = "allocate"
    BY <1>1, SMT DEF Calls
  <2>3. Ring(committed, Lim(Account(p)), {})
    BY <1>1, NoRing
  <2> HIDE DEF c, again
  <2>4. Sound(committed, vault[Account(p)].keys, Lim(Account(p)), p, again)
    BY <1>3, <2>2, <2>3 DEF Sound
  <2> QED
    BY <1>5, <2>1, <2>4, QuietStep
<1>7. CASE CommitHolds(c)
  <2>1. /\ committed' = h /\ due' = FALSE /\ missed' = missed \ InGraph
        /\ copies' = [a \in Accounts |-> IF a \in InGraph THEN CopyFor(c, a) ELSE copies[a]]
        /\ Answered(p, Collects(e, "done"))
    BY <1>7 DEF Commit
  <2>2. c.epoch = Top(committed) + 1 /\ \A a \in InGraph : c.presented[a] = Identity[a]
    <3>1. Current = c.epoch - 1 /\ \A a \in InGraph : c.presented[a] = Identity[a]
      BY <1>7 DEF CommitHolds, InGraph
    <3>2. Current = Top(committed)
      BY DEF Current, Top
    <3> HIDE DEF c
    <3> QED
      BY <1>1, <1>3, <3>1, <3>2
  <2>3. c.keys = h
    <3>1. c.epoch - 1 = Top(committed)
      BY <1>1, <2>2
    <3> QED
      BY <1>1, <1>3, <3>1, AllOfIt
  <2>4. /\ Collects(e, "done").kind = c.kind /\ Collects(e, "done").from = c.from
        /\ Collects(e, "done").epoch = c.epoch /\ Collects(e, "done").keys = {}
        /\ Collects(e, "done").previous = c.previous /\ Collects(e, "done").copy = c.copy
        /\ Collects(e, "done").step = "list" /\ Collects(e, "done").then = "done"
    BY <1>1, SMT DEF Calls, Collects
  <2> DEFINE d == Collects(e, "done")
  <2> HIDE DEF c, d, e
  <2>5. /\ Chained(h) /\ Top(h) = Top(committed) + 1 /\ Up(h, Top(h)) = h
        /\ \A n \in 0 .. Top(committed) : Up(h, n) = Up(committed, n)
    <3> DEFINE x == <<c.epoch, p>>
    <3>1. x \in Nat \X (Processes \cup {Owner}) /\ x[1] = Top(committed) + 1
      BY <1>3, <2>2
    <3> HIDE DEF x
    <3>2. LET k == committed \cup {x} IN
          /\ Chained(k) /\ Top(k) = Top(committed) + 1 /\ Up(k, Top(k)) = k
          /\ \A n \in 0 .. Top(committed) : Up(k, n) = Up(committed, n)
      BY <1>1, <3>1, ChainGrows
    <3> QED
      BY <3>2 DEF x
  <2> HIDE DEF h
  <2>6. Longer(committed, committed') /\ Chained(committed') /\ Top(committed') = Top(committed) + 1
    <3>1. Longer(committed, h)
      BY <1>1, <2>5 DEF Longer
    <3> QED
      BY <2>1, <2>5, <3>1
  <2>7. InGraph' = InGraph /\ Owner \in InGraph
    BY <1>1, <1>2 DEF InGraph, EpochInv, Standing
  <2>8. \A a \in Accounts : Lim(a) \in 0 .. Top(committed)
    BY <1>1, LimIs DEF EpochInv
  <2>9. /\ \A a \in Accounts : Lim(a)' = Lim(a) \/ Lim(a)' = Top(committed')
        /\ \A a \in InGraph : Lim(a)' = Top(committed')
    <3>1. \A a \in Accounts : Lim(a)' = Lim(a) \/ Lim(a)' = Top(committed')
      BY <1>2, <2>7 DEF Lim
    <3>2. \A a \in InGraph : Lim(a)' = Top(committed')
      BY <2>7 DEF Lim
    <3> QED
      BY <3>1, <3>2
  <2>10. EpochsGrow /\ VaultsGrow
    <3>1. ASSUME NEW a \in Accounts PROVE Lim(a) <= Lim(a)' /\ Lim(a)' \in 0 .. Top(committed')
      BY <1>1, <2>6, <2>8, <2>9
    <3> QED
      BY <1>2, <2>6, <3>1 DEF EpochsGrow, VaultsGrow
  <2>11. CallsSound'
    <3>1. Whole(committed', Lim(Account(p))', c.copy)
      BY <1>1, <1>3, <2>10, RingsNext
    <3>2. Ring(committed', Lim(Account(p))', {})
      BY <1>1, <2>6, <2>10, NoRing DEF EpochsGrow
    <3>3. c.from <= Top(committed') /\ c.epoch \in c.from + 1 .. Top(committed')
      BY <1>1, <1>3, <2>2, <2>6
    <3>4. Sound(committed', vault'[Account(p)].keys, Lim(Account(p))', p, d)
      BY <1>3, <2>4, <3>1, <3>2, <3>3 DEF Sound, d
    <3> QED
      BY <2>1, <2>10, <3>4, AnswersGoOn DEF d
  <2>12. ASSUME NEW a \in InGraph
         PROVE  /\ copies'[a].epoch = Top(committed') /\ copies'[a].keys = committed'
                /\ copies'[a].to = vault'[a].identity /\ copies'[a].by = Identity'[Owner]
    <3>1. a \in Accounts
      BY DEF InGraph
    <3>2. copies'[a] = CopyFor(c, a)
      BY <2>1, <3>1
    <3>3. c.presented[a] = vault[a].identity /\ c.presented[Owner] = Identity[Owner] /\ Identity' = Identity
      BY <1>2, <2>2, <2>7, <3>1 DEF Identity
    <3>4. c.epoch = Top(committed') /\ c.keys = committed' /\ vault' = vault
      BY <1>1, <1>2, <2>1, <2>2, <2>3, <2>6
    <3> QED
      BY <3>2, <3>3, <3>4 DEF CopyFor
  <2>13. KnownInv'
    <3>1. ASSUME NEW a \in Accounts
          PROVE  Ring(committed', Lim(a)', vault'[a].keys) /\ Whole(committed', Lim(a)', copies'[a])
      <4>1. Ring(committed', Lim(a)', vault'[a].keys)
        BY <1>2, <2>10, RingsNext DEF EpochInv, KnownInv
      <4>2. CASE a \in InGraph
        <5>1. Lim(a)' = Top(committed') /\ Top(committed') \in Nat
          BY <1>1, <2>6, <2>9, <4>2
        <5>2. Up(committed', Top(committed')) = committed'
          BY <2>1, <2>5
        <5> QED
          BY <2>12, <4>1, <4>2, <5>1, <5>2 DEF Whole
      <4>3. CASE a \notin InGraph
        <5>1. copies'[a] = copies[a]
          BY <2>1, <4>3
        <5> QED
          BY <2>10, <4>1, <5>1, RingsNext DEF EpochInv, KnownInv
      <4> QED
        BY <4>2, <4>3
    <3>2. ASSUME NEW m \in Members
          PROVE  Ring(committed', Lim(m)', invites'[m].keys) /\ (invites'[m] = NoCopy \/ invites'[m].keys # {})
      BY <1>1, <1>2, <2>10, RingsNext DEF EpochInv, KnownInv
    <3> QED
      BY <1>2, <2>6, <3>1, <3>2 DEF EpochInv, KnownInv
  <2>14. Standing'
    <3>1. ASSUME NEW m \in Members PROVE leftAt'[m] <= Top(committed') /\ leftAt'[m] < Top(committed')
      BY <1>1, <1>2, <2>6 DEF EpochInv, Standing
    <3>2. ASSUME NEW m \in Members
          PROVE  /\ (m \in InGraph' => leftAt'[m] = 0) /\ (m \notin InGraph' => invites'[m] = NoCopy)
      BY <1>2, <2>7 DEF EpochInv, Standing
    <3>3. membership'[Owner] = "active"
      BY <1>2 DEF EpochInv, Standing
    <3> QED
      BY <3>1, <3>2, <3>3 DEF Standing
  <2>15. NoEpochLost'
    <3> SUFFICES ASSUME NEW a \in InGraph' \ missed' PROVE Reach(a)' = committed'
      BY DEF NoEpochLost
    <3>1. a \in InGraph /\ a \in Accounts
      BY <2>7 DEF InGraph
    <3>2. copies'[a] # NoCopy
      <4>1. Top(committed') # 0
        BY <1>1, <2>6
      <4> QED
        BY <2>12, <3>1, <4>1 DEF NoCopy
    <3>3. committed' \subseteq Reach(a)'
      BY <2>12, <3>1, <3>2 DEF Reach, ChecksOut
    <3>4. Reach(a)' \subseteq committed'
      BY <2>10, <2>13, <3>1, ReachNext DEF EpochsGrow
    <3> QED
      BY <3>3, <3>4
  <2> QED
    BY <2>11, <2>13, <2>14, <2>15 DEF EpochInv
<1> QED
  BY <1>6, <1>7

LEMMA EpochStep == ASSUME RotationInv, EpochInv, [Next]_vars PROVE EpochInv'
<1>1. ASSUME NEW p \in Processes, GoOn(p) PROVE EpochInv'
  BY <1>1, QuietRings, WriteRings, AcknowledgeRings, CommitRings, InviteRings, ActivateRings, ReplaceRings
     DEF GoOn
<1>2. ASSUME NEW p \in Processes, Trouble(p) PROVE EpochInv'
  BY <1>2, QuietRings
<1>3. ASSUME NEW p \in Processes,
             StartCollect(p) \/ StartRotate(p) \/ StartReplace(p)
               \/ (\E a \in Accounts : StartVerify(p, a)) \/ (\E m \in Members : StartInvite(p, m))
      PROVE  EpochInv'
  BY <1>3, StartRings
<1>4. ASSUME NEW m \in Members, StartAccept(m) PROVE EpochInv'
  BY <1>4, StartRings DEF Processes
<1>5. CASE UNCHANGED vars
  <2>1. UNCHANGED <<committed, due, membership, copies, invites, leftAt, missed, vault, call>> /\ UNCHANGED server
    BY <1>5 DEF vars, server
  <2>2. EpochsGrow /\ VaultsGrow
    BY <2>1, SameServer DEF VaultsGrow
  <2> QED
    BY <2>1, <2>2, CallsStay, CallsOnly
<1>6. CASE Next
  BY <1>1, <1>2, <1>3, <1>4, <1>6, RemoveRings, RequestRings DEF Next
<1> QED
  BY <1>5, <1>6

LEMMA EpochInit == Init => EpochInv
<1> SUFFICES ASSUME Init PROVE EpochInv
  OBVIOUS
<1>1. /\ committed = {<<1, Owner>>} /\ membership[Owner] = "active"
      /\ copies = [a \in Accounts |-> NoCopy] /\ invites = [m \in Members |-> NoCopy]
      /\ leftAt = [m \in Members |-> 0] /\ missed = {} /\ call = [p \in Processes |-> Idle]
  BY DEF Init
<1>2. \A a \in Accounts : vault[a].keys = IF a \in InGraph THEN committed ELSE {}
  BY DEF Init
<1>3. Owner \in Accounts /\ Owner \in InGraph /\ \A m \in Members : m \in Accounts
  BY <1>1 DEF Accounts, InGraph
<1>4. Top(committed) = 1 /\ IsFiniteSet(committed)
  BY <1>1, FS_Singleton DEF Top
<1>5. Chained(committed)
  <2>1. EpochsIn(committed) = {1}
    BY <1>1 DEF EpochsIn
  <2>2. committed \in KeySets
    BY <1>1 DEF KeySets
  <2> QED
    BY <1>4, <2>1, <2>2 DEF Chained
<1>6. \A a \in Accounts : Lim(a) = 1
  BY <1>1, <1>4 DEF Lim
<1>7. \A a \in Accounts : /\ Ring(committed, Lim(a), {}) /\ Ring(committed, Lim(a), committed)
                          /\ Whole(committed, Lim(a), NoCopy)
  <2>1. Ring(committed, 1, {}) /\ Whole(committed, 1, NoCopy)
    BY <1>5, NoRing
  <2>2. Ring(committed, 1, committed)
    BY <1>4, <1>5, AllOfIt DEF Ring
  <2> QED
    BY <1>6, <2>1, <2>2
<1>8. KnownInv
  BY <1>1, <1>2, <1>3, <1>5, <1>7 DEF KnownInv, NoCopy
<1>9. CallsSound
  BY <1>1, <1>5, <1>6, AccountOf, SoundIdle DEF CallsSound
<1>10. Standing
  BY <1>1, <1>4 DEF Standing
<1>11. NoEpochLost
  BY <1>1, <1>2 DEF NoEpochLost, InGraph, Reach, ChecksOut, NoCopy
<1> QED
  BY <1>8, <1>9, <1>10, <1>11 DEF EpochInv

LEMMA LeaversKnowNoMore ==
  ASSUME RotationInv, EpochInv
  PROVE  LeaversShutOut
<1>1. Chained(committed) /\ Current = Top(committed) /\ Top(committed) \in Nat
  BY TopIsNat DEF EpochInv, KnownInv, Current, Top
<1>2. ASSUME NEW m \in Members \ InGraph, leftAt[m] # 0
      PROVE  /\ \A k \in vault[m].keys \cup call[m].copy.keys \cup call[m].keys : k[1] <= leftAt[m]
             /\ due \/ leftAt[m] < Current
  <2>1. m \in Accounts /\ m \in Processes /\ Account(m) = m /\ m \notin Devices
    BY EpochRotationAssumption DEF Accounts, Processes, Account
  <2>2. Lim(m) = leftAt[m] /\ Lim(m) \in 0 .. Top(committed)
    <3>1. Lim(m) = leftAt[m]
      BY <1>2 DEF Lim
    <3> QED
      BY <1>1, <2>1, <3>1, LimIs DEF EpochInv
  <2>3. Sound(committed, vault[m].keys, Lim(m), m, call[m])
    BY <2>1 DEF EpochInv, CallsSound
  <2>4. call[m].step # "commit"
    BY <2>1, <2>3 DEF Sound
  <2>5. /\ Ring(committed, Lim(m), vault[m].keys)
        /\ Ring(committed, Lim(m), call[m].keys) /\ Ring(committed, Lim(m), call[m].copy.keys)
    BY <2>1, <2>3, <2>4 DEF EpochInv, KnownInv, Sound, Whole, Ring
  <2>6. \A keys : Ring(committed, Lim(m), keys) => \A k \in keys : k[1] <= Lim(m)
    BY <1>1, <2>2, RingIn
  <2>7. due \/ leftAt[m] < Current
    BY <1>1, <1>2 DEF EpochInv, Standing
  <2> QED
    BY <2>2, <2>5, <2>6, <2>7
<1>3. ASSUME NEW p \in Devices, call[p].then = "done" PROVE call[p].epoch \in call[p].from + 1 .. Current
  <2>1. Sound(committed, vault[Account(p)].keys, Lim(Account(p)), p, call[p])
    BY DEF Processes, EpochInv, CallsSound
  <2> QED
    BY <1>1, <1>3, <2>1 DEF Sound
<1> QED
  BY <1>2, <1>3 DEF LeaversShutOut

\* Every keyring on record, waiting or under way is an initial part of the graph's epochs, no longer than its
\* account may know, and everyone in the graph who is not excepted reaches all of them.
THEOREM EpochInvariant == Spec => []EpochInv
<1>1. RotationInv /\ EpochInv /\ [Next]_vars => EpochInv'
  BY EpochStep
<1> QED
  BY <1>1, EpochInit, RotationInvariant, PTL DEF Spec

\* Everyone in the graph holds every epoch of it or can still take the rest, but whom the owner invited
\* with an overtaken keyring and who replaced keys with a copy unread (key-handouts.ts:9-10).
THEOREM NoEpochIsLost == Spec => []NoEpochLost
<1>1. EpochInv => NoEpochLost
  BY DEF EpochInv
<1> QED
  BY <1>1, EpochInvariant, PTL

\* Whoever was removed knows no epoch made after, which is due or committed already, and a rotation is
\* reported only with an epoch committed after it was asked for.
THEOREM LeaversAreShutOut == Spec => []LeaversShutOut
<1>1. RotationInv /\ EpochInv => LeaversShutOut
  BY LeaversKnowNoMore
<1> QED
  BY <1>1, EpochInvariant, RotationInvariant, PTL
=============================================================================
