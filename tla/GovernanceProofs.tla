-------------------------- MODULE GovernanceProofs --------------------------
(***************************************************************************)
(* Proofs about Governance: the counter of frozen scripts, the failsafe    *)
(* for the master key, and that costs, fee scripts and frozen scripts are  *)
(* those of the active chain, for every set of scripts and blocks, every   *)
(* bound on the height and every choice of Faults.                         *)
(***************************************************************************)
EXTENDS Governance, FiniteSetTheorems, TLAPS

-----------------------------------------------------------------------------
(* Sequences. *)

\* The length and the domain of a sequence.
LEMMA LenProperties ==
    ASSUME NEW S, NEW q \in Seq(S)
    PROVE  Len(q) \in Nat /\ q \in [1 .. Len(q) -> S] /\ DOMAIN q = 1 .. Len(q)
OBVIOUS

\* Only the empty sequence has length zero.
LEMMA EmptySeq ==
    ASSUME NEW S
    PROVE  /\ <<>> \in Seq(S) /\ Len(<<>>) = 0
           /\ \A q \in Seq(S) : q # <<>> => Len(q) \in Nat \ {0}
OBVIOUS

\* The head and the tail, with which the outputs of a transaction are walked through.
LEMMA HeadTailProperties ==
    ASSUME NEW S, NEW q \in Seq(S), q # <<>>
    PROVE  /\ Head(q) \in S /\ Tail(q) \in Seq(S) /\ Len(Tail(q)) = Len(q) - 1
           /\ \A k \in 1 .. Len(Tail(q)) : Tail(q)[k] = q[k + 1]
OBVIOUS

\* A chain with one block more.
LEMMA AppendProperties ==
    ASSUME NEW S, NEW q \in Seq(S), NEW e \in S
    PROVE  /\ Append(q, e) \in Seq(S) /\ Append(q, e) # <<>>
           /\ Len(Append(q, e)) = Len(q) + 1 /\ Append(q, e)[Len(q) + 1] = e
           /\ \A k \in 1 .. Len(q) : Append(q, e)[k] = q[k]
OBVIOUS

-----------------------------------------------------------------------------
(* What the database and the block in hand look like. *)

\* The block in hand exists, and so does its height.
JobOK ==
    /\ mode = "connect" => block \in Block
    /\ mode \in {"connect", "check"} => Len(chain) < MaxHeight
    /\ mode \in {"verify", "reverify"} => at \in 1 .. Len(chain)
    /\ mode = "disconnect" => chain # <<>>
    /\ mode = "replay" => at \in 1 .. Len(flushed)

IInv == TypeOK /\ JobOK /\ NumberMatchesFrozen /\ MasterKeyIsSafe

-----------------------------------------------------------------------------
(* The database. *)

\* What the operations on the database may rely on and have to keep.
DbOK ==
    /\ list \in [Script -> {"none", "frozen", "unfrozen"}]
    /\ number \in 0 .. (Modulus - 1)
    /\ cost \in [CostType -> [Height -> Cost \cup {None}]]
    /\ fee \in [Height -> Script \cup {None}]
    /\ NumberMatchesFrozen
    /\ MasterKeyIsSafe

\* Counting up when a script joins the frozen ones, as FreezeScript and
\* RevertUnfreezeScript do, keeps the counter right.
LEMMA CountUp ==
    ASSUME DbOK, NEW s \in Script, list[s] # "frozen",
           list' = [list EXCEPT ![s] = "frozen"], number' = Inc(number)
    PROVE  number' \in 0 .. (Modulus - 1) /\ NumberMatchesFrozen'
<1>1. IsFiniteSet(Frozen) /\ Cardinality(Frozen) \in Nat /\ s \notin Frozen
  BY ScriptAssumption, FS_Subset, FS_CardinalityType DEF Frozen
<1>2. Frozen' = Frozen \cup {s}
  BY DEF DbOK, Frozen
<1>3. Cardinality(Frozen') = Cardinality(Frozen) + 1
  BY <1>1, <1>2, FS_AddElement
<1>4. Cardinality(Frozen') <= Cardinality(Script)
  BY <1>2, ScriptAssumption, FS_Subset DEF Frozen
<1>5. Frozen = {} <=> Cardinality(Frozen) = 0
  BY <1>1, FS_EmptySet
<1>6. Cardinality(Script) \in Nat
  BY ScriptAssumption, FS_CardinalityType
<1>7. QED
  BY <1>1, <1>2, <1>3, <1>4, <1>5, <1>6, ModulusAssumption DEF DbOK, NumberMatchesFrozen, Inc

\* Counting down when a script leaves the frozen ones, as UnfreezeScript and
\* RevertFreezeScript do, keeps the counter right.
LEMMA CountDown ==
    ASSUME DbOK, NEW s \in Script, list[s] = "frozen",
           list' = [list EXCEPT ![s] = "unfrozen"], number' = Dec(number)
    PROVE  number' \in 0 .. (Modulus - 1) /\ NumberMatchesFrozen'
<1>1. IsFiniteSet(Frozen) /\ Cardinality(Frozen) \in Nat /\ s \in Frozen
  BY ScriptAssumption, FS_Subset, FS_CardinalityType DEF Frozen
<1>2. Frozen' = Frozen \ {s}
  BY DEF DbOK, Frozen
<1>3. Cardinality(Frozen') = Cardinality(Frozen) - 1 /\ IsFiniteSet(Frozen')
  BY <1>1, <1>2, FS_RemoveElement
<1>4. Frozen' = {} <=> Cardinality(Frozen') = 0
  BY <1>3, FS_EmptySet, Zenon
<1>5. Cardinality(Frozen) <= Cardinality(Script) /\ Cardinality(Script) \in Nat
  BY ScriptAssumption, FS_Subset, FS_CardinalityType DEF Frozen
<1>6. QED
  BY <1>1, <1>3, <1>4, <1>5, ModulusAssumption DEF DbOK, NumberMatchesFrozen, Dec

\* The same frozen scripts need the same count.
LEMMA CountSame ==
    ASSUME DbOK, NEW s \in Script, list[s] # "frozen",
           NEW x \in {"none", "unfrozen"},
           list' = [list EXCEPT ![s] = x], number' = number
    PROVE  NumberMatchesFrozen'
<1>1. Frozen' = Frozen
  BY DEF DbOK, Frozen
<1>2. QED BY <1>1 DEF DbOK, NumberMatchesFrozen

\* FreezeScript of another script than the master key keeps the database sound.
LEMMA FreezeLemma ==
    ASSUME DbOK, NEW s \in Script, s # MasterKey, FreezeScript(s)
    PROVE  DbOK'
<1>1. CASE list[s] = "frozen"
  <2>1. list' = list /\ number' = number
    BY <1>1 DEF FreezeScript, DbOK
  <2>2. QED BY <2>1, Zenon DEF DbOK, FreezeScript, NumberMatchesFrozen, Frozen, MasterKeyIsSafe
<1>2. CASE list[s] # "frozen"
  <2>1. list' = [list EXCEPT ![s] = "frozen"] /\ number' = Inc(number) /\ UNCHANGED <<cost, fee>>
    BY <1>2 DEF FreezeScript
  <2>2. number' \in 0 .. (Modulus - 1) /\ NumberMatchesFrozen'
    BY <1>2, <2>1, CountUp, Zenon
  <2>3. QED BY <2>1, <2>2, ScriptAssumption DEF DbOK, MasterKeyIsSafe
<1>3. QED BY <1>1, <1>2

\* UnfreezeScript of another script than the master key keeps the database sound.
LEMMA UnfreezeLemma ==
    ASSUME DbOK, NEW s \in Script, s # MasterKey, UnfreezeScript(s)
    PROVE  DbOK'
<1>1. list' = [list EXCEPT ![s] = "unfrozen"] /\ UNCHANGED <<cost, fee>>
  BY DEF UnfreezeScript
<1>2. number' \in 0 .. (Modulus - 1) /\ NumberMatchesFrozen'
  <2>1. CASE list[s] = "frozen"
    BY <2>1, <1>1, CountDown, Zenon DEF UnfreezeScript
  <2>2. CASE list[s] # "frozen"
    <3>1. number' = number
      BY <2>2 DEF UnfreezeScript
    <3>2. QED BY <3>1, <2>2, <1>1, CountSame, Zenon DEF DbOK
  <2>3. QED BY <2>1, <2>2
<1>3. QED BY <1>1, <1>2, ScriptAssumption DEF DbOK, MasterKeyIsSafe

\* Reverting a freeze keeps the database sound, whatever state the script is in.
LEMMA RevertFreezeLemma ==
    ASSUME DbOK, NEW s \in Script, s # MasterKey, RevertFreezeScript(s)
    PROVE  DbOK'
<1>1. CASE list[s] = "frozen"
  <2>1. list' = [list EXCEPT ![s] = "unfrozen"] /\ number' = Dec(number) /\ UNCHANGED <<cost, fee>>
    BY <1>1 DEF RevertFreezeScript
  <2>2. number' \in 0 .. (Modulus - 1) /\ NumberMatchesFrozen'
    BY <1>1, <2>1, CountDown, Zenon
  <2>3. QED BY <2>1, <2>2, ScriptAssumption DEF DbOK, MasterKeyIsSafe
<1>2. CASE list[s] # "frozen"
  BY <1>2 DEF RevertFreezeScript, DbOK, db, NumberMatchesFrozen, Frozen, MasterKeyIsSafe
<1>3. QED BY <1>1, <1>2

\* Reverting an unfreeze keeps the database sound, whatever state the script is in.
LEMMA RevertUnfreezeLemma ==
    ASSUME DbOK, NEW s \in Script, s # MasterKey, RevertUnfreezeScript(s)
    PROVE  DbOK'
<1>1. CASE list[s] = "unfrozen"
  <2>1. list' = [list EXCEPT ![s] = "frozen"] /\ number' = Inc(number) /\ UNCHANGED <<cost, fee>>
    BY <1>1 DEF RevertUnfreezeScript
  <2>2. number' \in 0 .. (Modulus - 1) /\ NumberMatchesFrozen'
    BY <1>1, <2>1, CountUp, Zenon
  <2>3. QED BY <2>1, <2>2, ScriptAssumption DEF DbOK, MasterKeyIsSafe
<1>2. CASE list[s] # "unfrozen"
  BY <1>2 DEF RevertUnfreezeScript, DbOK, db, NumberMatchesFrozen, Frozen, MasterKeyIsSafe
<1>3. QED BY <1>1, <1>2

\* Setting or erasing one cost keeps the database sound.
LEMMA CostLemma ==
    ASSUME DbOK, NEW t \in CostType, NEW h \in Height, NEW c \in Cost \cup {None},
           cost' = [cost EXCEPT ![t][h] = c], UNCHANGED <<list, number, fee>>
    PROVE  DbOK'
<1>1. NumberMatchesFrozen' /\ MasterKeyIsSafe'
  BY DEF DbOK, NumberMatchesFrozen, Frozen, MasterKeyIsSafe
<1>2. QED BY <1>1 DEF DbOK

\* Setting the fee script to another one than the master key, or erasing it,
\* keeps the database sound.
LEMMA FeeLemma ==
    ASSUME DbOK, NEW h \in Height, NEW s \in (Script \ {MasterKey}) \cup {None},
           fee' = [fee EXCEPT ![h] = s], UNCHANGED <<list, number, cost>>
    PROVE  DbOK'
<1>1. NumberMatchesFrozen'
  BY DEF DbOK, NumberMatchesFrozen, Frozen
<1>2. MasterKeyIsSafe'
  BY CostAssumption, ScriptAssumption DEF DbOK, MasterKeyIsSafe
<1>3. QED BY <1>1, <1>2 DEF DbOK

-----------------------------------------------------------------------------
(* The block in hand. *)

\* The rest of the type invariant.
RestOK ==
    /\ chain \in Seq(Block) /\ Len(chain) <= MaxHeight
    /\ flushed \in Seq(Block) /\ Len(flushed) <= MaxHeight
    /\ mode \in {"idle", "connect", "check", "disconnect", "verify", "reverify", "replay"}
    /\ block \in Block \cup {None}
    /\ at \in Height
    /\ todo \in Seq(Tx)
    /\ outs \in Seq(Op)
    /\ irregular \in SUBSET Script
    /\ JobOK

\* The two halves of the invariant.
LEMMA Halves == IInv <=> DbOK /\ RestOK
BY DEF IInv, TypeOK, DbOK, RestOK

\* A reversed list of transactions, as DisconnectBlock walks it, is one too.
LEMMA ReverseType ==
    ASSUME NEW S, NEW q \in Seq(S)
    PROVE  Reverse(q) \in Seq(S)
BY DEF Reverse

\* The last block and the chain without it, as DisconnectTip uses them.
LEMMA LastFrontType ==
    ASSUME NEW S, NEW q \in Seq(S), q # <<>>
    PROVE  /\ Last(q) \in S
           /\ Front(q) \in Seq(S) /\ Len(Front(q)) = Len(q) - 1
<1>1. Len(q) \in Nat \ {0}
  BY EmptySeq, LenProperties
<1>2. Last(q) \in S
  BY <1>1, LenProperties DEF Last
<1>3. Front(q) \in Seq(S) /\ Len(Front(q)) = Len(q) - 1
  <2>1. ASSUME NEW n \in 0 .. Len(q)
        PROVE  SubSeq(q, 1, n) \in Seq(S) /\ Len(SubSeq(q, 1, n)) = n
    OBVIOUS
  <2>2. Len(q) - 1 \in 0 .. Len(q)
    BY <1>1
  <2>3. QED BY <2>1, <2>2, Zenon DEF Front
<1>4. QED BY <1>2, <1>3

\* The transactions of a block of the chain, in either order.
LEMMA TxsType ==
    ASSUME NEW b \in Block
    PROVE  b.txs \in Seq(Tx) /\ Reverse(b.txs) \in Seq(Tx)
<1>1. b.txs \in Seq(Tx)
  BY BlockAssumption
<1>2. QED BY <1>1, ReverseType

\* A governance output is of one of the two kinds.
LEMMA OpType ==
    ASSUME NEW o \in Op
    PROVE  /\ o.op = "cost" => o.type \in CostType /\ o.cost \in Cost
           /\ o.op # "cost" => o.op \in {"freeze", "unfreeze", "fee"} /\ o.script \in Script
BY DEF Op

\* The height of the block in hand is within the bound.
LEMMA BlockHeightType ==
    ASSUME RestOK, mode # "idle"
    PROVE  BlockHeight \in Height
BY MaxHeightAssumption DEF RestOK, JobOK, BlockHeight, Height

\* Apply, one governance output of ConnectBlock, keeps the database sound.
LEMMA ApplyLemma ==
    ASSUME DbOK, RestOK, mode # "idle", NEW o \in Op, Apply(o)
    PROVE  DbOK'
<1>1. BlockHeight \in Height
  BY BlockHeightType
<1>2. CASE o.op = "cost"
  <2> DEFINE h == BlockHeight
             c == IF cost[o.type][h] = None THEN o.cost ELSE cost[o.type][h]
  <2>1. h \in Height /\ o.type \in CostType /\ o.cost \in Cost
    BY <1>1, <1>2, OpType
  <2>2. cost' = [cost EXCEPT ![o.type][h] = c] /\ UNCHANGED <<list, number, fee>>
    BY <1>2 DEF Apply, UpdateCost
  <2>3. c \in Cost \cup {None}
    BY <2>1 DEF DbOK
  <2> HIDE DEF h, c
  <2>4. QED BY <2>1, <2>2, <2>3, CostLemma, Zenon
<1>3. CASE o.op # "cost" /\ o.script = MasterKey
  BY <1>3 DEF Apply, db, DbOK, NumberMatchesFrozen, Frozen, MasterKeyIsSafe
<1>4. CASE o.script # MasterKey /\ o.op = "freeze"
  BY <1>4, OpType, FreezeLemma DEF Apply
<1>5. CASE o.script # MasterKey /\ o.op = "unfreeze"
  BY <1>5, OpType, UnfreezeLemma DEF Apply
<1>6. CASE o.script # MasterKey /\ o.op = "fee"
  <2> DEFINE h == BlockHeight
             s == IF fee[h] = None THEN o.script ELSE fee[h]
  <2>1. h \in Height /\ o.script \in Script \ {MasterKey}
    BY <1>1, <1>6, OpType
  <2>2. fee' = [fee EXCEPT ![h] = s] /\ UNCHANGED <<list, number, cost>>
    BY <1>6 DEF Apply, UpdateFeeScript
  <2>3. s \in (Script \ {MasterKey}) \cup {None}
    BY <2>1 DEF DbOK, MasterKeyIsSafe
  <2> HIDE DEF h, s
  <2>4. QED BY <2>1, <2>2, <2>3, FeeLemma, Zenon
<1>7. QED BY <1>2, <1>3, <1>4, <1>5, <1>6, OpType

\* Revert, one governance output of DisconnectBlock, keeps the database sound.
LEMMA RevertLemma ==
    ASSUME DbOK, RestOK, mode # "idle", NEW o \in Op, Revert(o)
    PROVE  DbOK'
<1>1. BlockHeight \in Height
  BY BlockHeightType
<1>2. CASE o.op = "cost"
  BY <1>1, <1>2, OpType, CostLemma DEF Revert, RevertUpdateCost
<1>3. CASE o.op # "cost" /\ o.script = MasterKey
  BY <1>3 DEF Revert, db, DbOK, NumberMatchesFrozen, Frozen, MasterKeyIsSafe
<1>4. CASE o.script # MasterKey /\ o.op = "freeze"
  BY <1>4, OpType, RevertFreezeLemma DEF Revert
<1>5. CASE o.script # MasterKey /\ o.op = "unfreeze"
  BY <1>5, OpType, RevertUnfreezeLemma DEF Revert
<1>6. CASE o.script # MasterKey /\ o.op = "fee"
  BY <1>1, <1>6, OpType, FeeLemma DEF Revert, RevertUpdateFeeScript
<1>7. QED BY <1>2, <1>3, <1>4, <1>5, <1>6, OpType

\* A new database, as CGovernance::Init makes it, is sound.
LEMMA NewDatabaseLemma ==
    ASSUME NewDatabase(list, number, cost, fee)
    PROVE  DbOK
<1>1. Frozen = {DummyScript}
  BY ScriptAssumption DEF NewDatabase, Frozen
<1>2. Cardinality(Frozen) = 1
  BY <1>1, FS_Singleton
<1>3. NumberMatchesFrozen
  BY <1>1, <1>2 DEF NumberMatchesFrozen, NewDatabase
<1>4. Cardinality(Script) \in Nat /\ Cardinality(Script) # 0
  BY ScriptAssumption, FS_CardinalityType, FS_EmptySet
<1>5. number \in 0 .. (Modulus - 1)
  BY <1>4, ModulusAssumption DEF NewDatabase
<1>6. MasterKeyIsSafe
  BY ScriptAssumption, CostAssumption DEF NewDatabase, MasterKeyIsSafe
<1>7. cost \in [CostType -> [Height -> Cost \cup {None}]]
  BY CostAssumption DEF NewDatabase
<1>8. list \in [Script -> {"none", "frozen", "unfrozen"}] /\ fee \in [Height -> Script \cup {None}]
  BY ScriptAssumption DEF NewDatabase
<1>9. QED BY <1>3, <1>5, <1>6, <1>7, <1>8 DEF DbOK

\* The same after a reindex.
LEMMA WipedDatabaseLemma ==
    ASSUME NewDatabase(list', number', cost', fee')
    PROVE  DbOK'
<1>1. Frozen' = {DummyScript}
  BY ScriptAssumption DEF NewDatabase, Frozen
<1>2. Cardinality(Frozen') = 1
  BY <1>1, FS_Singleton, Zenon
<1>3. NumberMatchesFrozen'
  BY <1>1, <1>2 DEF NumberMatchesFrozen, NewDatabase
<1>4. Cardinality(Script) \in Nat /\ Cardinality(Script) # 0
  BY ScriptAssumption, FS_CardinalityType, FS_EmptySet
<1>5. number' \in 0 .. (Modulus - 1)
  BY <1>4, ModulusAssumption DEF NewDatabase
<1>6. MasterKeyIsSafe'
  BY ScriptAssumption, CostAssumption DEF NewDatabase, MasterKeyIsSafe
<1>7. cost' \in [CostType -> [Height -> Cost \cup {None}]]
  BY CostAssumption DEF NewDatabase
<1>8. list' \in [Script -> {"none", "frozen", "unfrozen"}] /\ fee' \in [Height -> Script \cup {None}]
  BY ScriptAssumption DEF NewDatabase
<1>9. QED BY <1>3, <1>5, <1>6, <1>7, <1>8 DEF DbOK

-----------------------------------------------------------------------------
(* The steps. *)

\* Starting ConnectBlock or DisconnectBlock touches nothing but the job.
LEMMA StartLemma ==
    ASSUME RestOK,
           (\E b \in Block, m \in {"connect", "check"} : StartConnect(b, m)) \/ StartDisconnect
    PROVE  RestOK'
<1>1. ASSUME NEW b \in Block, NEW m \in {"connect", "check"}, StartConnect(b, m)
      PROVE  RestOK'
  <2>1. b.txs \in Seq(Tx)
    BY TxsType
  <2>2. QED BY <1>1, <2>1 DEF RestOK, JobOK, StartConnect
<1>2. CASE StartDisconnect
  <2>1. Last(chain) \in Block
    BY <1>2, LastFrontType DEF StartDisconnect, RestOK
  <2>2. Reverse(Last(chain).txs) \in Seq(Tx)
    BY <2>1, TxsType
  <2>3. QED BY <1>2, <2>1, <2>2 DEF RestOK, JobOK, StartDisconnect
<1>3. QED BY <1>1, <1>2

\* The end of a job leaves no job.
LEMMA IdleLemma ==
    ASSUME BackToIdle,
           chain' \in Seq(Block), Len(chain') <= MaxHeight,
           flushed' \in Seq(Block), Len(flushed') <= MaxHeight,
           irregular' \in SUBSET Script
    PROVE  RestOK'
BY MaxHeightAssumption DEF BackToIdle, RestOK, JobOK, Height

\* One transaction of ConnectBlock or of DisconnectBlock.
LEMMA TxLemma ==
    ASSUME RestOK, ConnectTx \/ DisconnectTx
    PROVE  RestOK'
<1>1. todo # <<>>
  BY DEF ConnectTx, DisconnectTx
<1>2. Head(todo) \in Tx /\ Tail(todo) \in Seq(Tx)
  BY <1>1, HeadTailProperties DEF RestOK
<1>3. Head(todo).outs \in Seq(Op)
  BY <1>2 DEF Tx
<1>4. CASE ConnectTx /\ PaysCost(Head(todo)) /\ \A s \in Head(todo).from : CanSend(s)
  <2>1. irregular' \in SUBSET Script
    BY <1>4, Zenon DEF ConnectTx, IrregularIn, RestOK
  <2>2. outs' \in Seq(Op) /\ todo' \in Seq(Tx) /\ UNCHANGED <<mode, block, at, chain, flushed>>
    <3>1. outs' = Head(todo).outs \/ outs' = <<>>
      BY <1>4 DEF ConnectTx
    <3>2. QED BY <1>2, <1>3, <1>4, <3>1, EmptySeq, Zenon DEF ConnectTx
  <2>3. QED BY <2>1, <2>2 DEF RestOK, JobOK
<1>5. CASE ConnectTx /\ ~(PaysCost(Head(todo)) /\ \A s \in Head(todo).from : CanSend(s))
  BY <1>5, IdleLemma DEF ConnectTx, RestOK
<1>6. CASE DisconnectTx
  <2>1. outs' \in Seq(Op) /\ todo' \in Seq(Tx)
    BY <1>2, <1>3, <1>6 DEF DisconnectTx
  <2>2. QED BY <1>6, <2>1 DEF DisconnectTx, RestOK, JobOK
<1>7. QED BY <1>4, <1>5, <1>6

\* One output of ConnectBlock or of DisconnectBlock.
LEMMA OutputLemma ==
    ASSUME DbOK, RestOK, ConnectOutput \/ DisconnectOutput
    PROVE  DbOK' /\ RestOK'
<1>1. outs # <<>> /\ mode # "idle"
  BY DEF ConnectOutput, DisconnectOutput, Connecting
<1>2. Head(outs) \in Op /\ Tail(outs) \in Seq(Op)
  BY <1>1, HeadTailProperties DEF RestOK
<1>3. DbOK'
  BY <1>1, <1>2, ApplyLemma, RevertLemma DEF ConnectOutput, DisconnectOutput
<1>4. irregular' \in SUBSET Script
  BY <1>2, OpType DEF ConnectOutput, DisconnectOutput, Redundant, RestOK
<1>5. outs' \in Seq(Op) /\ UNCHANGED <<chain, flushed, mode, block, at, todo>>
  BY <1>2 DEF ConnectOutput, DisconnectOutput
<1>6. QED BY <1>3, <1>4, <1>5 DEF RestOK, JobOK

\* The end of ConnectBlock or of DisconnectBlock.
LEMMA FinishLemma ==
    ASSUME RestOK, FinishConnect \/ FinishDisconnect
    PROVE  RestOK'
<1>1. CASE FinishConnect
  <2>1. chain' \in Seq(Block) /\ Len(chain') <= MaxHeight
    <3>1. CASE chain' = Append(chain, block) /\ mode = "connect"
      BY <1>1, <3>1, AppendProperties, MaxHeightAssumption DEF FinishConnect, RestOK, JobOK
    <3>2. CASE chain' = chain
      BY <3>2 DEF RestOK
    <3>3. QED BY <1>1, <3>1, <3>2 DEF FinishConnect
  <2>2. irregular' \in SUBSET Script
    BY <1>1 DEF FinishConnect, RestOK
  <2>3. QED BY <1>1, <2>1, <2>2, IdleLemma DEF FinishConnect, RestOK
<1>2. CASE FinishDisconnect
  <2>1. chain' \in Seq(Block) /\ Len(chain') <= MaxHeight
    <3>1. chain \in Seq(Block) /\ chain # <<>> /\ chain' = Front(chain) /\ Len(chain) <= MaxHeight
      BY <1>2 DEF FinishDisconnect, RestOK, JobOK
    <3>2. Front(chain) \in Seq(Block) /\ Len(Front(chain)) = Len(chain) - 1
      BY <3>1, LastFrontType
    <3>3. QED BY <3>1, <3>2, LenProperties, MaxHeightAssumption
  <2>2. QED BY <1>2, <2>1, IdleLemma DEF FinishDisconnect, RestOK
<1>3. QED BY <1>1, <1>2

\* VerifyDB moves through blocks of the chain.
LEMMA VerifyLemma ==
    ASSUME RestOK,
           StartVerify \/ VerifyPrevious \/ VerifyStop \/ VerifyReconnect \/ VerifyNext
    PROVE  RestOK'
<1>1. Len(chain) \in Nat /\ MaxHeight \in Nat /\ Len(chain) <= MaxHeight
  BY MaxHeightAssumption, LenProperties DEF RestOK
<1>2. ASSUME NEW h \in 1 .. Len(chain), VerifyDown(h) \/ VerifyUp(h)
      PROVE  RestOK'
  <2>1. chain[h] \in Block
    BY LenProperties DEF RestOK
  <2>2. todo' \in Seq(Tx)
    BY <1>2, <2>1, TxsType DEF VerifyDown, VerifyUp
  <2>3. /\ block' \in Block /\ at' = h /\ mode' \in {"verify", "reverify"}
        /\ UNCHANGED <<chain, flushed, outs>> /\ irregular' \in {irregular, Script}
    BY <1>2, <2>1 DEF VerifyDown, VerifyUp
  <2>4. QED BY <1>1, <2>2, <2>3 DEF RestOK, JobOK, Height
<1>3. CASE VerifyEnd
  BY <1>3, IdleLemma DEF VerifyEnd, RestOK
<1>4. CASE StartVerify
  <2>1. Len(chain) \in 1 .. Len(chain)
    BY <1>1, <1>4, EmptySeq DEF StartVerify, RestOK
  <2>2. QED BY <1>2, <1>4, <2>1 DEF StartVerify
<1>5. CASE VerifyPrevious
  <2>1. at - 1 \in 1 .. Len(chain)
    BY <1>1, <1>5 DEF VerifyPrevious, RestOK, JobOK
  <2>2. QED BY <1>2, <1>5, <2>1 DEF VerifyPrevious
<1>6. CASE VerifyStop
  BY <1>3, <1>6 DEF VerifyStop
<1>7. CASE VerifyReconnect
  <2>1. at \in 1 .. Len(chain)
    BY <1>7 DEF VerifyReconnect, RestOK, JobOK
  <2>2. QED BY <1>2, <1>3, <1>7, <2>1 DEF VerifyReconnect
<1>8. CASE VerifyNext
  <2>1. CASE VerifyUp(at + 1) /\ at < Len(chain)
    <3>1. at + 1 \in 1 .. Len(chain)
      BY <1>1, <1>8, <2>1 DEF VerifyNext, RestOK, JobOK
    <3>2. QED BY <1>2, <2>1, <3>1
  <2>2. QED BY <1>3, <1>8, <2>1 DEF VerifyNext
<1>9. QED BY <1>4, <1>5, <1>6, <1>7, <1>8

\* ReplayBlocks moves through blocks of the chain flushed last.
LEMMA ReplayLemma ==
    ASSUME RestOK, ReplayBlocks \/ ReplayPrevious \/ ReplayEnd
    PROVE  RestOK'
<1>1. Len(flushed) \in Nat /\ MaxHeight \in Nat /\ Len(flushed) <= MaxHeight
  BY MaxHeightAssumption, LenProperties DEF RestOK
<1>2. ASSUME NEW h \in 1 .. Len(flushed), ReplayDown(h)
      PROVE  RestOK'
  <2>1. flushed[h] \in Block
    BY LenProperties DEF RestOK
  <2>2. todo' \in Seq(Tx) /\ outs' \in Seq(Op)
    BY <1>2, <2>1, TxsType, EmptySeq DEF ReplayDown
  <2>3. /\ block' \in Block /\ at' = h /\ mode' = "replay"
        /\ UNCHANGED <<chain, flushed>> /\ irregular' = Script
    BY <1>2, <2>1 DEF ReplayDown
  <2>4. QED BY <1>1, <2>2, <2>3 DEF RestOK, JobOK, Height
<1>3. CASE ReplayBlocks
  <2>1. Len(flushed) \in 1 .. Len(flushed)
    BY <1>1, <1>3, EmptySeq DEF ReplayBlocks, RestOK
  <2>2. QED BY <1>2, <1>3, <2>1 DEF ReplayBlocks
<1>4. CASE ReplayPrevious
  <2>1. at - 1 \in 1 .. Len(flushed)
    BY <1>1, <1>4 DEF ReplayPrevious, RestOK, JobOK
  <2>2. QED BY <1>2, <1>4, <2>1 DEF ReplayPrevious
<1>5. CASE ReplayEnd
  BY <1>5, IdleLemma DEF ReplayEnd, RestOK
<1>6. QED BY <1>3, <1>4, <1>5

\* A flush, a crash or a reindex leaves chains of blocks and no job.
LEMMA FaultLemma ==
    ASSUME DbOK, RestOK, FlushStateToDisk \/ Crash \/ \E fReset \in BOOLEAN : Reindex(fReset)
    PROVE  RestOK'
<1>1. CASE FlushStateToDisk
  BY <1>1 DEF FlushStateToDisk, Idle, RestOK, JobOK
<1>2. CASE Crash
  BY <1>2, IdleLemma DEF Crash, RestOK
<1>3. ASSUME NEW fReset \in BOOLEAN, Reindex(fReset)
      PROVE  RestOK'
  <2>1. irregular' \in SUBSET Script
    BY <1>3 DEF Reindex, RestOK
  <2>2. chain' \in Seq(Block) /\ Len(chain') <= MaxHeight
    BY <1>3, EmptySeq, MaxHeightAssumption DEF Reindex
  <2>3. flushed' \in Seq(Block) /\ Len(flushed') <= MaxHeight
    BY <1>3, EmptySeq, MaxHeightAssumption DEF Reindex
  <2>4. QED BY <1>3, <2>1, <2>2, <2>3, IdleLemma DEF Reindex
<1>4. QED BY <1>1, <1>2, <1>3

\* The database changes only when an output is applied or reverted and when a
\* reindex wipes it.
LEMMA DbUnchangedLemma ==
    ASSUME Next,
           ~(ConnectOutput \/ DisconnectOutput \/ \E fReset \in BOOLEAN : Reindex(fReset))
    PROVE  UNCHANGED db
<1>1. CASE \E b \in Block, m \in {"connect", "check"} : StartConnect(b, m)
  BY <1>1 DEF StartConnect, db
<1>2. CASE ConnectTx \/ FinishConnect
  BY <1>2 DEF ConnectTx, FinishConnect, db
<1>3. CASE StartDisconnect \/ DisconnectTx \/ FinishDisconnect
  BY <1>3 DEF StartDisconnect, DisconnectTx, FinishDisconnect, db
<1>4. CASE StartVerify \/ VerifyPrevious \/ VerifyStop \/ VerifyReconnect \/ VerifyNext
  BY <1>4 DEF StartVerify, VerifyPrevious, VerifyStop, VerifyReconnect, VerifyNext,
              VerifyDown, VerifyUp, VerifyEnd, db
<1>5. CASE FlushStateToDisk \/ Crash
  BY <1>5 DEF FlushStateToDisk, Crash, db
<1>6. CASE ReplayBlocks \/ ReplayPrevious \/ ReplayEnd
  BY <1>6 DEF ReplayBlocks, ReplayPrevious, ReplayEnd, ReplayDown, db
<1>7. QED BY <1>1, <1>2, <1>3, <1>4, <1>5, <1>6 DEF Next

\* Every step keeps the invariant.
LEMMA NextLemma ==
    ASSUME IInv, [Next]_vars
    PROVE  IInv'
<1>1. DbOK /\ RestOK
  BY Halves
<1>2. CASE UNCHANGED vars
  BY <1>2 DEF vars, IInv, TypeOK, JobOK, NumberMatchesFrozen, Frozen, MasterKeyIsSafe
<1>3. CASE Next
  <2>1. RestOK'
    BY <1>1, <1>3, StartLemma, TxLemma, OutputLemma, FinishLemma, VerifyLemma, ReplayLemma, FaultLemma DEF Next
  <2>2. DbOK'
    <3>1. CASE ConnectOutput \/ DisconnectOutput
      BY <1>1, <3>1, OutputLemma
    <3>2. ASSUME NEW fReset \in BOOLEAN, Reindex(fReset)
          PROVE  DbOK'
      <4>1. CASE fReset
        BY <3>2, <4>1, WipedDatabaseLemma DEF Reindex
      <4>2. CASE ~fReset
        BY <1>1, <3>2, <4>2 DEF Reindex, DbOK, NumberMatchesFrozen, Frozen, MasterKeyIsSafe
      <4>3. QED BY <4>1, <4>2
    <3>3. CASE UNCHANGED db
      BY <1>1, <3>3 DEF db, DbOK, NumberMatchesFrozen, Frozen, MasterKeyIsSafe
    <3>4. QED BY <1>3, <3>1, <3>2, <3>3, DbUnchangedLemma
  <2>3. QED BY <2>1, <2>2 DEF IInv, TypeOK, DbOK, RestOK
<1>4. QED BY <1>2, <1>3

\* The initial state satisfies the invariant.
LEMMA InitLemma == Init => IInv
<1> SUFFICES ASSUME Init PROVE DbOK /\ RestOK
  BY Halves
<1>1. DbOK
  BY NewDatabaseLemma DEF Init
<1>2. RestOK
  BY MaxHeightAssumption, EmptySeq DEF Init, Idle, RestOK, JobOK, Height
<1>3. QED BY <1>1, <1>2

\* IInv is an invariant.
LEMMA Invariance == Spec => []IInv
BY InitLemma, NextLemma, PTL DEF Spec

\* Every variable keeps its type; the block in hand is always one of the chain
\* or the next one.
THEOREM TypeCorrect == Spec => []TypeOK
<1>1. IInv => TypeOK BY DEF IInv
<1>2. QED BY <1>1, Invariance, PTL

\* The counter behind the RPC freezelist is right after every freeze, unfreeze
\* and revert, in whatever order blocks are connected, rejected, disconnected
\* and verified, and wherever the process stops and recovers.
THEOREM CounterIsRight == Spec => []NumberMatchesFrozen
<1>1. IInv => NumberMatchesFrozen BY DEF IInv
<1>2. QED BY <1>1, Invariance, PTL

\* The failsafe of ConnectBlock and DisconnectBlock holds: the master key is
\* never frozen and never the fee script.
THEOREM FailsafeHolds == Spec => []MasterKeyIsSafe
<1>1. IInv => MasterKeyIsSafe BY DEF IInv
<1>2. QED BY <1>1, Invariance, PTL

-----------------------------------------------------------------------------
(* The database and the chain: the inductive invariant. *)

\* The chain with the block in hand.
Extended == IF mode = "connect" THEN Append(chain, block) ELSE chain

\* The transaction in hand, and how many of its outputs were looked at.
Current == IF mode = "connect" THEN Len(block.txs) - Len(todo) ELSE Len(todo) + 1
Looked == Len(block.txs[Current].outs) - Len(outs)

\* The block in hand, in either direction, is walked through transaction by
\* transaction and output by output; only the outputs that ConnectBlock acts
\* on come up when it is connected.
OutsAreRight ==
    outs # <<>> =>
        /\ Current \in DOMAIN block.txs /\ Looked \in Nat
        /\ \A k \in DOMAIN outs : outs[k] = block.txs[Current].outs[Looked + k]
        /\ MasterKey \in block.txs[Current].from
        /\ mode = "connect" =>
              ~block.txs[Current].stake /\ Len(chain) + 1 >= GovernanceHeight

WalkIsRight ==
    /\ mode = "connect" =>
          /\ block \in Block /\ Current \in Nat /\ OutsAreRight
          /\ \A k \in DOMAIN todo : todo[k] = block.txs[Current + k]
    /\ mode = "disconnect" =>
          /\ block = chain[Len(chain)] /\ Len(todo) <= Len(block.txs) /\ OutsAreRight
          /\ \A k \in DOMAIN todo : todo[k] = block.txs[Current - k]
    /\ mode \in {"verify", "reverify", "replay"} => irregular = Script

\* The operations of the chain c, its last block in hand, that are in force: applied
\* and not reverted.
InForce(p, m, top, tx, looked) ==
    m \in {"connect", "disconnect"} /\ p[1] = top =>
        \/ p[2] < tx
        \/ p[2] = tx /\ (IF m = "connect" THEN p[3] <= looked ELSE p[3] > looked)
Applied(c, m, tx, looked) ==
    [p \in {q \in Sites(c) : InForce(q, m, Len(c), tx, looked)} |-> Log(c)[p]]
Done == Applied(Extended, mode, Current, Looked)

OnChain == mode \in {"idle", "connect", "disconnect"}

\* The costs are those in force; in the block that is being disconnected some
\* are gone already, and one that is there will be reverted.
EntriesSoFar(h) ==
    IF mode = "disconnect" /\ h = Len(chain)
    THEN /\ fee[h] # None => DOMAIN FeesAt(Done, h) # {}
         /\ \A t \in CostType : cost[t][h] # None => DOMAIN CostsAt(Done, t, h) # {}
    ELSE EntriesMatch(Done, h)
CostsSoFar == OnChain /\ irregular # Script => \A h \in Height : EntriesSoFar(h)

\* No transaction that was begun names s twice, or at all where ConnectBlock
\* does not act on it.
NamedOnce(tx, h, s) ==
    \A j \in DOMAIN tx.outs :
        tx.outs[j].op \in {"freeze", "unfreeze"} /\ tx.outs[j].script = s =>
            /\ ~tx.stake /\ h >= GovernanceHeight
            /\ \A k \in DOMAIN tx.outs :
                  tx.outs[k].op \in {"freeze", "unfreeze"} /\ tx.outs[k].script = s => k = j
Regular(c, m, cur, s) ==
    \A h \in DOMAIN c : \A i \in DOMAIN c[h].txs :
        /\ m = "connect" /\ h = Len(c) => i <= cur
        /\ MasterKey \in c[h].txs[i].from
        => NamedOnce(c[h].txs[i], h, s)
IsRegular(s) == Regular(Extended, mode, Current, s)

\* Freezing and unfreezing alternate, and the list is as the last of them left it.
Alternates(log, S) ==
    \A p \in S : log[p].op = "freeze" <=> ~EndsFrozen(log, {q \in S : Precedes(q, p)})
FreezesSoFar ==
    OnChain => \A s \in Script \ (irregular \cup {DummyScript}) :
        /\ IsRegular(s)
        /\ Alternates(Done, FreezesOf(Done, s))
        /\ list[s] = "frozen" <=> EndsFrozen(Done, FreezesOf(Done, s))
        /\ list[s] = "none" => FreezesOf(Done, s) = {}

-----------------------------------------------------------------------------
(* Sites and logs. *)

Site == Nat \X Nat \X Nat

\* A site of c is an output of one of its transactions.
LEMMA SitesDef ==
    ASSUME NEW c \in Seq(Block)
    PROVE  /\ Sites(c) \subseteq Site
           /\ \A h, i, j : <<h, i, j>> \in Sites(c) <=>
                  /\ h \in DOMAIN c /\ i \in DOMAIN c[h].txs
                  /\ j \in Acting(c[h].txs[i], h)
<1>1. ASSUME NEW p
      PROVE  p \in Sites(c) <=>
                \E h \in DOMAIN c : \E i \in DOMAIN c[h].txs :
                    \E j \in Acting(c[h].txs[i], h) : p = <<h, i, j>>
  BY DEF Sites
<1>2. ASSUME NEW h \in DOMAIN c, NEW i \in DOMAIN c[h].txs, NEW j \in Acting(c[h].txs[i], h)
      PROVE  <<h, i, j>> \in Site
  <2>1. h \in Nat /\ c[h] \in Block
    BY LenProperties
  <2>2. c[h].txs \in Seq(Tx)
    BY <2>1, TxsType
  <2>3. i \in Nat /\ c[h].txs[i] \in Tx
    BY <2>2, LenProperties
  <2>4. c[h].txs[i].outs \in Seq(Op)
    BY <2>3 DEF Tx
  <2>5. j \in DOMAIN c[h].txs[i].outs
    BY Zenon DEF Acting
  <2>6. j \in Nat
    BY <2>4, <2>5, LenProperties
  <2>7. QED BY <2>1, <2>3, <2>6 DEF Site
<1>3. ASSUME NEW p \in Sites(c)
      PROVE  p \in Site
  <2>1. PICK h \in DOMAIN c : \E i \in DOMAIN c[h].txs :
            \E j \in Acting(c[h].txs[i], h) : p = <<h, i, j>>
    BY <1>1, <1>3, Zenon
  <2>2. PICK i \in DOMAIN c[h].txs : \E j \in Acting(c[h].txs[i], h) : p = <<h, i, j>>
    BY <2>1, Zenon
  <2>3. PICK j \in Acting(c[h].txs[i], h) : p = <<h, i, j>>
    BY <2>2, Zenon
  <2>4. QED BY <1>2, <2>3, Zenon
<1>4. ASSUME NEW h, NEW i, NEW j
      PROVE  <<h, i, j>> \in Sites(c) <=>
                h \in DOMAIN c /\ i \in DOMAIN c[h].txs /\ j \in Acting(c[h].txs[i], h)
  <2>1. CASE <<h, i, j>> \in Sites(c)
    <3>1. PICK g \in DOMAIN c : \E k \in DOMAIN c[g].txs :
              \E l \in Acting(c[g].txs[k], g) : <<h, i, j>> = <<g, k, l>>
      BY <1>1, <2>1, Zenon
    <3>2. PICK k \in DOMAIN c[g].txs : \E l \in Acting(c[g].txs[k], g) : <<h, i, j>> = <<g, k, l>>
      BY <3>1, Zenon
    <3>3. PICK l \in Acting(c[g].txs[k], g) : <<h, i, j>> = <<g, k, l>>
      BY <3>2, Zenon
    <3>4. h = g /\ i = k /\ j = l
      BY <3>3
    <3>5. QED BY <2>1, <3>4, Zenon
  <2>2. CASE h \in DOMAIN c /\ i \in DOMAIN c[h].txs /\ j \in Acting(c[h].txs[i], h)
    BY <1>1, <2>2, Zenon
  <2>3. QED BY <2>1, <2>2, Zenon
<1>5. QED BY <1>3, <1>4, Zenon

\* ConnectBlock comes to the outputs one after the other.
LEMMA PrecedesOrder ==
    /\ \A p \in Site : ~Precedes(p, p)
    /\ \A p, q \in Site : Precedes(p, q) => ~Precedes(q, p)
    /\ \A p, q, r \in Site : Precedes(p, q) /\ Precedes(q, r) => Precedes(p, r)
    /\ \A p, q \in Site : Precedes(p, q) \/ Precedes(q, p) \/ p = q
BY DEF Site, Precedes

\* A later update of an entry changes nothing (UpdateCost and UpdateFeeScript).
LEMMA FirstStays ==
    ASSUME NEW f, NEW g, DOMAIN f \subseteq Site, NEW p \in Site \ DOMAIN f,
           DOMAIN g = DOMAIN f \cup {p}, \A q \in DOMAIN f : g[q] = f[q] /\ Precedes(q, p),
           \A q \in DOMAIN g : g[q] # None,
           NEW v, IsFirst(v, f)
    PROVE  IsFirst(IF v = None THEN g[p] ELSE v, g)
<1>1. ~Precedes(p, p)
  BY PrecedesOrder, Zenon
<1>2. CASE DOMAIN f = {}
  <2>1. v = None /\ DOMAIN g = {p}
    BY <1>2, Zenon DEF IsFirst
  <2>2. QED BY <1>1, <2>1, Zenon DEF IsFirst
<1>3. CASE DOMAIN f # {}
  <2>1. PICK r \in DOMAIN f : v = f[r] /\ \A q \in DOMAIN f : ~Precedes(q, r)
    BY <1>3, Zenon DEF IsFirst
  <2>2. v = g[r] /\ v # None /\ ~Precedes(p, r)
    BY <2>1, PrecedesOrder, Zenon
  <2>3. \A q \in DOMAIN g : ~Precedes(q, r)
    BY <2>1, <2>2, Zenon
  <2>4. QED BY <2>1, <2>2, <2>3, Zenon DEF IsFirst
<1>4. QED BY <1>2, <1>3, Zenon

\* The first entry does not depend on how the sites are found.
LEMMA SameFirst ==
    ASSUME NEW f, NEW g, DOMAIN f = DOMAIN g, \A q \in DOMAIN f : g[q] = f[q], NEW v, IsFirst(v, f)
    PROVE  IsFirst(v, g)
BY Zenon DEF IsFirst

\* The index of an element in a sequence and in its tail.
LEMMA TailIndex ==
    ASSUME NEW n \in Nat, NEW m, m = n - 1, NEW c \in Nat, NEW k \in 1 .. m
    PROVE  k + 1 \in 1 .. n /\ c + (k + 1) = (c + 1) + k /\ c - (k + 1) = (c - 1) - k
OBVIOUS

\* Where the operations in force are.
LEMMA AppliedSites ==
    ASSUME NEW c \in Seq(Block), NEW m, NEW tx, NEW looked
    PROVE  DOMAIN Applied(c, m, tx, looked) \subseteq Site
BY SitesDef, Zenon DEF Applied

LEMMA AppliedAt ==
    ASSUME NEW c \in Seq(Block), NEW m, NEW tx, NEW looked, NEW h, NEW i, NEW j
    PROVE  <<h, i, j>> \in DOMAIN Applied(c, m, tx, looked) <=>
               /\ h \in DOMAIN c /\ i \in DOMAIN c[h].txs /\ j \in Acting(c[h].txs[i], h)
               /\ InForce(<<h, i, j>>, m, Len(c), tx, looked)
<1>1. <<h, i, j>> \in Sites(c) <=>
          h \in DOMAIN c /\ i \in DOMAIN c[h].txs /\ j \in Acting(c[h].txs[i], h)
  BY SitesDef, Zenon
<1>2. QED BY <1>1, Zenon DEF Applied

\* What they are.
LEMMA AppliedIs ==
    ASSUME NEW c \in Seq(Block), NEW m, NEW tx, NEW looked, NEW h, NEW i, NEW j,
           <<h, i, j>> \in DOMAIN Applied(c, m, tx, looked)
    PROVE  Applied(c, m, tx, looked)[<<h, i, j>>] = c[h].txs[i].outs[j]
<1> DEFINE p == <<h, i, j>>
<1>1. Applied(c, m, tx, looked)[p] = Log(c)[p] /\ p \in Sites(c)
  BY Zenon DEF Applied
<1>2. Log(c)[p] = c[p[1]].txs[p[2]].outs[p[3]]
  BY <1>1, Zenon DEF Log
<1>3. p[1] = h /\ p[2] = i /\ p[3] = j
  OBVIOUS
<1>4. QED BY <1>1, <1>2, <1>3, Zenon

\* Operations at the same places are the same operations.
LEMMA AppliedEqual ==
    ASSUME NEW c \in Seq(Block), NEW m, NEW tx, NEW looked,
           NEW d \in Seq(Block), NEW n, NEW ty, NEW seen,
           NEW f, f = Applied(c, m, tx, looked), NEW g, g = Applied(d, n, ty, seen),
           \A h, i, j \in Nat : <<h, i, j>> \in DOMAIN f <=> <<h, i, j>> \in DOMAIN g,
           \A h, i, j \in Nat : <<h, i, j>> \in DOMAIN f => c[h] = d[h]
    PROVE  f = g
<1>1. DOMAIN f \subseteq Site /\ DOMAIN g \subseteq Site
  BY AppliedSites, Zenon
<1>2. ASSUME NEW h \in Nat, NEW i \in Nat, NEW j \in Nat, <<h, i, j>> \in DOMAIN f
      PROVE  f[<<h, i, j>>] = g[<<h, i, j>>]
  <2>1. <<h, i, j>> \in DOMAIN Applied(c, m, tx, looked)
    BY <1>2, Zenon
  <2>2. <<h, i, j>> \in DOMAIN Applied(d, n, ty, seen) /\ c[h] = d[h]
    BY <1>2, Zenon
  <2>3. Applied(c, m, tx, looked)[<<h, i, j>>] = c[h].txs[i].outs[j]
    BY ONLY <2>1, c \in Seq(Block), AppliedIs
  <2>4. Applied(d, n, ty, seen)[<<h, i, j>>] = d[h].txs[i].outs[j]
    BY ONLY <2>2, d \in Seq(Block), AppliedIs
  <2>5. QED BY <2>2, <2>3, <2>4, Zenon
<1>3. ASSUME NEW p \in Site
      PROVE  (p \in DOMAIN f <=> p \in DOMAIN g) /\ (p \in DOMAIN f => f[p] = g[p])
  <2>1. PICK h \in Nat, i \in Nat, j \in Nat : p = <<h, i, j>>
    BY DEF Site
  <2>2. QED BY <1>2, <2>1, Zenon
<1>4. DOMAIN f = DOMAIN g
  BY <1>1, <1>3, Zenon
<1>5. f = [p \in DOMAIN f |-> f[p]] /\ g = [p \in DOMAIN g |-> g[p]]
  BY Zenon DEF Applied
<1>6. QED
  <2>1. \A p \in DOMAIN f : f[p] = g[p]
    BY <1>1, <1>3, Zenon
  <2>2. QED BY <1>4, <1>5, <2>1

\* The same for one chain.
LEMMA AppliedSame ==
    ASSUME NEW c \in Seq(Block), NEW m, NEW tx, NEW looked, NEW n, NEW ty, NEW seen,
           NEW f, f = Applied(c, m, tx, looked), NEW g, g = Applied(c, n, ty, seen),
           \A h, i, j \in Nat : <<h, i, j>> \in DOMAIN f <=> <<h, i, j>> \in DOMAIN g
    PROVE  f = g
<1>1. \A h, i, j \in Nat : <<h, i, j>> \in DOMAIN f => c[h] = c[h]
  OBVIOUS
<1>2. QED BY <1>1, AppliedEqual

\* Only the operations at the sites in question matter.
LEMMA SameEnds ==
    ASSUME NEW f, NEW g, NEW S, \A q \in S : f[q] = g[q]
    PROVE  /\ EndsFrozen(f, S) <=> EndsFrozen(g, S)
           /\ Alternates(f, S) <=> Alternates(g, S)
<1>1. ASSUME NEW T, T \subseteq S
      PROVE  EndsFrozen(f, T) <=> EndsFrozen(g, T)
  BY <1>1, Zenon DEF EndsFrozen
<1>2. ASSUME NEW p \in S
      PROVE  EndsFrozen(f, {q \in S : Precedes(q, p)}) <=> EndsFrozen(g, {q \in S : Precedes(q, p)})
  <2>1. {q \in S : Precedes(q, p)} \subseteq S
    OBVIOUS
  <2>2. QED BY <1>1, <2>1, Zenon
<1>3. QED BY <1>1, <1>2, Zenon DEF Alternates

\* What the last site of S says is what S ends with.
LEMMA LastDecides ==
    ASSUME NEW f, NEW S, S \subseteq Site, NEW p \in S, \A q \in S \ {p} : Precedes(q, p)
    PROVE  /\ EndsFrozen(f, S) <=> f[p].op = "freeze"
           /\ {q \in S : Precedes(q, p)} = S \ {p}
           /\ \A r \in S \ {p} : {q \in S : Precedes(q, r)} = {q \in S \ {p} : Precedes(q, r)}
<1>1. ~Precedes(p, p) /\ \A q \in S \ {p} : ~Precedes(p, q)
  BY PrecedesOrder, Zenon
<1>2. ASSUME f[p].op = "freeze" PROVE EndsFrozen(f, S)
  <2>1. \A q \in S : ~Precedes(p, q)
    BY <1>1, Zenon
  <2>2. QED BY <1>2, <2>1, Zenon DEF EndsFrozen
<1>3. ASSUME EndsFrozen(f, S) PROVE f[p].op = "freeze"
  <2>1. PICK r \in S : f[r].op = "freeze" /\ \A q \in S : ~Precedes(r, q)
    BY <1>3, Zenon DEF EndsFrozen
  <2>2. r = p
    BY <2>1, Zenon
  <2>3. QED BY <2>1, <2>2, Zenon
<1>4. {q \in S : Precedes(q, p)} = S \ {p}
  BY <1>1
<1>5. ASSUME NEW r \in S \ {p}
      PROVE  {q \in S : Precedes(q, r)} = {q \in S \ {p} : Precedes(q, r)}
  BY <1>1
<1>6. QED BY <1>2, <1>3, <1>4, <1>5, Zenon

\* A freeze of an unfrozen script, or the reverse, after all the others: FreezeScript
\* and UnfreezeScript where they change something.
LEMMA FreezeAdded ==
    ASSUME NEW f, NEW g, DOMAIN f \subseteq Site, NEW p \in Site \ DOMAIN f,
           DOMAIN g = DOMAIN f \cup {p}, \A q \in DOMAIN f : g[q] = f[q] /\ Precedes(q, p),
           NEW s, Alternates(f, FreezesOf(f, s))
    PROVE  /\ g[p].op \in {"freeze", "unfreeze"} /\ g[p].script = s
                  /\ (g[p].op = "freeze" <=> ~EndsFrozen(f, FreezesOf(f, s)))
              => /\ Alternates(g, FreezesOf(g, s)) /\ FreezesOf(g, s) # {}
                 /\ EndsFrozen(g, FreezesOf(g, s)) <=> g[p].op = "freeze"
           /\ ~(g[p].op \in {"freeze", "unfreeze"} /\ g[p].script = s)
              => /\ FreezesOf(g, s) = FreezesOf(f, s)
                 /\ Alternates(g, FreezesOf(g, s))
                 /\ EndsFrozen(g, FreezesOf(g, s)) <=> EndsFrozen(f, FreezesOf(f, s))
<1> DEFINE S == FreezesOf(f, s)
<1>1. S \subseteq DOMAIN f /\ \A q \in S : f[q] = g[q]
  BY Zenon DEF FreezesOf
<1>2. (Alternates(f, S) <=> Alternates(g, S)) /\ (EndsFrozen(f, S) <=> EndsFrozen(g, S))
  BY <1>1, SameEnds, Zenon
<1>3. ASSUME g[p].op \in {"freeze", "unfreeze"}, g[p].script = s,
             g[p].op = "freeze" <=> ~EndsFrozen(f, S)
      PROVE  /\ Alternates(g, FreezesOf(g, s)) /\ FreezesOf(g, s) # {}
             /\ EndsFrozen(g, FreezesOf(g, s)) <=> g[p].op = "freeze"
  <2> DEFINE T == FreezesOf(g, s)
  <2>1. T = S \cup {p}
    BY <1>3 DEF FreezesOf
  <2> HIDE DEF S, T
  <2>2. T \subseteq Site /\ p \in T /\ T \ {p} = S
    BY <2>1, <1>1
  <2>3. \A q \in T \ {p} : Precedes(q, p)
    BY <2>2, <1>1, Zenon
  <2>4. /\ EndsFrozen(g, T) <=> g[p].op = "freeze"
        /\ {q \in T : Precedes(q, p)} = S
        /\ \A r \in S : {q \in T : Precedes(q, r)} = {q \in S : Precedes(q, r)}
    BY <2>2, <2>3, LastDecides
  <2>5. Alternates(g, S)
    BY <1>2, Zenon DEF S
  <2>6. Alternates(g, T)
    <3>1. ASSUME NEW r \in S
          PROVE  g[r].op = "freeze" <=> ~EndsFrozen(g, {q \in T : Precedes(q, r)})
      BY <2>4, <2>5, <3>1, Zenon DEF Alternates
    <3>2. g[p].op = "freeze" <=> ~EndsFrozen(g, {q \in T : Precedes(q, p)})
      BY <1>2, <1>3, <2>4, Zenon
    <3>3. QED BY <2>1, <3>1, <3>2, Zenon DEF Alternates
  <2>7. QED BY <2>2, <2>4, <2>6, Zenon DEF T
<1>4. ASSUME ~(g[p].op \in {"freeze", "unfreeze"} /\ g[p].script = s)
      PROVE  FreezesOf(g, s) = S
  BY <1>4 DEF FreezesOf
<1>5. QED BY <1>2, <1>3, <1>4, Zenon

\* RevertFreezeScript and RevertUnfreezeScript undo the last operation on a script.
LEMMA FreezeRemoved ==
    ASSUME NEW f, NEW g, DOMAIN f \subseteq Site, NEW p,
           DOMAIN g = DOMAIN f \ {p}, \A q \in DOMAIN g : g[q] = f[q],
           NEW s, Alternates(f, FreezesOf(f, s)),
           p \in FreezesOf(f, s) => \A q \in FreezesOf(f, s) \ {p} : Precedes(q, p)
    PROVE  /\ Alternates(g, FreezesOf(g, s))
           /\ FreezesOf(g, s) \subseteq FreezesOf(f, s)
           /\ IF p \in FreezesOf(f, s)
              THEN /\ EndsFrozen(f, FreezesOf(f, s)) <=> f[p].op = "freeze"
                   /\ f[p].op = "freeze" <=> ~EndsFrozen(g, FreezesOf(g, s))
              ELSE EndsFrozen(g, FreezesOf(g, s)) <=> EndsFrozen(f, FreezesOf(f, s))
<1> DEFINE S == FreezesOf(f, s)
           T == FreezesOf(g, s)
<1>1. T = S \ {p}
  BY DEF FreezesOf
<1>2. T \subseteq DOMAIN g /\ \A q \in T : f[q] = g[q]
  BY Zenon DEF FreezesOf
<1>3. (Alternates(f, T) <=> Alternates(g, T)) /\ (EndsFrozen(f, T) <=> EndsFrozen(g, T))
  BY <1>2, SameEnds, Zenon
<1>4. S \subseteq DOMAIN f
  BY DEF FreezesOf
<1> HIDE DEF S, T
<1>5. CASE p \in S
  <2>1. S \subseteq Site /\ \A q \in S \ {p} : Precedes(q, p)
    BY <1>4, <1>5, Zenon DEF S
  <2>2. /\ EndsFrozen(f, S) <=> f[p].op = "freeze"
        /\ {q \in S : Precedes(q, p)} = T
        /\ \A r \in T : {q \in S : Precedes(q, r)} = {q \in T : Precedes(q, r)}
    BY <1>1, <1>5, <2>1, LastDecides
  <2>3. Alternates(f, S)
    BY Zenon DEF S
  <2>4. Alternates(f, T)
    BY <1>1, <2>2, <2>3, Zenon DEF Alternates
  <2>5. f[p].op = "freeze" <=> ~EndsFrozen(f, T)
    BY <1>5, <2>2, <2>3, Zenon DEF Alternates
  <2>6. QED BY <1>1, <1>3, <1>5, <2>2, <2>4, <2>5, Zenon DEF S, T
<1>6. CASE p \notin S
  <2>1. T = S
    BY <1>1, <1>6
  <2>2. QED BY <1>3, <1>6, <2>1, Zenon DEF S, T
<1>7. QED BY <1>5, <1>6, Zenon

-----------------------------------------------------------------------------
(* The walk through the block in hand, and the operations in force. *)

\* The block in hand is the last one of the chain that is being extended or cut.
LEMMA Hand ==
    ASSUME RestOK, WalkIsRight
    PROVE  /\ Extended \in Seq(Block) /\ Len(Extended) \in Nat
           /\ mode \in {"connect", "disconnect"} =>
                 /\ Len(Extended) \in DOMAIN Extended
                 /\ Extended[Len(Extended)] = block /\ block \in Block
                 /\ block.txs \in Seq(Tx) /\ Len(block.txs) \in Nat
                 /\ Current \in Nat /\ Len(todo) \in Nat
                 /\ mode = "connect" => Len(Extended) = Len(chain) + 1
<1>1. chain \in Seq(Block) /\ Len(chain) \in Nat /\ Len(todo) \in Nat
  BY LenProperties DEF RestOK
<1>2. CASE mode = "connect"
  <2>1. block \in Block /\ Current \in Nat /\ Extended = Append(chain, block)
    BY <1>2, Zenon DEF WalkIsRight, Extended
  <2>2. /\ Extended \in Seq(Block) /\ Len(Extended) = Len(chain) + 1
        /\ Extended[Len(Extended)] = block
    BY <1>1, <2>1, AppendProperties
  <2>3. Len(Extended) \in DOMAIN Extended
    BY <1>1, <2>2, LenProperties
  <2>4. block.txs \in Seq(Tx) /\ Len(block.txs) \in Nat
    BY <2>1, TxsType, LenProperties
  <2>5. QED BY <1>1, <1>2, <2>1, <2>2, <2>3, <2>4
<1>3. CASE mode = "disconnect"
  <2>1. block = chain[Len(chain)] /\ Extended = chain /\ chain # <<>>
    BY <1>3 DEF WalkIsRight, Extended, RestOK, JobOK
  <2>2. Len(chain) \in DOMAIN chain /\ block \in Block
    BY <1>1, <2>1, EmptySeq, LenProperties
  <2>3. block.txs \in Seq(Tx) /\ Len(block.txs) \in Nat
    BY <2>2, TxsType, LenProperties
  <2>4. Current \in Nat
    BY <1>1, <1>3 DEF Current
  <2>5. QED BY <1>1, <1>3, <2>1, <2>2, <2>3, <2>4
<1>4. CASE mode \notin {"connect", "disconnect"}
  <2>1. Extended = chain
    BY <1>4, Zenon DEF Extended
  <2>2. QED BY <1>1, <1>4, <2>1, Zenon
<1>5. QED BY <1>2, <1>3, <1>4, Zenon

\* ConnectBlock begins: nothing of the new block is in force.
LEMMA StartConnectWalk ==
    ASSUME RestOK, RestOK', WalkIsRight, NEW b \in Block, StartConnect(b, "connect")
    PROVE  /\ WalkIsRight' /\ Done' = Done
           /\ Extended = chain /\ Extended' = Append(chain, b) /\ Current' = 0
<1>1. /\ mode = "idle" /\ mode' = "connect" /\ block' = b /\ todo' = b.txs
      /\ outs' = <<>> /\ UNCHANGED chain
  BY Zenon DEF StartConnect, Idle
<1>2. Extended = chain /\ Extended' = Append(chain, b)
  BY <1>1 DEF Extended
<1>3. chain \in Seq(Block) /\ Len(chain) \in Nat /\ b.txs \in Seq(Tx) /\ Len(b.txs) \in Nat
  BY TxsType, LenProperties DEF RestOK
<1>4. Current' = 0
  BY <1>1, <1>3 DEF Current
<1>5. WalkIsRight'
  <2>1. OutsAreRight'
    BY <1>1, Zenon DEF OutsAreRight
  <2>2. \A k \in DOMAIN todo' : todo'[k] = block'.txs[Current' + k]
    BY <1>1, <1>3, <1>4, LenProperties
  <2>3. QED BY <1>1, <1>4, <2>1, <2>2 DEF WalkIsRight
<1>6. Done' = Done
  <2>1. Append(chain, b) \in Seq(Block) /\ Len(Append(chain, b)) = Len(chain) + 1
    BY <1>3, AppendProperties
  <2>2. \A h \in 1 .. Len(chain) : Append(chain, b)[h] = chain[h]
    BY <1>3, AppendProperties
  <2>3. DOMAIN chain = 1 .. Len(chain) /\ DOMAIN Append(chain, b) = 1 .. (Len(chain) + 1)
    BY <1>3, <2>1, LenProperties
  <2>4. ASSUME NEW h \in Nat, NEW i \in Nat, NEW j \in Nat
        PROVE  InForce(<<h, i, j>>, "idle", Len(chain), Current, Looked)
    BY DEF InForce
  <2>5. ASSUME NEW h \in Nat, NEW i \in Nat, NEW j \in Nat,
               i > 0, h \in 1 .. (Len(chain) + 1)
        PROVE  InForce(<<h, i, j>>, "connect", Len(chain) + 1, 0, Looked') <=> h \in 1 .. Len(chain)
    BY <1>3, <2>5 DEF InForce
  <2>6. ASSUME NEW h \in 1 .. (Len(chain) + 1), NEW i \in DOMAIN Append(chain, b)[h].txs
        PROVE  i \in Nat /\ i > 0
    <3>1. Append(chain, b)[h].txs \in Seq(Tx)
      BY <2>1, <2>3, TxsType, LenProperties
    <3>2. QED BY <3>1, LenProperties
  <2> DEFINE f == Applied(chain, "idle", Current, Looked)
             g == Applied(Append(chain, b), "connect", 0, Looked')
  <2>7. ASSUME NEW h \in Nat, NEW i \in Nat, NEW j \in Nat
        PROVE  <<h, i, j>> \in DOMAIN f <=> <<h, i, j>> \in DOMAIN g
    <3>1. <<h, i, j>> \in DOMAIN f <=>
              h \in DOMAIN chain /\ i \in DOMAIN chain[h].txs /\ j \in Acting(chain[h].txs[i], h)
      BY <1>3, <2>4, AppliedAt, Zenon
    <3>2. <<h, i, j>> \in DOMAIN g <=>
              /\ h \in DOMAIN Append(chain, b) /\ i \in DOMAIN Append(chain, b)[h].txs
              /\ j \in Acting(Append(chain, b)[h].txs[i], h)
              /\ InForce(<<h, i, j>>, "connect", Len(chain) + 1, 0, Looked')
      BY <2>1, AppliedAt, Zenon
    <3>3. 1 .. Len(chain) \subseteq 1 .. (Len(chain) + 1)
      BY <1>3
    <3>4. QED BY <2>2, <2>3, <2>5, <2>6, <3>1, <3>2, <3>3, Zenon
  <2>8. ASSUME NEW h \in Nat, NEW i \in Nat, NEW j \in Nat, <<h, i, j>> \in DOMAIN f
        PROVE  chain[h] = Append(chain, b)[h]
    BY <1>3, <2>2, <2>3, <2>8, AppliedAt, Zenon
  <2>9. f = g
    <3> DEFINE d == Append(chain, b)
               seen == Looked'
    <3>1. /\ f = Applied(chain, "idle", Current, Looked) /\ g = Applied(d, "connect", 0, seen)
          /\ chain \in Seq(Block) /\ d \in Seq(Block)
      BY <1>3, <2>1
    <3>2. \A h, i, j \in Nat : <<h, i, j>> \in DOMAIN f => chain[h] = d[h]
      BY <2>8, Zenon
    <3> HIDE DEF f, g, d, seen
    <3>3. \A h, i, j \in Nat : <<h, i, j>> \in DOMAIN f <=> <<h, i, j>> \in DOMAIN g
      BY <2>7, Zenon
    <3>4. QED BY ONLY <3>1, <3>2, <3>3, AppliedEqual
  <2>10. QED BY <1>1, <1>2, <1>4, <2>9, Zenon DEF Done
<1>7. QED BY <1>2, <1>4, <1>5, <1>6, Zenon

\* The numbers of a site.
LEMMA SiteRange ==
    ASSUME NEW c \in Seq(Block), NEW h \in DOMAIN c, NEW i \in DOMAIN c[h].txs,
           NEW j \in DOMAIN c[h].txs[i].outs
    PROVE  /\ h \in Nat /\ Len(c) \in Nat /\ 1 <= h /\ h <= Len(c)
           /\ c[h] \in Block /\ c[h].txs \in Seq(Tx) /\ Len(c[h].txs) \in Nat
           /\ i \in Nat /\ 1 <= i /\ i <= Len(c[h].txs)
           /\ c[h].txs[i] \in Tx /\ c[h].txs[i].outs \in Seq(Op) /\ Len(c[h].txs[i].outs) \in Nat
           /\ j \in Nat /\ 1 <= j /\ j <= Len(c[h].txs[i].outs)
<1>1. h \in Nat /\ Len(c) \in Nat /\ 1 <= h /\ h <= Len(c) /\ c[h] \in Block
  BY LenProperties
<1>2. c[h].txs \in Seq(Tx) /\ Len(c[h].txs) \in Nat
  BY <1>1, TxsType, LenProperties
<1>3. i \in Nat /\ 1 <= i /\ i <= Len(c[h].txs) /\ c[h].txs[i] \in Tx
  BY <1>2, LenProperties
<1>4. c[h].txs[i].outs \in Seq(Op)
  BY <1>3 DEF Tx
<1>5. Len(c[h].txs[i].outs) \in Nat /\ j \in Nat /\ 1 <= j /\ j <= Len(c[h].txs[i].outs)
  BY <1>4, LenProperties
<1>6. QED BY <1>1, <1>2, <1>3, <1>4, <1>5, Zenon

\* Two positions in a walk with the same operations in force.
LEMMA SameChain ==
    ASSUME NEW c \in Seq(Block), NEW m, NEW tx, NEW looked, NEW n, NEW ty, NEW seen,
           \A h \in DOMAIN c : \A i \in DOMAIN c[h].txs : \A j \in Acting(c[h].txs[i], h) :
              InForce(<<h, i, j>>, m, Len(c), tx, looked) <=>
                  InForce(<<h, i, j>>, n, Len(c), ty, seen)
    PROVE  Applied(c, m, tx, looked) = Applied(c, n, ty, seen)
<1> DEFINE f == Applied(c, m, tx, looked)
           g == Applied(c, n, ty, seen)
<1>1. \A h, i, j \in Nat : <<h, i, j>> \in DOMAIN f <=> <<h, i, j>> \in DOMAIN g
  BY AppliedAt, Zenon
<1>2. c \in Seq(Block) /\ f = Applied(c, m, tx, looked) /\ g = Applied(c, n, ty, seen)
  OBVIOUS
<1> HIDE DEF f, g
<1>3. f = g
  BY ONLY <1>1, <1>2, AppliedEqual
<1>4. QED BY <1>3 DEF f, g

\* ConnectBlock comes to the next transaction: all of the earlier ones' operations
\* are in force, none of its own.
LEMMA ConnectTxWalk ==
    ASSUME RestOK, RestOK', WalkIsRight, mode = "connect", ConnectTx, mode' = "connect"
    PROVE  /\ WalkIsRight' /\ Done' = Done
           /\ Extended' = Extended /\ Current' = Current + 1
           /\ Head(todo) = block.txs[Current + 1] /\ Current + 1 \in DOMAIN block.txs
           /\ irregular' = irregular \cup IrregularIn(Head(todo))
<1> DEFINE tx == Head(todo)
<1>1. /\ outs = <<>> /\ todo # <<>> /\ UNCHANGED <<chain, mode, block>>
      /\ outs' = IF ~tx.stake /\ AreGovernanceDeployed /\ MasterKey \in tx.from
                 THEN tx.outs ELSE <<>>
      /\ todo' = Tail(todo)
      /\ irregular' = irregular \cup IrregularIn(tx)
  BY DEF ConnectTx, BackToIdle
<1>2. /\ Extended \in Seq(Block) /\ Len(Extended) = Len(chain) + 1 /\ Len(chain) \in Nat
      /\ Len(Extended) \in DOMAIN Extended
      /\ Extended[Len(Extended)] = block /\ block \in Block
      /\ block.txs \in Seq(Tx) /\ Len(block.txs) \in Nat
      /\ Current \in Nat /\ Len(todo) \in Nat
  BY Hand, LenProperties DEF RestOK
<1>3. /\ todo \in Seq(Tx) /\ todo' \in Seq(Tx) /\ Len(todo) > 0 /\ Len(todo') = Len(todo) - 1
      /\ \A k \in 1 .. Len(todo') : todo'[k] = todo[k + 1]
      /\ tx = todo[1] /\ tx \in Tx
  BY <1>1, <1>2, HeadTailProperties, EmptySeq, LenProperties DEF RestOK
<1>4. Current = Len(block.txs) - Len(todo) /\ Current' = Len(block.txs) - Len(todo')
  BY <1>1 DEF Current
<1>5. Current' = Current + 1 /\ Current + 1 \in DOMAIN block.txs
  BY <1>2, <1>3, <1>4, LenProperties
<1>6. \A k \in 1 .. Len(todo) : todo[k] = block.txs[Current + k]
  BY <1>3, LenProperties DEF WalkIsRight
<1>7. tx = block.txs[Current + 1]
  BY <1>2, <1>3, <1>6
<1>8. Extended' = Extended
  BY <1>1 DEF Extended
<1>9. Looked' = Len(tx.outs) - Len(outs')
  BY <1>1, <1>5, <1>7 DEF Looked
<1>10. tx.outs \in Seq(Op) /\ Len(tx.outs) \in Nat
  BY <1>3, LenProperties DEF Tx
<1>11. WalkIsRight'
  <2>1. ASSUME outs' # <<>>
        PROVE  /\ outs' = tx.outs /\ Looked' = 0 /\ MasterKey \in tx.from
               /\ ~tx.stake /\ Len(chain) + 1 >= GovernanceHeight
    BY <1>1, <1>9, <1>10, <2>1 DEF AreGovernanceDeployed
  <2>2. OutsAreRight'
    <3>1. ASSUME outs' # <<>>
          PROVE  \A k \in DOMAIN outs' : outs'[k] = block'.txs[Current'].outs[Looked' + k]
      <4>1. ASSUME NEW k \in DOMAIN outs' PROVE Looked' + k = k
        BY <1>10, <2>1, <3>1, LenProperties
      <4>2. block'.txs[Current'].outs = outs'
        BY <1>1, <1>5, <1>7, <2>1, <3>1, Zenon
      <4>3. QED BY <4>1, <4>2, Zenon
    <3>2. ASSUME outs' # <<>>
          PROVE  Looked' \in Nat
      BY <2>1, <3>2
    <3>3. /\ Current' \in DOMAIN block'.txs /\ block'.txs[Current'] = tx
      BY <1>1, <1>5, <1>7, Zenon
    <3>4. chain' = chain
      BY <1>1, Zenon
    <3>5. QED BY <2>1, <3>1, <3>2, <3>3, <3>4, Zenon DEF OutsAreRight
  <2>3. \A k \in DOMAIN todo' : todo'[k] = block'.txs[Current' + k]
    <3>1. DOMAIN todo' = 1 .. Len(todo')
      BY <1>3, LenProperties
    <3>2. ASSUME NEW k \in 1 .. Len(todo')
          PROVE  todo'[k] = block.txs[Current' + k]
      <4>1. k + 1 \in 1 .. Len(todo) /\ Current + (k + 1) = Current' + k
        BY <1>2, <1>3, <1>5, TailIndex
      <4>2. QED BY <1>3, <1>6, <4>1, Zenon
    <3>3. QED BY <1>1, <3>1, <3>2, Zenon
  <2>4. QED BY <1>1, <1>2, <1>5, <2>2, <2>3 DEF WalkIsRight
<1>12. Done' = Done
  <2>1. ASSUME NEW h \in DOMAIN Extended, NEW i \in DOMAIN Extended[h].txs,
               NEW j \in Acting(Extended[h].txs[i], h)
        PROVE  InForce(<<h, i, j>>, "connect", Len(Extended), Current, Looked) <=>
                   InForce(<<h, i, j>>, "connect", Len(Extended), Current + 1, Looked')
    <3>1. j \in DOMAIN Extended[h].txs[i].outs
      BY Zenon DEF Acting
    <3>2. /\ h \in Nat /\ i \in Nat /\ 1 <= i /\ j \in Nat /\ 1 <= j
          /\ Len(Extended[h].txs[i].outs) \in Nat /\ j <= Len(Extended[h].txs[i].outs)
      BY <1>2, <3>1, SiteRange, Zenon
    <3>3. ASSUME h = Len(Extended), i = Current
          PROVE  Looked = Len(Extended[h].txs[i].outs)
      <4>1. Len(outs) = 0
        BY <1>1
      <4>2. Extended[h].txs[i] = block.txs[Current]
        BY <1>2, <3>3, Zenon
      <4>3. QED BY <4>1, <4>2, <3>2 DEF Looked
    <3>4. ASSUME h = Len(Extended), i = Current + 1
          PROVE  Looked' = 0
      <4>1. Extended[h].txs[i] = tx
        BY <1>2, <1>7, <3>4, Zenon
      <4>2. ~tx.stake /\ MasterKey \in tx.from /\ Len(Extended) >= GovernanceHeight
        BY <3>4, <4>1, Zenon DEF Acting
      <4>3. outs' = tx.outs
        BY <1>1, <1>2, <4>2 DEF AreGovernanceDeployed
      <4>4. QED BY <1>9, <1>10, <4>3
    <3>5. QED BY <1>2, <3>2, <3>3, <3>4 DEF InForce
  <2>2. Applied(Extended, "connect", Current, Looked) = Applied(Extended, "connect", Current + 1, Looked')
    <3>1. Extended \in Seq(Block)
      BY <1>2, Zenon
    <3>2. QED BY ONLY <3>1, <2>1, SameChain
  <2>3. QED BY <1>1, <1>5, <1>8, <2>2, Zenon DEF Done
<1>13. QED BY <1>1, <1>5, <1>7, <1>8, <1>11, <1>12, Zenon

\* ConnectTip's block is on the chain when all of its operations are in force.
LEMMA FinishConnectWalk ==
    ASSUME RestOK, RestOK', WalkIsRight, mode = "connect", FinishConnect, ~block.overpays
    PROVE  /\ WalkIsRight' /\ Done' = Done
           /\ Extended' = Extended /\ Current = Len(block.txs) /\ irregular' = irregular
<1>1. /\ mode' = "idle" /\ todo = <<>> /\ outs = <<>> /\ chain' = Append(chain, block)
      /\ irregular' = irregular
  BY DEF FinishConnect, BlockDone, BackToIdle
<1>2. /\ Extended \in Seq(Block) /\ Len(Extended) \in DOMAIN Extended
      /\ Extended[Len(Extended)] = block /\ Len(block.txs) \in Nat
  BY Hand
<1>3. Current = Len(block.txs)
  BY <1>1, <1>2 DEF Current
<1>4. Extended' = Extended
  BY <1>1 DEF Extended
<1>5. WalkIsRight'
  BY <1>1, Zenon DEF WalkIsRight
<1>6. Done' = Done
  <2>1. ASSUME NEW h \in DOMAIN Extended, NEW i \in DOMAIN Extended[h].txs,
               NEW j \in Acting(Extended[h].txs[i], h)
        PROVE  InForce(<<h, i, j>>, "connect", Len(Extended), Current, Looked) <=>
                   InForce(<<h, i, j>>, "idle", Len(Extended), Current', Looked')
    <3>1. j \in DOMAIN Extended[h].txs[i].outs
      BY Zenon DEF Acting
    <3>2. /\ h \in Nat /\ i \in Nat /\ i <= Len(Extended[h].txs) /\ j \in Nat
          /\ Len(Extended[h].txs[i].outs) \in Nat /\ j <= Len(Extended[h].txs[i].outs)
      BY <1>2, <3>1, SiteRange, Zenon
    <3>3. ASSUME h = Len(Extended)
          PROVE  i <= Current
      BY <1>2, <1>3, <3>2, <3>3, Zenon
    <3>4. ASSUME h = Len(Extended), i = Current
          PROVE  Looked = Len(Extended[h].txs[i].outs)
      <4>1. Len(outs) = 0
        BY <1>1
      <4>2. Extended[h].txs[i] = block.txs[Current]
        BY <1>2, <3>4, Zenon
      <4>3. QED BY <4>1, <4>2, <3>2 DEF Looked
    <3>5. QED BY <1>2, <1>3, <3>2, <3>3, <3>4 DEF InForce
  <2>2. Applied(Extended, "connect", Current, Looked) = Applied(Extended, "idle", Current', Looked')
    BY <1>2, <2>1, SameChain
  <2>3. QED BY <1>1, <1>4, <2>2, Zenon DEF Done
<1>7. QED BY <1>1, <1>3, <1>4, <1>5, <1>6, Zenon

\* DisconnectBlock begins with all of the operations in force, and walks backwards.
LEMMA StartDisconnectWalk ==
    ASSUME RestOK, RestOK', WalkIsRight, StartDisconnect
    PROVE  /\ WalkIsRight' /\ Done' = Done
           /\ mode = "idle" /\ mode' = "disconnect" /\ Extended' = Extended /\ chain' = chain
<1>1. /\ mode = "idle" /\ chain # <<>> /\ mode' = "disconnect" /\ chain' = chain
      /\ block' = Last(chain) /\ todo' = Reverse(Last(chain).txs) /\ outs' = <<>>
  BY DEF StartDisconnect, Idle
<1>2. /\ chain \in Seq(Block) /\ Len(chain) \in Nat \ {0} /\ block' = chain[Len(chain)]
      /\ DOMAIN chain = 1 .. Len(chain) /\ chain[Len(chain)] \in Block
  BY <1>1, EmptySeq, LenProperties DEF RestOK, Last
<1>3. block'.txs \in Seq(Tx) /\ Len(block'.txs) \in Nat
  BY <1>2, TxsType, LenProperties
<1>4. todo' = Reverse(block'.txs)
  BY <1>1, Zenon
<1>5. /\ Len(todo') = Len(block'.txs) /\ todo' \in Seq(Tx)
      /\ \A k \in 1 .. Len(todo') : todo'[k] = block'.txs[Len(block'.txs) - k + 1]
  BY <1>3, <1>4 DEF Reverse
<1>6. Extended' = chain /\ Extended = chain /\ Current' = Len(block'.txs) + 1
  BY <1>1, <1>5 DEF Extended, Current
<1>7. WalkIsRight'
  <2>1. OutsAreRight'
    BY <1>1, Zenon DEF OutsAreRight
  <2>2. \A k \in DOMAIN todo' : todo'[k] = block'.txs[Current' - k]
    <3>1. \A k \in 1 .. Len(todo') : Current' - k = Len(block'.txs) - k + 1
      BY <1>3, <1>6
    <3>2. QED BY <1>5, <3>1, LenProperties, Zenon
  <2>3. block' = chain'[Len(chain')] /\ Len(todo') <= Len(block'.txs)
    BY <1>1, <1>2, <1>3, <1>5
  <2>4. QED BY <1>1, <2>1, <2>2, <2>3 DEF WalkIsRight
<1>8. Done' = Done
  <2>1. ASSUME NEW h \in DOMAIN chain, NEW i \in DOMAIN chain[h].txs,
               NEW j \in Acting(chain[h].txs[i], h)
        PROVE  InForce(<<h, i, j>>, "idle", Len(chain), Current, Looked) <=>
                   InForce(<<h, i, j>>, "disconnect", Len(chain), Len(block'.txs) + 1, Looked')
    <3>1. j \in DOMAIN chain[h].txs[i].outs
      BY Zenon DEF Acting
    <3>2. h \in Nat /\ i \in Nat /\ i <= Len(chain[h].txs)
      BY <1>2, <3>1, SiteRange, Zenon
    <3>3. h = Len(chain) => chain[h].txs = block'.txs
      BY <1>2, Zenon
    <3>4. QED BY <1>2, <1>3, <3>2, <3>3 DEF InForce
  <2>2. Applied(chain, "idle", Current, Looked) =
            Applied(chain, "disconnect", Len(block'.txs) + 1, Looked')
    BY <1>2, <2>1, SameChain
  <2>3. QED BY <1>1, <1>6, <2>2, Zenon DEF Done
<1>9. QED BY <1>1, <1>6, <1>7, <1>8, Zenon

\* DisconnectBlock comes to the transaction before: none of the later ones'
\* operations are in force, all of its own.
LEMMA DisconnectTxWalk ==
    ASSUME RestOK, RestOK', WalkIsRight, mode = "disconnect", DisconnectTx
    PROVE  /\ WalkIsRight' /\ Done' = Done
           /\ mode' = "disconnect" /\ Extended' = Extended /\ chain' = chain
<1> DEFINE tx == Head(todo)
<1>1. /\ outs = <<>> /\ todo # <<>> /\ UNCHANGED <<chain, mode, block>>
      /\ outs' = IF MasterKey \in tx.from THEN tx.outs ELSE <<>>
      /\ todo' = Tail(todo)
  BY DEF DisconnectTx
<1>2. /\ Extended \in Seq(Block) /\ Len(Extended) \in Nat
      /\ Len(Extended) \in DOMAIN Extended
      /\ Extended[Len(Extended)] = block /\ block \in Block
      /\ block.txs \in Seq(Tx) /\ Len(block.txs) \in Nat
      /\ Current \in Nat /\ Len(todo) \in Nat
  BY Hand
<1>3. /\ todo \in Seq(Tx) /\ todo' \in Seq(Tx) /\ Len(todo) > 0 /\ Len(todo') = Len(todo) - 1
      /\ \A k \in 1 .. Len(todo') : todo'[k] = todo[k + 1]
      /\ tx = todo[1] /\ tx \in Tx
  BY <1>1, <1>2, HeadTailProperties, EmptySeq, LenProperties DEF RestOK
<1>4. Current = Len(todo) + 1 /\ Current' = Len(todo') + 1
  BY <1>1 DEF Current
<1>5. /\ Len(todo) <= Len(block.txs) /\ block = chain[Len(chain)]
      /\ \A k \in 1 .. Len(todo) : todo[k] = block.txs[Current - k]
  BY <1>3, LenProperties DEF WalkIsRight
<1>6. Current' = Current - 1 /\ Current - 1 \in DOMAIN block.txs
  BY <1>2, <1>3, <1>4, <1>5, LenProperties
<1>7. tx = block.txs[Current - 1]
  BY <1>2, <1>3, <1>5
<1>8. Extended' = Extended
  BY <1>1 DEF Extended
<1>9. Looked' = Len(tx.outs) - Len(outs')
  BY <1>1, <1>6, <1>7 DEF Looked
<1>10. tx.outs \in Seq(Op) /\ Len(tx.outs) \in Nat
  BY <1>3, LenProperties DEF Tx
<1>11. WalkIsRight'
  <2>1. ASSUME outs' # <<>>
        PROVE  outs' = tx.outs /\ Looked' = 0 /\ MasterKey \in tx.from
    BY <1>1, <1>9, <1>10, <2>1
  <2>2. OutsAreRight'
    <3>1. ASSUME outs' # <<>>
          PROVE  \A k \in DOMAIN outs' : outs'[k] = block'.txs[Current'].outs[Looked' + k]
      <4>1. ASSUME NEW k \in DOMAIN outs' PROVE Looked' + k = k
        BY <1>10, <2>1, <3>1, LenProperties
      <4>2. block'.txs[Current'].outs = outs'
        BY <1>1, <1>6, <1>7, <2>1, <3>1, Zenon
      <4>3. QED BY <4>1, <4>2, Zenon
    <3>2. ASSUME outs' # <<>>
          PROVE  Looked' \in Nat
      BY <2>1, <3>2
    <3>3. /\ Current' \in DOMAIN block'.txs /\ block'.txs[Current'] = tx
      BY <1>1, <1>6, <1>7, Zenon
    <3>4. mode' # "connect"
      BY <1>1
    <3>5. QED BY <2>1, <3>1, <3>2, <3>3, <3>4, Zenon DEF OutsAreRight
  <2>3. \A k \in DOMAIN todo' : todo'[k] = block'.txs[Current' - k]
    <3>1. ASSUME NEW k \in 1 .. Len(todo')
          PROVE  todo'[k] = block.txs[Current - (k + 1)]
      <4>1. k + 1 \in 1 .. Len(todo)
        BY <1>2, <1>3, TailIndex, Zenon
      <4>2. QED BY <1>3, <1>5, <4>1, Zenon
    <3>2. \A k \in 1 .. Len(todo') : Current - (k + 1) = Current' - k
      BY <1>2, <1>6
    <3>3. DOMAIN todo' = 1 .. Len(todo') /\ block' = block
      BY <1>1, <1>3, LenProperties
    <3>4. QED BY <3>1, <3>2, <3>3, Zenon
  <2>4. block' = chain'[Len(chain')] /\ Len(todo') <= Len(block'.txs)
    BY <1>1, <1>2, <1>3, <1>5
  <2>5. QED BY <1>1, <2>2, <2>3, <2>4 DEF WalkIsRight
<1>12. Done' = Done
  <2>1. ASSUME NEW h \in DOMAIN Extended, NEW i \in DOMAIN Extended[h].txs,
               NEW j \in Acting(Extended[h].txs[i], h)
        PROVE  InForce(<<h, i, j>>, "disconnect", Len(Extended), Current, Looked) <=>
                   InForce(<<h, i, j>>, "disconnect", Len(Extended), Current - 1, Looked')
    <3>1. j \in DOMAIN Extended[h].txs[i].outs
      BY Zenon DEF Acting
    <3>2. /\ h \in Nat /\ i \in Nat /\ 1 <= i /\ j \in Nat /\ 1 <= j
          /\ Len(Extended[h].txs[i].outs) \in Nat /\ j <= Len(Extended[h].txs[i].outs)
      BY <1>2, <3>1, SiteRange, Zenon
    <3>3. ASSUME h = Len(Extended), i = Current
          PROVE  Looked = Len(Extended[h].txs[i].outs)
      <4>1. Len(outs) = 0
        BY <1>1
      <4>2. Extended[h].txs[i] = block.txs[Current]
        BY <1>2, <3>3, Zenon
      <4>3. QED BY <4>1, <4>2, <3>2 DEF Looked
    <3>4. ASSUME h = Len(Extended), i = Current - 1
          PROVE  Looked' = 0
      <4>1. Extended[h].txs[i] = tx
        BY <1>2, <1>7, <3>4, Zenon
      <4>2. MasterKey \in tx.from
        BY <3>4, <4>1, Zenon DEF Acting
      <4>3. outs' = tx.outs
        BY <1>1, <4>2, Zenon
      <4>4. QED BY <1>9, <1>10, <4>3
    <3>5. QED BY <1>2, <3>2, <3>3, <3>4 DEF InForce
  <2>2. Applied(Extended, "disconnect", Current, Looked) =
            Applied(Extended, "disconnect", Current - 1, Looked')
    BY <1>2, <2>1, SameChain
  <2>3. QED BY <1>1, <1>6, <1>8, <2>2, Zenon DEF Done
<1>13. QED BY <1>1, <1>8, <1>11, <1>12, Zenon

\* DisconnectTip's block leaves the chain when none of its operations are in force.
LEMMA FinishDisconnectWalk ==
    ASSUME RestOK, RestOK', WalkIsRight, FinishDisconnect
    PROVE  /\ WalkIsRight' /\ Done' = Done /\ mode = "disconnect" /\ mode' = "idle"
           /\ chain # <<>> /\ Extended = chain /\ Extended' = Front(chain)
           /\ \A h, i, j : <<h, i, j>> \in DOMAIN Done => h # Len(chain)
<1>1. /\ mode = "disconnect" /\ mode' = "idle" /\ todo = <<>> /\ outs = <<>>
      /\ chain' = Front(chain)
  BY DEF FinishDisconnect, BlockDone, BackToIdle
<1>2. /\ Extended = chain /\ chain \in Seq(Block) /\ chain # <<>> /\ Len(chain) \in Nat \ {0}
      /\ chain[Len(chain)] = block /\ Extended' = Front(chain) /\ Current = 1
  BY <1>1, EmptySeq, LenProperties DEF Extended, RestOK, JobOK, WalkIsRight, Current
<1>3. WalkIsRight'
  BY <1>1, Zenon DEF WalkIsRight
<1>4. /\ Front(chain) \in Seq(Block) /\ Len(Front(chain)) = Len(chain) - 1
      /\ \A h \in 1 .. (Len(chain) - 1) : Front(chain)[h] = chain[h]
      /\ DOMAIN chain = 1 .. Len(chain) /\ DOMAIN Front(chain) = 1 .. (Len(chain) - 1)
  <2>1. Front(chain) \in Seq(Block) /\ Len(Front(chain)) = Len(chain) - 1
    BY <1>2, LastFrontType
  <2>2. Front(chain) = SubSeq(chain, 1, Len(chain) - 1)
    BY Zenon DEF Front
  <2>3. \A h \in 1 .. (Len(chain) - 1) : Front(chain)[h] = chain[h]
    BY <1>2, <2>2
  <2>4. QED BY <1>2, <2>1, <2>3, LenProperties
<1> DEFINE f == Applied(chain, "disconnect", 1, Looked)
           g == Applied(Front(chain), "idle", Current', Looked')
<1>5. Done = f /\ Done' = g
  BY <1>1, <1>2, Zenon DEF Done
<1>6. ASSUME NEW h \in DOMAIN chain, NEW i \in DOMAIN chain[h].txs,
             NEW j \in Acting(chain[h].txs[i], h)
      PROVE  InForce(<<h, i, j>>, "disconnect", Len(chain), 1, Looked) <=> h \in 1 .. (Len(chain) - 1)
  <2>1. j \in DOMAIN chain[h].txs[i].outs
    BY Zenon DEF Acting
  <2>2. /\ h \in Nat /\ 1 <= h /\ h <= Len(chain) /\ i \in Nat /\ 1 <= i /\ j \in Nat
        /\ Len(chain[h].txs[i].outs) \in Nat /\ j <= Len(chain[h].txs[i].outs)
    BY <1>2, <2>1, SiteRange, Zenon
  <2>3. ASSUME h = Len(chain), i = 1
        PROVE  Looked = Len(chain[h].txs[i].outs)
    <3>1. Len(outs) = 0
      BY <1>1
    <3>2. chain[h].txs[i] = block.txs[Current]
      BY <1>2, <2>3, Zenon
    <3>3. QED BY <2>2, <3>1, <3>2 DEF Looked
  <2>4. QED BY <1>2, <2>2, <2>3 DEF InForce
<1>7. ASSUME NEW h, NEW i, NEW j
      PROVE  InForce(<<h, i, j>>, "idle", Len(Front(chain)), Current', Looked')
  BY DEF InForce
<1>8. ASSUME NEW h, NEW i, NEW j
      PROVE  <<h, i, j>> \in DOMAIN f <=>
                 /\ h \in 1 .. (Len(chain) - 1) /\ i \in DOMAIN chain[h].txs
                 /\ j \in Acting(chain[h].txs[i], h)
  <2>1. 1 .. (Len(chain) - 1) \subseteq DOMAIN chain
    BY <1>2, <1>4
  <2>2. QED BY <1>2, <1>6, <2>1, AppliedAt, Zenon
<1>9. ASSUME NEW h, NEW i, NEW j
      PROVE  <<h, i, j>> \in DOMAIN g <=>
                 /\ h \in 1 .. (Len(chain) - 1) /\ i \in DOMAIN chain[h].txs
                 /\ j \in Acting(chain[h].txs[i], h)
  <2>1. <<h, i, j>> \in DOMAIN g <=>
            /\ h \in DOMAIN Front(chain) /\ i \in DOMAIN Front(chain)[h].txs
            /\ j \in Acting(Front(chain)[h].txs[i], h)
    BY <1>4, <1>7, AppliedAt, Zenon
  <2>2. QED BY <1>4, <2>1, Zenon
<1>10. f = g
  <2> DEFINE d == Front(chain)
             ty == Current'
             seen == Looked'
  <2>1. /\ f = Applied(chain, "disconnect", 1, Looked) /\ g = Applied(d, "idle", ty, seen)
        /\ chain \in Seq(Block) /\ d \in Seq(Block)
    BY <1>2, <1>4
  <2> HIDE DEF f, g
  <2>2. \A h, i, j \in Nat : <<h, i, j>> \in DOMAIN f <=> <<h, i, j>> \in DOMAIN g
    BY <1>8, <1>9, Zenon
  <2>3. \A h, i, j \in Nat : <<h, i, j>> \in DOMAIN f => chain[h] = d[h]
    BY <1>4, <1>8, Zenon
  <2> HIDE DEF d, ty, seen
  <2>4. QED BY ONLY <2>1, <2>2, <2>3, AppliedEqual
<1>11. \A h, i, j : <<h, i, j>> \in DOMAIN Done => h # Len(chain)
  <2>1. Len(chain) \notin 1 .. (Len(chain) - 1)
    BY <1>2
  <2>2. QED BY <1>5, <1>8, <2>1, Zenon
<1>12. QED BY <1>1, <1>2, <1>3, <1>5, <1>10, <1>11, Zenon

\* An output of the transaction in hand is done with.
LEMMA OutputWalk ==
    ASSUME RestOK, RestOK', WalkIsRight, mode \in {"connect", "disconnect"}, outs # <<>>,
           outs' = Tail(outs), UNCHANGED <<chain, mode, block, todo>>
    PROVE  /\ WalkIsRight' /\ Extended' = Extended /\ Current' = Current
           /\ Looked \in Nat /\ Looked' = Looked + 1
           /\ Current \in DOMAIN block.txs
           /\ block.txs[Current] \in Tx /\ MasterKey \in block.txs[Current].from
           /\ Looked + 1 \in DOMAIN block.txs[Current].outs
           /\ Head(outs) = block.txs[Current].outs[Looked + 1]
           /\ mode = "connect" => ~block.txs[Current].stake /\ Len(Extended) >= GovernanceHeight
<1>1. OutsAreRight
  BY Zenon DEF WalkIsRight
<1>2. /\ Current \in DOMAIN block.txs /\ Looked \in Nat
      /\ \A k \in DOMAIN outs : outs[k] = block.txs[Current].outs[Looked + k]
      /\ MasterKey \in block.txs[Current].from
      /\ mode = "connect" =>
            ~block.txs[Current].stake /\ Len(chain) + 1 >= GovernanceHeight
  BY <1>1, Zenon DEF OutsAreRight
<1>3. /\ block.txs \in Seq(Tx)
      /\ mode = "connect" => Len(Extended) = Len(chain) + 1
  BY Hand, Zenon
<1>4. block.txs[Current] \in Tx
  BY <1>2, <1>3, LenProperties
<1>5. block.txs[Current].outs \in Seq(Op) /\ Len(block.txs[Current].outs) \in Nat
  BY <1>4, LenProperties DEF Tx
<1>6. /\ outs \in Seq(Op) /\ outs' \in Seq(Op) /\ Len(outs) \in Nat \ {0} /\ Len(outs') = Len(outs) - 1
      /\ \A k \in 1 .. Len(outs') : outs'[k] = outs[k + 1]
      /\ Head(outs) = outs[1]
  BY HeadTailProperties, EmptySeq, LenProperties DEF RestOK
<1>7. Current' = Current /\ Extended' = Extended
  BY Zenon DEF Current, Extended
<1>8. Looked = Len(block.txs[Current].outs) - Len(outs) /\ Looked' = Len(block.txs[Current].outs) - Len(outs')
  BY <1>7, Zenon DEF Looked
<1>9. Looked' = Looked + 1 /\ Looked + 1 \in DOMAIN block.txs[Current].outs
  BY <1>2, <1>5, <1>6, <1>8, LenProperties
<1>10. \A k \in 1 .. Len(outs) : outs[k] = block.txs[Current].outs[Looked + k]
  BY <1>2, <1>6, LenProperties
<1>11. Head(outs) = block.txs[Current].outs[Looked + 1]
  BY <1>6, <1>10
<1>12. OutsAreRight'
  <2>1. ASSUME NEW k \in DOMAIN outs'
        PROVE  outs'[k] = block.txs[Current].outs[Looked' + k]
    <3>0. k \in 1 .. Len(outs') /\ Len(outs) \in Nat /\ Len(outs') = Len(outs) - 1
      BY <1>6, LenProperties
    <3>1. k + 1 \in 1 .. Len(outs) /\ Looked + (k + 1) = (Looked + 1) + k
      BY <1>2, <3>0, TailIndex
    <3>2. outs'[k] = outs[k + 1]
      BY <1>6, <3>0, Zenon
    <3>3. outs[k + 1] = block.txs[Current].outs[Looked + (k + 1)]
      BY <1>10, <3>1, Zenon
    <3>4. QED BY <1>9, <3>1, <3>2, <3>3, Zenon
  <2>2. Looked' \in Nat
    BY <1>2, <1>9
  <2>3. QED BY <1>2, <1>7, <2>1, <2>2, Zenon DEF OutsAreRight
<1>13. WalkIsRight'
  <2>1. mode = "connect" =>
          /\ block \in Block /\ Current \in Nat
          /\ \A k \in DOMAIN todo : todo[k] = block.txs[Current + k]
    BY Zenon DEF WalkIsRight
  <2>2. mode = "disconnect" =>
          /\ block = chain[Len(chain)] /\ Len(todo) <= Len(block.txs)
          /\ \A k \in DOMAIN todo : todo[k] = block.txs[Current - k]
    BY Zenon DEF WalkIsRight
  <2>3. mode' \notin {"verify", "reverify", "replay"}
    OBVIOUS
  <2>4. QED BY <1>7, <1>12, <2>1, <2>2, <2>3, Zenon DEF WalkIsRight
<1>14. QED BY <1>2, <1>3, <1>4, <1>7, <1>9, <1>11, <1>13

\* Where the output in hand is.
Here == <<Len(Extended), Current, Looked + 1>>

\* ConnectBlock applies an output: it is in force now, after all the others; the
\* failsafe for the master key leaves out what is not a site.
LEMMA ConnectOutputWalk ==
    ASSUME RestOK, RestOK', WalkIsRight, mode = "connect", ConnectOutput
    PROVE  /\ WalkIsRight' /\ Extended' = Extended /\ Current' = Current
           /\ IF Head(outs).op = "cost" \/ Head(outs).script # MasterKey
              THEN /\ Here \in Site \ DOMAIN Done
                   /\ DOMAIN Done' = DOMAIN Done \cup {Here} /\ Done'[Here] = Head(outs)
                   /\ \A q \in DOMAIN Done : Done'[q] = Done[q] /\ Precedes(q, Here)
              ELSE Done' = Done
<1> DEFINE o == Head(outs)
           top == Len(Extended)
           txs == Extended[Len(Extended)].txs
<1>1. outs # <<>> /\ outs' = Tail(outs) /\ UNCHANGED <<chain, mode, block, todo>>
  BY Zenon DEF ConnectOutput
<1>2. /\ WalkIsRight' /\ Extended' = Extended /\ Current' = Current
      /\ Looked \in Nat /\ Looked' = Looked + 1
      /\ Current \in DOMAIN block.txs
      /\ block.txs[Current] \in Tx /\ MasterKey \in block.txs[Current].from
      /\ Looked + 1 \in DOMAIN block.txs[Current].outs
      /\ o = block.txs[Current].outs[Looked + 1]
      /\ ~block.txs[Current].stake /\ Len(Extended) >= GovernanceHeight
  BY <1>1, OutputWalk
<1>3. /\ Extended \in Seq(Block) /\ top \in Nat /\ top \in DOMAIN Extended
      /\ Extended[top] = block /\ txs = block.txs /\ Current \in Nat
  BY Hand, Zenon
<1> DEFINE f == Applied(Extended, "connect", Current, Looked)
           g == Applied(Extended, "connect", Current, Looked + 1)
<1>4. Done = f /\ Done' = g
  BY <1>1, <1>2, Zenon DEF Done
<1>5. Looked + 1 \in Acting(txs[Current], top) <=> o.op = "cost" \/ o.script # MasterKey
  BY <1>2, <1>3, Zenon DEF Acting
<1>6. Here \in Site
  BY <1>2, <1>3, SMTT(30) DEF Here, Site
<1>7. ASSUME NEW h \in Nat, NEW i \in Nat, NEW j \in Nat
      PROVE  /\ InForce(<<h, i, j>>, "connect", top, Current, Looked + 1) <=>
                    InForce(<<h, i, j>>, "connect", top, Current, Looked) \/ <<h, i, j>> = Here
             /\ h <= top /\ InForce(<<h, i, j>>, "connect", top, Current, Looked) =>
                    Precedes(<<h, i, j>>, Here)
  BY <1>2, <1>3 DEF InForce, Here, Precedes
<1>8. DOMAIN f \subseteq Site /\ DOMAIN g \subseteq Site
  BY <1>3, AppliedSites, Zenon
<1>9. ASSUME NEW h \in Nat, NEW i \in Nat, NEW j \in Nat, <<h, i, j>> = Here
      PROVE  h = top /\ i = Current /\ j = Looked + 1
  BY <1>9 DEF Here
<1>10. ASSUME NEW h \in Nat, NEW i \in Nat, NEW j \in Nat
       PROVE  /\ <<h, i, j>> \in DOMAIN g <=>
                     \/ <<h, i, j>> \in DOMAIN f
                     \/ <<h, i, j>> = Here /\ Looked + 1 \in Acting(txs[Current], top)
              /\ <<h, i, j>> \in DOMAIN f => Precedes(<<h, i, j>>, Here)
              /\ <<h, i, j>> \in DOMAIN f => f[<<h, i, j>>] = g[<<h, i, j>>]
  <2>1. <<h, i, j>> \in DOMAIN g <=>
            /\ h \in DOMAIN Extended /\ i \in DOMAIN Extended[h].txs
            /\ j \in Acting(Extended[h].txs[i], h)
            /\ InForce(<<h, i, j>>, "connect", top, Current, Looked + 1)
    BY <1>3, AppliedAt, Zenon
  <2>2. <<h, i, j>> \in DOMAIN f <=>
            /\ h \in DOMAIN Extended /\ i \in DOMAIN Extended[h].txs
            /\ j \in Acting(Extended[h].txs[i], h)
            /\ InForce(<<h, i, j>>, "connect", top, Current, Looked)
    BY <1>3, AppliedAt, Zenon
  <2>3. <<h, i, j>> = Here =>
            /\ h \in DOMAIN Extended /\ i \in DOMAIN Extended[h].txs
            /\ Acting(Extended[h].txs[i], h) = Acting(txs[Current], top)
            /\ j = Looked + 1
    BY <1>2, <1>3, <1>9, Zenon
  <2>4. h \in DOMAIN Extended => h <= top
    BY <1>3, LenProperties
  <2>5. <<h, i, j>> \in DOMAIN g <=>
            \/ <<h, i, j>> \in DOMAIN f
            \/ <<h, i, j>> = Here /\ Looked + 1 \in Acting(txs[Current], top)
    BY <1>7, <2>1, <2>2, <2>3, Zenon
  <2>6. <<h, i, j>> \in DOMAIN f => f[<<h, i, j>>] = g[<<h, i, j>>]
    BY <2>5, Zenon DEF Applied
  <2>7. QED BY <1>7, <2>2, <2>4, <2>5, <2>6, Zenon
<1>11. ASSUME NEW q \in Site
       PROVE  /\ q \in DOMAIN g <=>
                     q \in DOMAIN f \/ (q = Here /\ Looked + 1 \in Acting(txs[Current], top))
              /\ q \in DOMAIN f => Precedes(q, Here) /\ f[q] = g[q]
  <2>1. PICK h \in Nat, i \in Nat, j \in Nat : q = <<h, i, j>>
    BY DEF Site
  <2> HIDE DEF f, g, txs, top
  <2>2. QED BY <1>10, <2>1, Zenon
<1>12. CASE o.op = "cost" \/ o.script # MasterKey
  <2> HIDE DEF f, g
  <2>1. Looked + 1 \in Acting(txs[Current], top)
    BY <1>5, <1>12, Zenon
  <2>2. Here \notin DOMAIN f
    BY <1>6, <1>11, PrecedesOrder, Zenon
  <2>3. DOMAIN g = DOMAIN f \cup {Here}
    <3>1. \A q \in Site : q \in DOMAIN g <=> q \in DOMAIN f \/ q = Here
      BY <1>11, <2>1, Zenon
    <3>2. QED BY <1>6, <1>8, <3>1
  <2>4. g[Here] = o
    <3>1. Here \in DOMAIN g
      BY <2>3
    <3>2. Extended \in Seq(Block) /\ <<top, Current, Looked + 1>> \in DOMAIN g
      BY <1>3, <3>1, Zenon DEF Here
    <3>3. g[<<top, Current, Looked + 1>>] = Extended[top].txs[Current].outs[Looked + 1]
      BY ONLY <3>2, AppliedIs DEF g
    <3>4. QED BY <1>2, <1>3, <3>3, Zenon DEF Here
  <2>5. \A q \in DOMAIN f : g[q] = f[q] /\ Precedes(q, Here)
    BY <1>8, <1>11, Zenon
  <2>6. QED BY <1>2, <1>4, <1>6, <1>12, <2>2, <2>3, <2>4, <2>5, Zenon
<1>13. CASE ~(o.op = "cost" \/ o.script # MasterKey)
  <2>1. \A h, i, j \in Nat : <<h, i, j>> \in DOMAIN f <=> <<h, i, j>> \in DOMAIN g
    <3> HIDE DEF f, g, txs, top
    <3>1. QED BY <1>5, <1>10, <1>13, Zenon
  <2>2. f = g
    <3>1. /\ f = Applied(Extended, "connect", Current, Looked)
          /\ g = Applied(Extended, "connect", Current, Looked + 1) /\ Extended \in Seq(Block)
      BY <1>3
    <3> HIDE DEF f, g
    <3>2. QED BY ONLY <2>1, <3>1, AppliedSame
  <2>3. QED BY <1>2, <1>4, <1>13, <2>2, Zenon
<1>14. QED BY <1>12, <1>13, Zenon

\* DisconnectBlock reverts an output: it is not in force any more.  The ones that still
\* are were applied before, or by the same transaction.
LEMMA DisconnectOutputWalk ==
    ASSUME RestOK, RestOK', WalkIsRight, mode = "disconnect", DisconnectOutput
    PROVE  /\ WalkIsRight' /\ Extended' = Extended /\ Current' = Current /\ Here \in Site
           /\ Len(Extended) \in DOMAIN Extended /\ Current \in DOMAIN Extended[Len(Extended)].txs
           /\ MasterKey \in Extended[Len(Extended)].txs[Current].from
           /\ Looked + 1 \in DOMAIN Extended[Len(Extended)].txs[Current].outs
           /\ Head(outs) = Extended[Len(Extended)].txs[Current].outs[Looked + 1]
           /\ DOMAIN Done' = DOMAIN Done \ {Here}
           /\ Here \in DOMAIN Done <=> Looked + 1 \in Acting(Extended[Len(Extended)].txs[Current], Len(Extended))
           /\ Here \in DOMAIN Done => Done[Here] = Head(outs)
           /\ \A q \in DOMAIN Done' : Done'[q] = Done[q]
           /\ \A h, i, j : <<h, i, j>> \in DOMAIN Done =>
                 Precedes(<<h, i, j>>, Here) \/ (h = Len(Extended) /\ i = Current)
<1> DEFINE o == Head(outs)
           top == Len(Extended)
           txs == Extended[Len(Extended)].txs
<1>1. outs # <<>> /\ outs' = Tail(outs) /\ UNCHANGED <<chain, mode, block, todo>>
  BY Zenon DEF DisconnectOutput
<1>2. /\ WalkIsRight' /\ Extended' = Extended /\ Current' = Current
      /\ Looked \in Nat /\ Looked' = Looked + 1
      /\ Current \in DOMAIN block.txs
      /\ block.txs[Current] \in Tx /\ MasterKey \in block.txs[Current].from
      /\ Looked + 1 \in DOMAIN block.txs[Current].outs
      /\ o = block.txs[Current].outs[Looked + 1]
  BY <1>1, OutputWalk
<1>3. /\ Extended \in Seq(Block) /\ top \in Nat /\ top \in DOMAIN Extended
      /\ Extended[top] = block /\ txs = block.txs /\ Current \in Nat
  BY Hand, Zenon
<1> DEFINE f == Applied(Extended, "disconnect", Current, Looked)
           g == Applied(Extended, "disconnect", Current, Looked + 1)
<1>4. Done = f /\ Done' = g
  BY <1>1, <1>2, Zenon DEF Done
<1>5. Here \in Site
  <2>1. top \in Nat /\ Current \in Nat /\ Looked \in Nat
    BY <1>2, <1>3, Zenon
  <2>2. QED BY ONLY <2>1 DEF Here, Site
<1>6. ASSUME NEW h \in Nat, NEW i \in Nat, NEW j \in Nat
      PROVE  /\ InForce(<<h, i, j>>, "disconnect", top, Current, Looked + 1) <=>
                    InForce(<<h, i, j>>, "disconnect", top, Current, Looked) /\ <<h, i, j>> # Here
             /\ h <= top /\ InForce(<<h, i, j>>, "disconnect", top, Current, Looked) =>
                    Precedes(<<h, i, j>>, Here) \/ (h = top /\ i = Current)
  <2>1. top \in Nat /\ Current \in Nat /\ Looked \in Nat
    BY <1>2, <1>3, Zenon
  <2>2. QED BY ONLY <2>1, h \in Nat, i \in Nat, j \in Nat DEF InForce, Here, Precedes, top
<1>7. InForce(Here, "disconnect", top, Current, Looked)
  BY <1>2, <1>3 DEF InForce, Here
<1>8. DOMAIN f \subseteq Site /\ DOMAIN g \subseteq Site
  BY <1>3, AppliedSites, Zenon
<1>9. Here \in DOMAIN f <=> Looked + 1 \in Acting(txs[Current], top)
  BY <1>2, <1>3, <1>7, AppliedAt, Zenon DEF Here
<1>10. Here \in DOMAIN f => f[Here] = o
  <2>1. Extended \in Seq(Block)
    BY <1>3, Zenon
  <2>2. <<top, Current, Looked + 1>> \in DOMAIN f =>
            f[<<top, Current, Looked + 1>>] = Extended[top].txs[Current].outs[Looked + 1]
    BY ONLY <2>1, AppliedIs
  <2>3. QED BY <1>2, <1>3, <2>2, Zenon DEF Here
<1>11. ASSUME NEW h \in Nat, NEW i \in Nat, NEW j \in Nat
       PROVE  /\ <<h, i, j>> \in DOMAIN g <=> <<h, i, j>> \in DOMAIN f /\ <<h, i, j>> # Here
              /\ <<h, i, j>> \in DOMAIN f =>
                     Precedes(<<h, i, j>>, Here) \/ (h = top /\ i = Current)
              /\ <<h, i, j>> \in DOMAIN g => f[<<h, i, j>>] = g[<<h, i, j>>]
  <2>1. <<h, i, j>> \in DOMAIN g <=>
            /\ h \in DOMAIN Extended /\ i \in DOMAIN Extended[h].txs
            /\ j \in Acting(Extended[h].txs[i], h)
            /\ InForce(<<h, i, j>>, "disconnect", top, Current, Looked + 1)
    BY <1>3, AppliedAt, Zenon
  <2>2. <<h, i, j>> \in DOMAIN f <=>
            /\ h \in DOMAIN Extended /\ i \in DOMAIN Extended[h].txs
            /\ j \in Acting(Extended[h].txs[i], h)
            /\ InForce(<<h, i, j>>, "disconnect", top, Current, Looked)
    BY <1>3, AppliedAt, Zenon
  <2>3. h \in DOMAIN Extended => h <= top
    BY <1>3, LenProperties
  <2>4. <<h, i, j>> \in DOMAIN g <=> <<h, i, j>> \in DOMAIN f /\ <<h, i, j>> # Here
    BY <1>6, <2>1, <2>2, Zenon
  <2>5. <<h, i, j>> \in DOMAIN g => f[<<h, i, j>>] = g[<<h, i, j>>]
    BY <2>4, Zenon DEF Applied
  <2>6. QED BY <1>6, <2>2, <2>3, <2>4, <2>5, Zenon
<1>12. \A q \in Site : (q \in DOMAIN g <=> q \in DOMAIN f /\ q # Here) /\ (q \in DOMAIN g => f[q] = g[q])
  <2> SUFFICES ASSUME NEW q \in Site
               PROVE  (q \in DOMAIN g <=> q \in DOMAIN f /\ q # Here) /\ (q \in DOMAIN g => f[q] = g[q])
    OBVIOUS
  <2>1. PICK h \in Nat, i \in Nat, j \in Nat : q = <<h, i, j>>
    BY DEF Site
  <2> HIDE DEF f, g, txs, top
  <2>2. QED BY <1>11, <2>1, Zenon
<1>13. \A h, i, j : <<h, i, j>> \in DOMAIN f =>
           Precedes(<<h, i, j>>, Here) \/ (h = top /\ i = Current)
  <2> SUFFICES ASSUME NEW h, NEW i, NEW j, <<h, i, j>> \in DOMAIN f
               PROVE  Precedes(<<h, i, j>>, Here) \/ (h = top /\ i = Current)
    BY Zenon
  <2>1. <<h, i, j>> \in Site
    BY <1>8, Zenon
  <2>2. h \in Nat /\ i \in Nat /\ j \in Nat
    BY <2>1 DEF Site
  <2> HIDE DEF f, g, txs, top
  <2>3. QED BY <1>11, <2>2, Zenon
<1> HIDE DEF f, g
<1>14. DOMAIN g = DOMAIN f \ {Here} /\ \A q \in DOMAIN g : g[q] = f[q]
  BY <1>8, <1>12
<1>15. QED BY <1>2, <1>3, <1>4, <1>5, <1>9, <1>10, <1>13, <1>14, Zenon

-----------------------------------------------------------------------------
(* Costs and fee scripts. *)

\* Where an operation in force is, and what it is.
LEMMA DoneAt ==
    ASSUME Extended \in Seq(Block), NEW h, NEW i, NEW j, <<h, i, j>> \in DOMAIN Done
    PROVE  /\ h \in DOMAIN Extended /\ i \in DOMAIN Extended[h].txs
           /\ j \in Acting(Extended[h].txs[i], h)
           /\ Done[<<h, i, j>>] = Extended[h].txs[i].outs[j]
<1>1. Done[<<h, i, j>>] = Extended[h].txs[i].outs[j]
  BY AppliedIs DEF Done
<1>2. QED BY <1>1, AppliedAt, Zenon DEF Done

\* The operations in force are operations.
LEMMA DoneType ==
    ASSUME RestOK, WalkIsRight
    PROVE  DOMAIN Done \subseteq Site /\ \A q \in DOMAIN Done : Done[q] \in Op
<1>1. Extended \in Seq(Block)
  BY Hand
<1>2. DOMAIN Done \subseteq Site
  BY <1>1, AppliedSites, Zenon DEF Done
<1>3. ASSUME NEW q \in DOMAIN Done
      PROVE  Done[q] \in Op
  <2>1. PICK h \in Nat, i \in Nat, j \in Nat : q = <<h, i, j>>
    BY <1>2 DEF Site
  <2>2. /\ h \in DOMAIN Extended /\ i \in DOMAIN Extended[h].txs
        /\ j \in Acting(Extended[h].txs[i], h)
        /\ Done[q] = Extended[h].txs[i].outs[j]
    BY <1>1, <2>1, DoneAt
  <2>3. j \in DOMAIN Extended[h].txs[i].outs
    BY <2>2, Zenon DEF Acting
  <2>4. Extended[h].txs[i].outs \in Seq(Op)
    BY <1>1, <2>2, <2>3, SiteRange, Zenon
  <2>5. QED BY <2>2, <2>3, <2>4, LenProperties
<1>4. QED BY <1>2, <1>3, Zenon

\* What is irregular stays so, or everything is.
LEMMA Nothing ==
    ASSUME ~OnChain' \/ irregular' = Script
    PROVE  CostsSoFar' /\ FreezesSoFar'
<1>1. irregular' = Script => Script \ (irregular' \cup {DummyScript}) = {}
  OBVIOUS
<1>2. QED BY <1>1, Zenon DEF CostsSoFar, FreezesSoFar

\* A step that applies and reverts nothing.
LEMMA CostsStay ==
    ASSUME CostsSoFar, OnChain, irregular \subseteq irregular', irregular' \subseteq Script,
           Done' = Done, UNCHANGED <<cost, fee>>,
           \A h : mode' = "disconnect" /\ h = Len(chain') <=> mode = "disconnect" /\ h = Len(chain)
    PROVE  CostsSoFar'
<1> SUFFICES ASSUME irregular' # Script, NEW h \in Height
             PROVE  EntriesSoFar(h)'
  BY Zenon DEF CostsSoFar
<1>1. irregular # Script
  OBVIOUS
<1>2. EntriesSoFar(h)
  BY <1>1, Zenon DEF CostsSoFar
<1>3. QED BY <1>2, Zenon DEF EntriesSoFar, EntriesMatch

\* DisconnectTip starts with the entries of its block in place.
LEMMA CostsStartDisconnect ==
    ASSUME CostsSoFar, OnChain, mode = "idle", mode' = "disconnect", irregular' = irregular,
           Done' = Done, UNCHANGED <<cost, fee, chain>>, Len(chain) # 0
    PROVE  CostsSoFar'
<1> SUFFICES ASSUME irregular' # Script, NEW h \in Height
             PROVE  EntriesSoFar(h)'
  BY Zenon DEF CostsSoFar
<1>1. EntriesMatch(Done, h)
  BY Zenon DEF CostsSoFar, EntriesSoFar
<1>2. CASE h = Len(chain)
  <2>1. IsFirst(fee[h], FeesAt(Done, h)) /\ \A t \in CostType : IsFirst(cost[t][h], CostsAt(Done, t, h))
    BY <1>1, <1>2, Zenon DEF EntriesMatch
  <2>2. /\ fee[h] # None => DOMAIN FeesAt(Done, h) # {}
        /\ \A t \in CostType : cost[t][h] # None => DOMAIN CostsAt(Done, t, h) # {}
    BY <2>1, Zenon DEF IsFirst
  <2>3. QED BY <1>2, <2>2, Zenon DEF EntriesSoFar
<1>3. CASE h # Len(chain)
  BY <1>1, <1>3, Zenon DEF EntriesSoFar, EntriesMatch
<1>4. QED BY <1>2, <1>3, Zenon

\* DisconnectTip ends with the entries of its block gone.
LEMMA CostsFinishDisconnect ==
    ASSUME CostsSoFar, OnChain, mode = "disconnect", mode' = "idle", irregular' = irregular,
           Done' = Done, UNCHANGED <<cost, fee>>, Len(chain) # 0,
           DOMAIN Done \subseteq Site,
           \A h, i, j : <<h, i, j>> \in DOMAIN Done => h # Len(chain)
    PROVE  CostsSoFar'
<1> SUFFICES ASSUME irregular' # Script, NEW h \in Height
             PROVE  EntriesSoFar(h)'
  BY Zenon DEF CostsSoFar
<1>1. EntriesSoFar(h)
  BY Zenon DEF CostsSoFar
<1>2. mode' # "disconnect"
  OBVIOUS
<1>3. CASE h = Len(chain)
  <2>1. ASSUME NEW q \in DOMAIN Done
        PROVE  q[1] # h
    <3>1. PICK g \in Nat, i \in Nat, j \in Nat : q = <<g, i, j>>
      BY DEF Site
    <3>2. g # Len(chain)
      BY <3>1, Zenon
    <3>3. q[1] = g
      BY <3>1
    <3>4. QED BY <1>3, <3>2, <3>3, Zenon
  <2>2. DOMAIN FeesAt(Done, h) = {} /\ \A t \in CostType : DOMAIN CostsAt(Done, t, h) = {}
    BY <2>1, Zenon DEF FeesAt, CostsAt
  <2>3. fee[h] = None /\ \A t \in CostType : cost[t][h] = None
    BY <1>1, <1>3, <2>2, Zenon DEF EntriesSoFar
  <2>4. EntriesMatch(Done, h)
    BY <1>3, <2>2, <2>3, Zenon DEF EntriesMatch, IsFirst
  <2>5. QED BY <1>2, <2>4, Zenon DEF EntriesSoFar, EntriesMatch
<1>4. CASE h # Len(chain)
  BY <1>1, <1>2, <1>4, Zenon DEF EntriesSoFar, EntriesMatch
<1>5. QED BY <1>3, <1>4, Zenon

\* What an added operation changes in the sequences of costs and fee scripts.
LEMMA CostsAdded ==
    ASSUME NEW f, NEW g, DOMAIN f \subseteq Site, NEW p \in Site \ DOMAIN f,
           DOMAIN g = DOMAIN f \cup {p}, \A q \in DOMAIN f : g[q] = f[q] /\ Precedes(q, p),
           \A q \in DOMAIN g : g[q] \in Op, NEW h
    PROVE  /\ \A v : IsFirst(v, FeesAt(f, h)) =>
                 IsFirst(IF g[p].op = "fee" /\ p[1] = h /\ v = None THEN g[p].script ELSE v, FeesAt(g, h))
           /\ \A t, v : IsFirst(v, CostsAt(f, t, h)) =>
                 IsFirst(IF g[p].op = "cost" /\ g[p].type = t /\ p[1] = h /\ v = None
                         THEN g[p].cost ELSE v, CostsAt(g, t, h))
<1>1. ASSUME NEW v, IsFirst(v, FeesAt(f, h))
      PROVE  IsFirst(IF g[p].op = "fee" /\ p[1] = h /\ v = None THEN g[p].script ELSE v, FeesAt(g, h))
  <2> DEFINE a == FeesAt(f, h)
             b == FeesAt(g, h)
  <2>1. /\ DOMAIN a = {q \in DOMAIN f : q[1] = h /\ f[q].op = "fee"}
        /\ DOMAIN b = {q \in DOMAIN g : q[1] = h /\ g[q].op = "fee"}
        /\ \A q \in DOMAIN a : a[q] = f[q].script
        /\ \A q \in DOMAIN b : b[q] = g[q].script
    BY Zenon DEF FeesAt
  <2> HIDE DEF a, b
  <2>2. DOMAIN a \subseteq Site /\ p \notin DOMAIN a
    BY <2>1, Zenon
  <2>3. CASE g[p].op = "fee" /\ p[1] = h
    <3>1. DOMAIN b = DOMAIN a \cup {p}
      BY <2>1, <2>3
    <3>2. \A q \in DOMAIN a : b[q] = a[q] /\ Precedes(q, p)
      BY <2>1, <3>1, Zenon
    <3>3. ASSUME NEW q \in DOMAIN b
          PROVE  b[q] # None
      <4>1. g[q] \in Op /\ g[q].op = "fee" /\ b[q] = g[q].script
        BY <2>1, Zenon
      <4>2. g[q].script \in Script
        BY <4>1, OpType
      <4>3. QED BY <4>1, <4>2, CostAssumption
    <3>4. b[p] = g[p].script
      BY <2>1, <3>1, Zenon
    <3>5. IsFirst(v, a)
      BY <1>1, Zenon DEF a
    <3>6. IsFirst(IF v = None THEN b[p] ELSE v, b)
      BY <2>2, <3>1, <3>2, <3>3, <3>5, FirstStays, Zenon
    <3>7. QED BY <2>3, <3>4, <3>6, Zenon DEF b
  <2>4. CASE ~(g[p].op = "fee" /\ p[1] = h)
    <3>1. DOMAIN a = DOMAIN b
      BY <2>1, <2>4
    <3>2. \A q \in DOMAIN a : b[q] = a[q]
      BY <2>1, <3>1, ZenonT(30)
    <3>3. IsFirst(v, b)
      BY <1>1, <3>1, <3>2, SameFirst, Zenon DEF a
    <3>4. QED BY <2>4, <3>3, Zenon DEF b
  <2>5. QED BY <2>3, <2>4, Zenon
<1>2. ASSUME NEW t, NEW v, IsFirst(v, CostsAt(f, t, h))
      PROVE  IsFirst(IF g[p].op = "cost" /\ g[p].type = t /\ p[1] = h /\ v = None
                     THEN g[p].cost ELSE v, CostsAt(g, t, h))
  <2> DEFINE a == CostsAt(f, t, h)
             b == CostsAt(g, t, h)
  <2>1. /\ DOMAIN a = {q \in DOMAIN f : q[1] = h /\ f[q].op = "cost" /\ f[q].type = t}
        /\ DOMAIN b = {q \in DOMAIN g : q[1] = h /\ g[q].op = "cost" /\ g[q].type = t}
        /\ \A q \in DOMAIN a : a[q] = f[q].cost
        /\ \A q \in DOMAIN b : b[q] = g[q].cost
    BY Zenon DEF CostsAt
  <2> HIDE DEF a, b
  <2>2. DOMAIN a \subseteq Site /\ p \notin DOMAIN a
    BY <2>1, Zenon
  <2>3. CASE g[p].op = "cost" /\ g[p].type = t /\ p[1] = h
    <3>1. DOMAIN b = DOMAIN a \cup {p}
      BY <2>1, <2>3
    <3>2. \A q \in DOMAIN a : b[q] = a[q] /\ Precedes(q, p)
      BY <2>1, <3>1, ZenonT(30)
    <3>3. ASSUME NEW q \in DOMAIN b
          PROVE  b[q] # None
      <4>1. g[q] \in Op /\ g[q].op = "cost" /\ b[q] = g[q].cost
        BY <2>1, Zenon
      <4>2. g[q].cost \in Cost
        BY <4>1, OpType
      <4>3. QED BY <4>1, <4>2, CostAssumption
    <3>4. b[p] = g[p].cost
      BY <2>1, <3>1
    <3>5. IsFirst(v, a)
      BY <1>2, Zenon DEF a
    <3>6. IsFirst(IF v = None THEN b[p] ELSE v, b)
      BY <2>2, <3>1, <3>2, <3>3, <3>5, FirstStays, Zenon
    <3>7. QED BY <2>3, <3>4, <3>6, Zenon DEF b
  <2>4. CASE ~(g[p].op = "cost" /\ g[p].type = t /\ p[1] = h)
    <3>1. DOMAIN a = DOMAIN b
      BY <2>1, <2>4
    <3>2. \A q \in DOMAIN a : b[q] = a[q]
      BY <2>1, <3>1
    <3>3. IsFirst(v, b)
      BY <1>2, <3>1, <3>2, SameFirst, Zenon DEF a
    <3>4. QED BY <2>4, <3>3, Zenon DEF b
  <2>5. QED BY <2>3, <2>4, Zenon
<1>3. QED BY <1>1, <1>2, Zenon

\* What Apply does to an entry.
LEMMA ApplyEntries ==
    ASSUME DbOK, NEW o \in Op, BlockHeight \in Height, Apply(o), NEW h \in Height
    PROVE  /\ fee'[h] = IF o.op = "fee" /\ o.script # MasterKey /\ h = BlockHeight /\ fee[h] = None
                        THEN o.script ELSE fee[h]
           /\ \A t \in CostType :
                 cost'[t][h] = IF o.op = "cost" /\ o.type = t /\ h = BlockHeight /\ cost[t][h] = None
                               THEN o.cost ELSE cost[t][h]
<1> DEFINE k == BlockHeight
<1>1. CASE o.op = "cost"
  <2>1. o.type \in CostType /\ fee' = fee
        /\ cost' = [cost EXCEPT ![o.type][k] = IF cost[o.type][k] = None THEN o.cost ELSE @]
    BY <1>1, OpType DEF Apply, UpdateCost
  <2>2. cost \in [CostType -> [Height -> Cost \cup {None}]] /\ k \in Height
    BY DEF DbOK
  <2> HIDE DEF k
  <2>3. ASSUME NEW t \in CostType
        PROVE  cost'[t][h] = IF o.type = t /\ h = k /\ cost[t][h] = None THEN o.cost ELSE cost[t][h]
    BY <2>1, <2>2
  <2>4. o.op # "fee"
    BY <1>1
  <2>5. QED BY <1>1, <2>1, <2>3, <2>4, Zenon DEF k
<1>2. CASE o.op = "fee" /\ o.script # MasterKey
  <2>1. cost' = cost /\ fee' = [fee EXCEPT ![k] = IF fee[k] = None THEN o.script ELSE @]
    BY <1>2 DEF Apply, UpdateFeeScript
  <2>2. fee \in [Height -> Script \cup {None}] /\ k \in Height
    BY DEF DbOK
  <2> HIDE DEF k
  <2>3. fee'[h] = IF h = k /\ fee[h] = None THEN o.script ELSE fee[h]
    BY <2>1, <2>2
  <2>4. o.op # "cost"
    BY <1>2
  <2>5. QED BY <1>2, <2>1, <2>3, <2>4, Zenon DEF k
<1>3. CASE o.op # "cost" /\ ~(o.op = "fee" /\ o.script # MasterKey)
  <2>1. cost' = cost /\ fee' = fee
    BY <1>3, OpType DEF Apply, FreezeScript, UnfreezeScript, db
  <2>2. QED BY <1>3, <2>1, Zenon
<1>4. QED BY <1>1, <1>2, <1>3, Zenon

\* UpdateCost and UpdateFeeScript write the entry of the block in hand, once.
LEMMA CostsConnectOutput ==
    ASSUME DbOK, RestOK, RestOK', WalkIsRight, CostsSoFar, mode = "connect", ConnectOutput
    PROVE  CostsSoFar'
<1> DEFINE o == Head(outs)
<1> SUFFICES ASSUME irregular' # Script, NEW h \in Height
             PROVE  EntriesSoFar(h)'
  BY Zenon DEF CostsSoFar
<1>1. Apply(o) /\ irregular \subseteq irregular' /\ UNCHANGED <<chain, mode>> /\ outs # <<>>
  BY DEF ConnectOutput
<1>2. irregular # Script /\ OnChain /\ mode # "disconnect" /\ mode' # "disconnect"
  BY <1>1, Zenon DEF OnChain, RestOK
<1>3. EntriesMatch(Done, h)
  BY <1>2, Zenon DEF CostsSoFar, EntriesSoFar
<1>4. o \in Op
  BY <1>1, HeadTailProperties DEF RestOK
<1>5. BlockHeight \in Height /\ BlockHeight = Len(Extended) /\ BlockHeight # 0
  <2>1. Len(Extended) = Len(chain) + 1 /\ Len(chain) \in Nat
    BY Hand, LenProperties DEF RestOK
  <2>2. BlockHeight = Len(chain) + 1
    BY DEF BlockHeight
  <2>3. BlockHeight \in Height
    BY BlockHeightType
  <2>4. QED BY <2>1, <2>2, <2>3
<1>6. /\ fee'[h] = IF o.op = "fee" /\ o.script # MasterKey /\ h = Len(Extended) /\ fee[h] = None
                   THEN o.script ELSE fee[h]
      /\ \A t \in CostType :
            cost'[t][h] = IF o.op = "cost" /\ o.type = t /\ h = Len(Extended) /\ cost[t][h] = None
                          THEN o.cost ELSE cost[t][h]
  BY <1>1, <1>4, <1>5, ApplyEntries, Zenon
<1>7. ASSUME EntriesMatch(Done, h)'
      PROVE  EntriesSoFar(h)'
  BY <1>2, <1>7, Zenon DEF EntriesSoFar
<1>8. CASE h = 0
  <2>1. h # Len(Extended)
    BY <1>5, <1>8
  <2>2. fee'[h] = fee[h] /\ \A t \in CostType : cost'[t][h] = cost[t][h]
    BY <1>6, <2>1, Zenon
  <2>3. EntriesMatch(Done, h)'
    BY <1>3, <1>8, <2>2, Zenon DEF EntriesMatch
  <2>4. QED BY <1>7, <2>3, Zenon
<1>9. CASE h # 0
  <2>1. IsFirst(fee[h], FeesAt(Done, h)) /\ \A t \in CostType : IsFirst(cost[t][h], CostsAt(Done, t, h))
    BY <1>3, <1>9, Zenon DEF EntriesMatch
  <2>2. IsFirst(fee'[h], FeesAt(Done', h)) /\ \A t \in CostType : IsFirst(cost'[t][h], CostsAt(Done', t, h))
    <3>1. CASE o.op = "cost" \/ o.script # MasterKey
      <4>1. /\ Here \in Site \ DOMAIN Done
            /\ DOMAIN Done' = DOMAIN Done \cup {Here} /\ Done'[Here] = o
            /\ \A q \in DOMAIN Done : Done'[q] = Done[q] /\ Precedes(q, Here)
        BY <3>1, ConnectOutputWalk, Zenon
      <4>2. DOMAIN Done \subseteq Site /\ \A q \in DOMAIN Done : Done[q] \in Op
        BY DoneType
      <4>3. \A q \in DOMAIN Done' : Done'[q] \in Op
        BY <1>4, <4>1, <4>2, Zenon
      <4>4. Here[1] = Len(Extended)
        BY DEF Here
      <4>5. /\ \A v : IsFirst(v, FeesAt(Done, h)) =>
                  IsFirst(IF Done'[Here].op = "fee" /\ Here[1] = h /\ v = None THEN Done'[Here].script ELSE v,
                          FeesAt(Done', h))
            /\ \A t, v : IsFirst(v, CostsAt(Done, t, h)) =>
                  IsFirst(IF Done'[Here].op = "cost" /\ Done'[Here].type = t /\ Here[1] = h /\ v = None
                          THEN Done'[Here].cost ELSE v, CostsAt(Done', t, h))
        BY <4>1, <4>2, <4>3, CostsAdded, Zenon
      <4>6. o.op = "fee" => o.script # MasterKey
        BY <3>1
      <4>7. fee'[h] = IF Done'[Here].op = "fee" /\ Here[1] = h /\ fee[h] = None
                      THEN Done'[Here].script ELSE fee[h]
        BY <1>6, <4>1, <4>4, <4>6, Zenon
      <4>8. \A t \in CostType :
               cost'[t][h] = IF Done'[Here].op = "cost" /\ Done'[Here].type = t /\ Here[1] = h /\ cost[t][h] = None
                             THEN Done'[Here].cost ELSE cost[t][h]
        BY <1>6, <4>1, <4>4, Zenon
      <4>9. QED BY <2>1, <4>5, <4>7, <4>8, Zenon
    <3>2. CASE ~(o.op = "cost" \/ o.script # MasterKey)
      <4>1. Done' = Done
        BY <3>2, ConnectOutputWalk, Zenon
      <4>2. fee'[h] = fee[h] /\ \A t \in CostType : cost'[t][h] = cost[t][h]
        BY <1>6, <3>2, Zenon
      <4>3. QED BY <2>1, <4>1, <4>2, Zenon
    <3>3. QED BY <3>1, <3>2, Zenon
  <2>3. EntriesMatch(Done, h)'
    BY <1>9, <2>2, Zenon DEF EntriesMatch
  <2>4. QED BY <1>7, <2>3, Zenon
<1>10. QED BY <1>8, <1>9, Zenon

\* What Revert does to an entry.
LEMMA RevertEntries ==
    ASSUME DbOK, NEW o \in Op, BlockHeight \in Height, Revert(o), NEW h \in Height
    PROVE  /\ fee'[h] = IF o.op = "fee" /\ o.script # MasterKey /\ h = BlockHeight THEN None ELSE fee[h]
           /\ \A t \in CostType :
                 cost'[t][h] = IF o.op = "cost" /\ o.type = t /\ h = BlockHeight THEN None ELSE cost[t][h]
<1> DEFINE k == BlockHeight
<1>1. CASE o.op = "cost"
  <2>1. o.type \in CostType /\ fee' = fee /\ cost' = [cost EXCEPT ![o.type][k] = None]
    BY <1>1, OpType DEF Revert, RevertUpdateCost
  <2>2. cost \in [CostType -> [Height -> Cost \cup {None}]] /\ k \in Height
    BY DEF DbOK
  <2> HIDE DEF k
  <2>3. ASSUME NEW t \in CostType
        PROVE  cost'[t][h] = IF o.type = t /\ h = k THEN None ELSE cost[t][h]
    BY <2>1, <2>2
  <2>4. o.op # "fee"
    BY <1>1
  <2>5. QED BY <1>1, <2>1, <2>3, <2>4, Zenon DEF k
<1>2. CASE o.op = "fee" /\ o.script # MasterKey
  <2>1. cost' = cost /\ fee' = [fee EXCEPT ![k] = None]
    BY <1>2 DEF Revert, RevertUpdateFeeScript
  <2>2. fee \in [Height -> Script \cup {None}] /\ k \in Height
    BY DEF DbOK
  <2> HIDE DEF k
  <2>3. fee'[h] = IF h = k THEN None ELSE fee[h]
    BY <2>1, <2>2
  <2>4. o.op # "cost"
    BY <1>2
  <2>5. QED BY <1>2, <2>1, <2>3, <2>4, Zenon DEF k
<1>3. CASE o.op # "cost" /\ ~(o.op = "fee" /\ o.script # MasterKey)
  <2>1. cost' = cost /\ fee' = fee
    BY <1>3, OpType DEF Revert, RevertFreezeScript, RevertUnfreezeScript, db
  <2>2. QED BY <1>3, <2>1, Zenon
<1>4. QED BY <1>1, <1>2, <1>3, Zenon

\* RevertUpdateCost and RevertUpdateFeeScript erase the entry of the block in hand: if
\* one is left, an operation that set it is still to be reverted.
LEMMA CostsDisconnectOutput ==
    ASSUME DbOK, RestOK, RestOK', WalkIsRight, CostsSoFar, mode = "disconnect", DisconnectOutput
    PROVE  CostsSoFar'
<1> DEFINE o == Head(outs)
<1> SUFFICES ASSUME irregular' # Script, NEW h \in Height
             PROVE  EntriesSoFar(h)'
  BY Zenon DEF CostsSoFar
<1>1. Revert(o) /\ irregular' = irregular /\ UNCHANGED <<chain, mode>> /\ outs # <<>>
  BY DEF DisconnectOutput
<1>2. EntriesSoFar(h) /\ Extended = chain
  BY <1>1 DEF CostsSoFar, OnChain, Extended
<1>3. o \in Op
  BY <1>1, HeadTailProperties DEF RestOK
<1>4. BlockHeight \in Height /\ BlockHeight = Len(chain)
  BY BlockHeightType DEF BlockHeight
<1>5. /\ fee'[h] = IF o.op = "fee" /\ o.script # MasterKey /\ h = Len(chain) THEN None ELSE fee[h]
      /\ \A t \in CostType :
            cost'[t][h] = IF o.op = "cost" /\ o.type = t /\ h = Len(chain) THEN None ELSE cost[t][h]
  BY <1>1, <1>3, <1>4, RevertEntries, Zenon
<1>6. /\ DOMAIN Done' = DOMAIN Done \ {Here} /\ \A q \in DOMAIN Done' : Done'[q] = Done[q]
      /\ Here \in DOMAIN Done => Done[Here] = o
      /\ Here \in DOMAIN Done <=> Looked + 1 \in Acting(chain[Len(chain)].txs[Current], Len(chain))
      /\ o = chain[Len(chain)].txs[Current].outs[Looked + 1]
  BY <1>2, DisconnectOutputWalk, Zenon
<1>7. Here[1] = Len(chain)
  BY <1>2 DEF Here
<1>8. CASE h = Len(chain)
  <2>1. /\ fee[h] # None => DOMAIN FeesAt(Done, h) # {}
        /\ \A t \in CostType : cost[t][h] # None => DOMAIN CostsAt(Done, t, h) # {}
    BY <1>2, <1>8, Zenon DEF EntriesSoFar
  <2>2. ASSUME fee'[h] # None
        PROVE  DOMAIN FeesAt(Done', h) # {}
    <3>1. fee[h] # None /\ ~(o.op = "fee" /\ o.script # MasterKey)
      BY <1>5, <1>8, <2>2, Zenon
    <3>2. PICK q : q \in DOMAIN Done /\ q[1] = h /\ Done[q].op = "fee"
      BY <2>1, <3>1, Zenon DEF FeesAt
    <3>3. q # Here
      <4>1. SUFFICES ASSUME q = Here PROVE FALSE
        OBVIOUS
      <4>2. o.op = "fee" /\ Looked + 1 \in Acting(chain[Len(chain)].txs[Current], Len(chain))
        BY <1>6, <3>2, <4>1, Zenon
      <4>3. o.op = "cost" \/ o.script # MasterKey
        BY <1>6, <4>2, Zenon DEF Acting
      <4>4. QED BY <3>1, <4>2, <4>3
    <3>4. q \in DOMAIN Done' /\ Done'[q].op = "fee"
      BY <1>6, <3>2, <3>3, Zenon
    <3>5. q \in DOMAIN FeesAt(Done', h)
      BY <3>2, <3>4, Zenon DEF FeesAt
    <3>6. QED BY <3>5
  <2>3. ASSUME NEW t \in CostType, cost'[t][h] # None
        PROVE  DOMAIN CostsAt(Done', t, h) # {}
    <3>1. cost[t][h] # None /\ ~(o.op = "cost" /\ o.type = t)
      BY <1>5, <1>8, <2>3, Zenon
    <3>2. PICK q : q \in DOMAIN Done /\ q[1] = h /\ Done[q].op = "cost" /\ Done[q].type = t
      BY <2>1, <3>1, Zenon DEF CostsAt
    <3>3. q # Here
      BY <1>6, <3>1, <3>2, Zenon
    <3>4. q \in DOMAIN Done' /\ Done'[q] = Done[q]
      BY <1>6, <3>2, <3>3, Zenon
    <3>5. q \in DOMAIN CostsAt(Done', t, h)
      BY <3>2, <3>4, Zenon DEF CostsAt
    <3>6. QED BY <3>5
  <2>4. mode' = "disconnect" /\ h = Len(chain')
    BY <1>1, <1>8, Zenon
  <2>5. QED BY <2>2, <2>3, <2>4, Zenon DEF EntriesSoFar
<1>9. CASE h # Len(chain)
  <2>1. EntriesMatch(Done, h)
    BY <1>2, <1>9, Zenon DEF EntriesSoFar
  <2>2. fee'[h] = fee[h] /\ \A t \in CostType : cost'[t][h] = cost[t][h]
    BY <1>5, <1>9, Zenon
  <2>3. /\ DOMAIN FeesAt(Done, h) = DOMAIN FeesAt(Done', h)
        /\ \A q \in DOMAIN FeesAt(Done, h) : FeesAt(Done', h)[q] = FeesAt(Done, h)[q]
    <3>1. \A q : q \in DOMAIN Done /\ q[1] = h => q \in DOMAIN Done'
      BY <1>6, <1>7, <1>9
    <3>2. \A q : q \in DOMAIN Done' => q \in DOMAIN Done
      BY <1>6
    <3>3. DOMAIN FeesAt(Done, h) = {q \in DOMAIN Done : q[1] = h /\ Done[q].op = "fee"}
      BY Zenon DEF FeesAt
    <3>4. DOMAIN FeesAt(Done', h) = {q \in DOMAIN Done' : q[1] = h /\ Done'[q].op = "fee"}
      BY Zenon DEF FeesAt
    <3>5. DOMAIN FeesAt(Done, h) = DOMAIN FeesAt(Done', h)
      BY <1>6, <3>1, <3>2, <3>3, <3>4, Zenon
    <3>6. QED BY <1>6, <3>1, <3>3, <3>5, Zenon DEF FeesAt
  <2>4. ASSUME NEW t \in CostType
        PROVE  /\ DOMAIN CostsAt(Done, t, h) = DOMAIN CostsAt(Done', t, h)
               /\ \A q \in DOMAIN CostsAt(Done, t, h) : CostsAt(Done', t, h)[q] = CostsAt(Done, t, h)[q]
    <3>1. \A q : q \in DOMAIN Done /\ q[1] = h => q \in DOMAIN Done'
      BY <1>6, <1>7, <1>9
    <3>2. \A q : q \in DOMAIN Done' => q \in DOMAIN Done
      BY <1>6
    <3>3. DOMAIN CostsAt(Done, t, h) = {q \in DOMAIN Done : q[1] = h /\ Done[q].op = "cost" /\ Done[q].type = t}
      BY Zenon DEF CostsAt
    <3>4. DOMAIN CostsAt(Done', t, h) = {q \in DOMAIN Done' : q[1] = h /\ Done'[q].op = "cost" /\ Done'[q].type = t}
      BY Zenon DEF CostsAt
    <3>5. DOMAIN CostsAt(Done, t, h) = DOMAIN CostsAt(Done', t, h)
      BY <1>6, <3>1, <3>2, <3>3, <3>4, Zenon
    <3>6. QED BY <1>6, <3>1, <3>3, <3>5, Zenon DEF CostsAt
  <2>5. CASE h = 0
    <3>1. EntriesMatch(Done, h)'
      BY <2>1, <2>2, <2>5, Zenon DEF EntriesMatch
    <3>2. QED BY <1>1, <1>9, <3>1, Zenon DEF EntriesSoFar
  <2>6. CASE h # 0
    <3>1. IsFirst(fee[h], FeesAt(Done, h)) /\ \A t \in CostType : IsFirst(cost[t][h], CostsAt(Done, t, h))
      BY <2>1, <2>6, Zenon DEF EntriesMatch
    <3>2. IsFirst(fee[h], FeesAt(Done', h))
      BY <2>3, <3>1, SameFirst, Zenon
    <3>3. \A t \in CostType : IsFirst(cost[t][h], CostsAt(Done', t, h))
      BY <2>4, <3>1, SameFirst, Zenon
    <3>4. EntriesMatch(Done, h)'
      BY <2>2, <2>6, <3>2, <3>3, Zenon DEF EntriesMatch
    <3>5. QED BY <1>1, <1>9, <3>4, Zenon DEF EntriesSoFar
  <2>7. QED BY <2>5, <2>6, Zenon
<1>10. QED BY <1>8, <1>9, Zenon

-----------------------------------------------------------------------------
(* Frozen scripts. *)

\* A set with at most one element.
LEMMA AtMostOne ==
    ASSUME NEW S, IsFiniteSet(S), ~(Cardinality(S) > 1), NEW a \in S, NEW b \in S
    PROVE  a = b
<1> SUFFICES ASSUME a # b PROVE FALSE
  OBVIOUS
<1>1. IsFiniteSet({a}) /\ Cardinality({a}) = 1
  BY FS_Singleton, Zenon
<1>2. IsFiniteSet({a} \cup {b}) /\ Cardinality({a} \cup {b}) = 2
  <2>1. b \notin {a}
    OBVIOUS
  <2>2. Cardinality({a} \cup {b}) = Cardinality({a}) + 1
    BY <1>1, <2>1, FS_AddElement, Zenon
  <2>3. IsFiniteSet({a} \cup {b})
    BY <1>1, FS_AddElement, Zenon
  <2>4. QED BY <1>1, <2>2, <2>3
<1>3. Cardinality({a} \cup {b}) <= Cardinality(S)
  BY FS_Subset
<1>4. Cardinality(S) \in Nat
  BY FS_CardinalityType
<1>5. QED BY <1>2, <1>3, <1>4

\* The test of IrregularIn on a transaction of the block at the next height.
LEMMA RegularTx ==
    ASSUME NEW tx \in Tx, NEW s \in Script \ IrregularIn(tx), MasterKey \in tx.from
    PROVE  NamedOnce(tx, Len(chain) + 1, s)
<1> SUFFICES ASSUME NEW j \in DOMAIN tx.outs,
                    tx.outs[j].op \in {"freeze", "unfreeze"}, tx.outs[j].script = s
             PROVE  /\ ~tx.stake /\ Len(chain) + 1 >= GovernanceHeight
                    /\ \A k \in DOMAIN tx.outs :
                          tx.outs[k].op \in {"freeze", "unfreeze"} /\ tx.outs[k].script = s => k = j
  BY Zenon DEF NamedOnce
<1> DEFINE ops == {i \in DOMAIN tx.outs :
                      tx.outs[i].op \in {"freeze", "unfreeze"} /\ tx.outs[i].script = s}
           most == IF tx.stake \/ ~AreGovernanceDeployed THEN 0 ELSE 1
<1>1. ~(Cardinality(ops) > most)
  BY Zenon DEF IrregularIn
<1>2. tx.outs \in Seq(Op)
  BY DEF Tx
<1>3. DOMAIN tx.outs = 1 .. Len(tx.outs) /\ Len(tx.outs) \in Nat
  BY <1>2, LenProperties
<1>4. IsFiniteSet(DOMAIN tx.outs)
  BY <1>3, FS_Interval
<1>5. ops \subseteq DOMAIN tx.outs
  OBVIOUS
<1>6. IsFiniteSet(ops)
  BY <1>4, <1>5, FS_Subset, Zenon
<1>7. j \in ops
  BY Zenon
<1> HIDE DEF ops
<1>8. Cardinality(ops) \in Nat /\ Cardinality(ops) # 0
  BY <1>6, <1>7, FS_CardinalityType, FS_EmptySet, SMTT(30)
<1>9. ~tx.stake /\ Len(chain) + 1 >= GovernanceHeight /\ ~(Cardinality(ops) > 1)
  BY <1>1, <1>8 DEF AreGovernanceDeployed
<1>10. \A k \in ops : k = j
  BY <1>6, <1>7, <1>9, AtMostOne, Zenon
<1>11. QED BY <1>9, <1>10, Zenon DEF ops

\* ConnectBlock comes to a transaction: the scripts it names in an irregular way are
\* irregular from now on.
LEMMA RegularConnectTx ==
    ASSUME RestOK, RestOK', WalkIsRight, mode = "connect", ConnectTx, mode' = "connect",
           NEW s \in Script \ irregular', IsRegular(s)
    PROVE  IsRegular(s)'
<1>1. /\ Extended' = Extended /\ Current' = Current + 1
      /\ Head(todo) = block.txs[Current + 1] /\ Current + 1 \in DOMAIN block.txs
      /\ irregular' = irregular \cup IrregularIn(Head(todo))
  BY ConnectTxWalk, Zenon
<1>2. /\ Extended \in Seq(Block) /\ Len(Extended) \in Nat /\ Len(Extended) \in DOMAIN Extended
      /\ Extended[Len(Extended)] = block /\ Current \in Nat /\ block.txs \in Seq(Tx)
      /\ Len(Extended) = Len(chain) + 1
  BY Hand, Zenon
<1>3. s \notin IrregularIn(Head(todo)) /\ Head(todo) \in Tx
  BY <1>1, <1>2, LenProperties
<1> SUFFICES ASSUME NEW h \in DOMAIN Extended, NEW i \in DOMAIN Extended[h].txs,
                    h = Len(Extended) => i <= Current + 1,
                    MasterKey \in Extended[h].txs[i].from
             PROVE  NamedOnce(Extended[h].txs[i], h, s)
  BY <1>1, Zenon DEF IsRegular, Regular
<1>4. CASE h = Len(Extended) /\ i = Current + 1
  <2>1. Extended[h].txs[i] = Head(todo) /\ h = Len(chain) + 1
    BY <1>1, <1>2, <1>4, Zenon
  <2>2. QED BY <1>3, <2>1, RegularTx, Zenon
<1>5. CASE ~(h = Len(Extended) /\ i = Current + 1)
  <2>1. i \in Nat
    <3>1. Extended[h].txs \in Seq(Tx)
      BY <1>2, TxsType, LenProperties
    <3>2. QED BY <3>1, LenProperties
  <2>2. h = Len(Extended) => i <= Current
    BY <1>2, <1>5, <2>1
  <2>3. QED BY <2>2, Zenon DEF IsRegular, Regular
<1>6. QED BY <1>4, <1>5, Zenon

\* A step that applies and reverts nothing.
LEMMA FreezesStay ==
    ASSUME FreezesSoFar, OnChain, irregular \subseteq irregular', Done' = Done, list' = list,
           \A s \in Script \ irregular' : IsRegular(s) => IsRegular(s)'
    PROVE  FreezesSoFar'
<1> SUFFICES ASSUME NEW s \in Script \ (irregular' \cup {DummyScript})
             PROVE  /\ IsRegular(s)'
                    /\ Alternates(Done', FreezesOf(Done', s))
                    /\ list'[s] = "frozen" <=> EndsFrozen(Done', FreezesOf(Done', s))
                    /\ list'[s] = "none" => FreezesOf(Done', s) = {}
  BY Zenon DEF FreezesSoFar
<1>1. s \in Script \ (irregular \cup {DummyScript}) /\ s \in Script \ irregular'
  OBVIOUS
<1>2. /\ IsRegular(s)
      /\ Alternates(Done, FreezesOf(Done, s))
      /\ list[s] = "frozen" <=> EndsFrozen(Done, FreezesOf(Done, s))
      /\ list[s] = "none" => FreezesOf(Done, s) = {}
  BY <1>1, Zenon DEF FreezesSoFar
<1>3. QED BY <1>1, <1>2, Zenon

\* FreezeScript and UnfreezeScript change what the chain says, or the script is
\* irregular from now on.
LEMMA FreezesConnectOutput ==
    ASSUME DbOK, RestOK, RestOK', WalkIsRight, FreezesSoFar, mode = "connect", ConnectOutput
    PROVE  FreezesSoFar'
<1> DEFINE o == Head(outs)
<1>1. /\ Apply(o) /\ UNCHANGED <<chain, mode>> /\ outs # <<>>
      /\ irregular' = irregular \cup (IF Redundant(o) THEN {o.script} ELSE {})
  BY Zenon DEF ConnectOutput
<1>2. Extended' = Extended /\ Current' = Current /\ OnChain
  BY ConnectOutputWalk DEF OnChain
<1>3. o \in Op /\ list \in [Script -> {"none", "frozen", "unfrozen"}]
  BY <1>1, HeadTailProperties DEF RestOK, DbOK
<1> SUFFICES ASSUME NEW s \in Script \ (irregular' \cup {DummyScript})
             PROVE  /\ IsRegular(s)'
                    /\ Alternates(Done', FreezesOf(Done', s))
                    /\ list'[s] = "frozen" <=> EndsFrozen(Done', FreezesOf(Done', s))
                    /\ list'[s] = "none" => FreezesOf(Done', s) = {}
  BY Zenon DEF FreezesSoFar
<1>4. s \in Script \ (irregular \cup {DummyScript}) /\ (Redundant(o) => o.script # s)
  BY <1>1
<1>5. /\ IsRegular(s)
      /\ Alternates(Done, FreezesOf(Done, s))
      /\ list[s] = "frozen" <=> EndsFrozen(Done, FreezesOf(Done, s))
      /\ list[s] = "none" => FreezesOf(Done, s) = {}
  BY <1>2, <1>4, Zenon DEF FreezesSoFar
<1>6. IsRegular(s)'
  BY <1>1, <1>2, <1>5, Zenon DEF IsRegular
<1>7. CASE o.op = "cost" \/ o.script # MasterKey
  <2>1. /\ Here \in Site \ DOMAIN Done
        /\ DOMAIN Done' = DOMAIN Done \cup {Here} /\ Done'[Here] = o
        /\ \A q \in DOMAIN Done : Done'[q] = Done[q] /\ Precedes(q, Here)
    BY <1>7, ConnectOutputWalk, Zenon
  <2>2. DOMAIN Done \subseteq Site
    BY DoneType
  <2>3. /\ /\ Done'[Here].op \in {"freeze", "unfreeze"} /\ Done'[Here].script = s
           /\ Done'[Here].op = "freeze" <=> ~EndsFrozen(Done, FreezesOf(Done, s))
           => /\ Alternates(Done', FreezesOf(Done', s)) /\ FreezesOf(Done', s) # {}
              /\ EndsFrozen(Done', FreezesOf(Done', s)) <=> Done'[Here].op = "freeze"
        /\ ~(Done'[Here].op \in {"freeze", "unfreeze"} /\ Done'[Here].script = s)
           => /\ FreezesOf(Done', s) = FreezesOf(Done, s)
              /\ Alternates(Done', FreezesOf(Done', s))
              /\ EndsFrozen(Done', FreezesOf(Done', s)) <=> EndsFrozen(Done, FreezesOf(Done, s))
    BY <1>5, <2>1, <2>2, FreezeAdded, Zenon
  <2>4. CASE o.op \in {"freeze", "unfreeze"} /\ o.script = s
    <3>1. o.op = "freeze" <=> list[s] # "frozen"
      BY <1>4, <2>4, SMTT(30) DEF Redundant
    <3>2. list'[s] = IF o.op = "freeze" THEN "frozen" ELSE "unfrozen"
      BY <1>1, <1>3, <1>7, <2>4 DEF Apply, FreezeScript, UnfreezeScript
    <3>3. list'[s] # "none" /\ (list'[s] = "frozen" <=> o.op = "freeze")
      BY <3>2
    <3>4. QED BY <1>5, <1>6, <2>1, <2>3, <2>4, <3>1, <3>3, Zenon
  <2>5. CASE ~(o.op \in {"freeze", "unfreeze"} /\ o.script = s)
    <3>1. list'[s] = list[s]
      BY <1>1, <1>3, <2>5, OpType
         DEF Apply, FreezeScript, UnfreezeScript, UpdateCost, UpdateFeeScript, db
    <3>2. QED BY <1>5, <1>6, <2>1, <2>3, <2>5, <3>1, Zenon
  <2>6. QED BY <2>4, <2>5, Zenon
<1>8. CASE ~(o.op = "cost" \/ o.script # MasterKey)
  <2>1. Done' = Done
    BY <1>8, ConnectOutputWalk, Zenon
  <2>2. list' = list
    BY <1>1, <1>8 DEF Apply, db
  <2>3. QED BY <1>5, <1>6, <2>1, <2>2, Zenon
<1>9. QED BY <1>7, <1>8, Zenon

\* RevertFreezeScript and RevertUnfreezeScript find a regular script as its last
\* operation left it, and leave it as the ones before did.
LEMMA FreezesDisconnectOutput ==
    ASSUME DbOK, RestOK, RestOK', WalkIsRight, FreezesSoFar, mode = "disconnect", DisconnectOutput
    PROVE  FreezesSoFar'
<1> DEFINE o == Head(outs)
           top == Len(Extended)
           tx == Extended[Len(Extended)].txs[Current]
<1>1. Revert(o) /\ UNCHANGED <<chain, mode, irregular>> /\ outs # <<>>
  BY Zenon DEF DisconnectOutput
<1>2. /\ Extended' = Extended /\ Current' = Current /\ Here \in Site
      /\ top \in DOMAIN Extended /\ Current \in DOMAIN Extended[top].txs
      /\ MasterKey \in tx.from
      /\ Looked + 1 \in DOMAIN tx.outs /\ o = tx.outs[Looked + 1]
      /\ DOMAIN Done' = DOMAIN Done \ {Here}
      /\ Here \in DOMAIN Done <=> Looked + 1 \in Acting(tx, top)
      /\ Here \in DOMAIN Done => Done[Here] = o
      /\ \A q \in DOMAIN Done' : Done'[q] = Done[q]
      /\ \A h, i, j : <<h, i, j>> \in DOMAIN Done =>
            Precedes(<<h, i, j>>, Here) \/ (h = top /\ i = Current)
  BY DisconnectOutputWalk, Zenon
<1>3. o \in Op /\ list \in [Script -> {"none", "frozen", "unfrozen"}]
  BY <1>1, HeadTailProperties DEF RestOK, DbOK
<1>4. OnChain /\ mode # "connect"
  BY DEF OnChain
<1> SUFFICES ASSUME NEW s \in Script \ (irregular' \cup {DummyScript})
             PROVE  /\ IsRegular(s)'
                    /\ Alternates(Done', FreezesOf(Done', s))
                    /\ list'[s] = "frozen" <=> EndsFrozen(Done', FreezesOf(Done', s))
                    /\ list'[s] = "none" => FreezesOf(Done', s) = {}
  BY Zenon DEF FreezesSoFar
<1>5. /\ IsRegular(s)
      /\ Alternates(Done, FreezesOf(Done, s))
      /\ list[s] = "frozen" <=> EndsFrozen(Done, FreezesOf(Done, s))
      /\ list[s] = "none" => FreezesOf(Done, s) = {}
  BY <1>1, <1>4, Zenon DEF FreezesSoFar
<1>6. IsRegular(s)'
  BY <1>1, <1>2, <1>5, Zenon DEF IsRegular
<1> DEFINE names(j) == tx.outs[j].op \in {"freeze", "unfreeze"} /\ tx.outs[j].script = s
<1>7. \A j \in DOMAIN tx.outs : names(j) =>
          /\ ~tx.stake /\ top >= GovernanceHeight
          /\ \A k \in DOMAIN tx.outs : names(k) => k = j
  <2>1. NamedOnce(tx, top, s)
    BY <1>2, <1>4, <1>5, Zenon DEF IsRegular, Regular
  <2>2. QED BY <2>1, Zenon DEF NamedOnce
<1>8. DOMAIN Done \subseteq Site /\ Extended \in Seq(Block)
  BY DoneType, Hand
<1>9. Here \in FreezesOf(Done, s) => \A q \in FreezesOf(Done, s) \ {Here} : Precedes(q, Here)
  <2> SUFFICES ASSUME Here \in FreezesOf(Done, s), NEW q \in FreezesOf(Done, s) \ {Here}
               PROVE  Precedes(q, Here)
    BY Zenon
  <2>1. /\ Here \in DOMAIN Done /\ q \in DOMAIN Done /\ q # Here
        /\ Done[Here].op \in {"freeze", "unfreeze"} /\ Done[Here].script = s
        /\ Done[q].op \in {"freeze", "unfreeze"} /\ Done[q].script = s
    BY DEF FreezesOf
  <2>2. names(Looked + 1)
    BY <1>2, <2>1, Zenon
  <2>3. PICK h \in Nat, i \in Nat, j \in Nat : q = <<h, i, j>>
    BY <1>8, <2>1, SMTT(30) DEF Site
  <2>4. /\ h \in DOMAIN Extended /\ i \in DOMAIN Extended[h].txs
        /\ j \in Acting(Extended[h].txs[i], h)
        /\ Done[q] = Extended[h].txs[i].outs[j]
    BY <1>8, <2>1, <2>3, DoneAt
  <2>5. j \in DOMAIN Extended[h].txs[i].outs
    BY <2>4, Zenon DEF Acting
  <2>6. SUFFICES ASSUME h = top, i = Current PROVE FALSE
    BY <1>2, <2>1, <2>3, Zenon
  <2>7. j \in DOMAIN tx.outs /\ names(j)
    BY <2>1, <2>4, <2>5, <2>6, Zenon
  <2>8. j = Looked + 1
    BY <1>2, <1>7, <2>2, <2>7, Zenon
  <2>9. QED BY <2>1, <2>3, <2>6, <2>8, Zenon DEF Here
<1>10. /\ Alternates(Done', FreezesOf(Done', s))
       /\ FreezesOf(Done', s) \subseteq FreezesOf(Done, s)
       /\ IF Here \in FreezesOf(Done, s)
          THEN /\ EndsFrozen(Done, FreezesOf(Done, s)) <=> Done[Here].op = "freeze"
               /\ Done[Here].op = "freeze" <=> ~EndsFrozen(Done', FreezesOf(Done', s))
          ELSE EndsFrozen(Done', FreezesOf(Done', s)) <=> EndsFrozen(Done, FreezesOf(Done, s))
  <2> DEFINE f == Done
             g == Done'
  <2>1. /\ DOMAIN f \subseteq Site /\ DOMAIN g = DOMAIN f \ {Here}
        /\ \A q \in DOMAIN g : g[q] = f[q]
        /\ Alternates(f, FreezesOf(f, s))
        /\ Here \in FreezesOf(f, s) => \A q \in FreezesOf(f, s) \ {Here} : Precedes(q, Here)
    BY <1>2, <1>5, <1>8, <1>9, ZenonT(30)
  <2> HIDE DEF f, g
  <2>2. /\ Alternates(g, FreezesOf(g, s))
        /\ FreezesOf(g, s) \subseteq FreezesOf(f, s)
        /\ IF Here \in FreezesOf(f, s)
           THEN /\ EndsFrozen(f, FreezesOf(f, s)) <=> f[Here].op = "freeze"
                /\ f[Here].op = "freeze" <=> ~EndsFrozen(g, FreezesOf(g, s))
           ELSE EndsFrozen(g, FreezesOf(g, s)) <=> EndsFrozen(f, FreezesOf(f, s))
    BY ONLY <2>1, FreezeRemoved, Zenon
  <2>3. QED BY <2>2, Zenon DEF f, g
<1>11. CASE o.op \in {"freeze", "unfreeze"} /\ o.script = s /\ s # MasterKey
  <2>1. names(Looked + 1)
    BY <1>2, <1>11, Zenon
  <2>2. Looked + 1 \in Acting(tx, top)
    BY <1>2, <1>7, <1>11, <2>1, Zenon DEF Acting
  <2>3. Here \in FreezesOf(Done, s) /\ Done[Here] = o
    BY <1>2, <1>11, <2>2, Zenon DEF FreezesOf
  <2>4. list[s] = "frozen" <=> o.op = "freeze"
    BY <1>5, <1>10, <2>3, Zenon
  <2>5. list[s] # "none"
    BY <1>5, <2>3
  <2>6. list[s] = IF o.op = "freeze" THEN "frozen" ELSE "unfrozen"
    BY <1>3, <2>4, <2>5, SMTT(30)
  <2>7. list'[s] = IF o.op = "freeze" THEN "unfrozen" ELSE "frozen"
    BY <1>1, <1>3, <1>11, <2>6 DEF Revert, RevertFreezeScript, RevertUnfreezeScript
  <2>8. list'[s] # "none" /\ (list'[s] = "frozen" <=> o.op # "freeze")
    BY <2>7
  <2>9. QED BY <1>6, <1>10, <2>3, <2>8, Zenon
<1>12. CASE ~(o.op \in {"freeze", "unfreeze"} /\ o.script = s /\ s # MasterKey)
  <2>1. list'[s] = list[s]
    BY <1>1, <1>3, <1>12, OpType
       DEF Revert, RevertFreezeScript, RevertUnfreezeScript, RevertUpdateCost, RevertUpdateFeeScript, db
  <2>2. Here \notin FreezesOf(Done, s)
    <3>1. SUFFICES ASSUME Here \in FreezesOf(Done, s) PROVE FALSE
      OBVIOUS
    <3>2. Here \in DOMAIN Done /\ o.op \in {"freeze", "unfreeze"} /\ o.script = s
      BY <1>2, <3>1, Zenon DEF FreezesOf
    <3>3. o.op = "cost" \/ o.script # MasterKey
      BY <1>2, <3>2, Zenon DEF Acting
    <3>4. QED BY <1>12, <3>2, <3>3
  <2>3. list[s] = "none" => FreezesOf(Done', s) = {}
    BY <1>5, <1>10, Zenon
  <2>4. QED BY <1>5, <1>6, <1>10, <2>1, <2>2, <2>3, Zenon
<1>13. QED BY <1>11, <1>12, Zenon

-----------------------------------------------------------------------------
(* The steps, once more. *)

\* The database is what the part of the chain that is in force prescribes.
ChainInv == WalkIsRight /\ CostsSoFar /\ FreezesSoFar

\* A script of a chain that only grows by a block not yet looked at, shrinks, or
\* stays with the walk not further, is as regular as before.
LEMMA RegularStays ==
    ASSUME NEW s, IsRegular(s),
           \A h \in DOMAIN Extended' : \A i \in DOMAIN Extended'[h].txs :
              (mode' = "connect" /\ h = Len(Extended') => i <= Current') =>
                 /\ h \in DOMAIN Extended /\ Extended[h] = Extended'[h]
                 /\ mode = "connect" /\ h = Len(Extended) => i <= Current
    PROVE  IsRegular(s)'
<1> SUFFICES ASSUME NEW h \in DOMAIN Extended', NEW i \in DOMAIN Extended'[h].txs,
                    mode' = "connect" /\ h = Len(Extended') => i <= Current',
                    MasterKey \in Extended'[h].txs[i].from
             PROVE  NamedOnce(Extended'[h].txs[i], h, s)
  BY Zenon DEF IsRegular, Regular
<1>1. /\ h \in DOMAIN Extended /\ Extended[h] = Extended'[h]
      /\ mode = "connect" /\ h = Len(Extended) => i <= Current
  BY Zenon
<1>2. QED BY <1>1, Zenon DEF IsRegular, Regular

\* ConnectTip and TestBlockValidity begin.
LEMMA ChainStartConnect ==
    ASSUME DbOK, RestOK, RestOK', ChainInv,
           NEW b \in Block, NEW m \in {"connect", "check"}, StartConnect(b, m)
    PROVE  ChainInv'
<1>1. /\ mode = "idle" /\ mode' = m /\ OnChain /\ UNCHANGED <<list, cost, fee, chain, irregular>>
  BY DEF StartConnect, Idle, OnChain
<1>2. CASE m = "check"
  <2>1. mode' = "check" /\ ~OnChain'
    BY <1>1, <1>2 DEF OnChain
  <2>2. WalkIsRight'
    BY <2>1, Zenon DEF WalkIsRight
  <2>3. QED BY <2>1, <2>2, Nothing, Zenon DEF ChainInv
<1>3. CASE m = "connect"
  <2>1. /\ WalkIsRight' /\ Done' = Done
        /\ Extended = chain /\ Extended' = Append(chain, b) /\ Current' = 0
    BY <1>3, StartConnectWalk, Zenon DEF ChainInv
  <2>2. CostsSoFar'
    <3>1. \A h : mode' = "disconnect" /\ h = Len(chain') <=> mode = "disconnect" /\ h = Len(chain)
      BY <1>1, <1>3
    <3>2. irregular' \subseteq Script
      BY DEF RestOK
    <3>3. irregular \subseteq irregular'
      BY <1>1
    <3>4. QED BY <1>1, <2>1, <3>1, <3>2, <3>3, CostsStay, Zenon DEF ChainInv
  <2>3. ASSUME NEW s, IsRegular(s)
        PROVE  IsRegular(s)'
    <3>1. chain \in Seq(Block) /\ Len(chain) \in Nat /\ DOMAIN chain = 1 .. Len(chain)
      BY LenProperties, SMTT(30) DEF RestOK
    <3>2. /\ Append(chain, b) \in Seq(Block) /\ Len(Append(chain, b)) = Len(chain) + 1
          /\ \A h \in 1 .. Len(chain) : Append(chain, b)[h] = chain[h]
      BY <3>1, AppendProperties
    <3>3. DOMAIN Append(chain, b) = 1 .. (Len(chain) + 1)
      BY <3>2, LenProperties
    <3>4. ASSUME NEW h \in 1 .. (Len(chain) + 1), NEW i \in DOMAIN Append(chain, b)[h].txs,
                 h = Len(chain) + 1 => i <= 0
          PROVE  h \in 1 .. Len(chain) /\ Append(chain, b)[h] = chain[h]
      <4>1. Append(chain, b)[h].txs \in Seq(Tx)
        BY <3>2, <3>3, TxsType, LenProperties
      <4>2. i \in Nat \ {0}
        BY <4>1, LenProperties
      <4>3. h \in 1 .. Len(chain)
        BY <3>1, <3>4, <4>2
      <4>4. QED BY <3>2, <4>3, Zenon
    <3>5. mode # "connect" /\ mode' = "connect"
      BY <1>1, <1>3
    <3>6. \A h \in DOMAIN Extended' : \A i \in DOMAIN Extended'[h].txs :
              (mode' = "connect" /\ h = Len(Extended') => i <= Current') =>
                 /\ h \in DOMAIN Extended /\ Extended[h] = Extended'[h]
                 /\ mode = "connect" /\ h = Len(Extended) => i <= Current
      BY <2>1, <3>1, <3>2, <3>3, <3>4, <3>5, Zenon
    <3>7. QED BY <2>3, <3>6, RegularStays, Zenon
  <2>4. FreezesSoFar'
    <3>1. irregular \subseteq irregular'
      BY <1>1
    <3>2. QED BY <1>1, <2>1, <2>3, <3>1, FreezesStay, Zenon DEF ChainInv
  <2>5. QED BY <2>1, <2>2, <2>4, Zenon DEF ChainInv
<1>4. QED BY <1>2, <1>3, Zenon

\* One transaction of ConnectBlock.
LEMMA ChainConnectTx ==
    ASSUME DbOK, RestOK, RestOK', ChainInv, ConnectTx
    PROVE  ChainInv'
<1>1. /\ mode \in {"connect", "check", "reverify"} /\ UNCHANGED <<list, cost, fee, chain>>
      /\ \/ mode' = mode /\ irregular \subseteq irregular'
         \/ mode' = "idle" /\ irregular' = Script
  BY DEF ConnectTx, Connecting, BackToIdle
<1>2. irregular \subseteq Script /\ irregular' \subseteq Script
  BY DEF RestOK
<1>3. CASE mode' = "idle" /\ irregular' = Script
  <2>1. WalkIsRight'
    BY <1>3, Zenon DEF WalkIsRight
  <2>2. QED BY <1>3, <2>1, Nothing, Zenon DEF ChainInv
<1>4. CASE mode = "check" /\ mode' = mode
  <2>1. ~OnChain' /\ mode' = "check"
    BY <1>4 DEF OnChain
  <2>2. WalkIsRight'
    BY <2>1, Zenon DEF WalkIsRight
  <2>3. QED BY <2>1, <2>2, Nothing, Zenon DEF ChainInv
<1>5. CASE mode = "reverify" /\ mode' = mode /\ irregular \subseteq irregular'
  <2>1. irregular = Script
    BY <1>5, Zenon DEF ChainInv, WalkIsRight
  <2>2. irregular' = Script /\ mode' = "reverify"
    BY <1>2, <1>5, <2>1
  <2>3. WalkIsRight'
    BY <2>2, Zenon DEF WalkIsRight
  <2>4. QED BY <2>2, <2>3, Nothing, Zenon DEF ChainInv
<1>6. CASE mode = "connect" /\ mode' = mode /\ irregular \subseteq irregular'
  <2>1. WalkIsRight' /\ Done' = Done
    BY <1>6, ConnectTxWalk, Zenon DEF ChainInv
  <2>2. OnChain /\ \A h : mode' = "disconnect" /\ h = Len(chain') <=> mode = "disconnect" /\ h = Len(chain)
    BY <1>6 DEF OnChain
  <2>3. CostsSoFar'
    BY <1>1, <1>2, <1>6, <2>1, <2>2, CostsStay, Zenon DEF ChainInv
  <2>4. \A s \in Script \ irregular' : IsRegular(s) => IsRegular(s)'
    BY <1>6, RegularConnectTx, Zenon DEF ChainInv
  <2>5. FreezesSoFar'
    BY <1>1, <1>6, <2>1, <2>2, <2>4, FreezesStay, Zenon DEF ChainInv
  <2>6. QED BY <2>1, <2>3, <2>5, Zenon DEF ChainInv
<1>7. QED BY <1>1, <1>3, <1>4, <1>5, <1>6, Zenon

\* One output of ConnectBlock.
LEMMA ChainConnectOutput ==
    ASSUME DbOK, RestOK, RestOK', ChainInv, ConnectOutput
    PROVE  ChainInv'
<1>1. mode \in {"connect", "check", "reverify"} /\ mode' = mode /\ irregular \subseteq irregular'
  BY DEF ConnectOutput, Connecting
<1>2. irregular \subseteq Script /\ irregular' \subseteq Script
  BY DEF RestOK
<1>3. CASE mode = "check"
  <2>1. ~OnChain' /\ mode' = "check"
    BY <1>1, <1>3 DEF OnChain
  <2>2. WalkIsRight'
    BY <2>1, Zenon DEF WalkIsRight
  <2>3. QED BY <2>1, <2>2, Nothing, Zenon DEF ChainInv
<1>4. CASE mode = "reverify"
  <2>1. irregular = Script
    BY <1>4, Zenon DEF ChainInv, WalkIsRight
  <2>2. irregular' = Script /\ mode' = "reverify"
    BY <1>1, <1>2, <1>4, <2>1
  <2>3. WalkIsRight'
    BY <2>2, Zenon DEF WalkIsRight
  <2>4. QED BY <2>2, <2>3, Nothing, Zenon DEF ChainInv
<1>5. CASE mode = "connect"
  BY <1>5, ConnectOutputWalk, CostsConnectOutput, FreezesConnectOutput, Zenon DEF ChainInv
<1>6. QED BY <1>1, <1>3, <1>4, <1>5, Zenon

\* The end of ConnectBlock.
LEMMA ChainFinishConnect ==
    ASSUME DbOK, RestOK, RestOK', ChainInv, FinishConnect
    PROVE  ChainInv'
<1>1. /\ mode' = "idle" /\ UNCHANGED <<list, cost, fee>>
      /\ (mode = "connect" /\ ~block.overpays) \/ irregular' = Script
  BY DEF FinishConnect, BackToIdle
<1>2. CASE irregular' = Script
  <2>1. WalkIsRight'
    BY <1>1, Zenon DEF WalkIsRight
  <2>2. QED BY <1>2, <2>1, Nothing, Zenon DEF ChainInv
<1>3. CASE mode = "connect" /\ ~block.overpays
  <2>1. /\ WalkIsRight' /\ Done' = Done
        /\ Extended' = Extended /\ Current = Len(block.txs) /\ irregular' = irregular
    BY <1>3, FinishConnectWalk, Zenon DEF ChainInv
  <2>2. /\ OnChain /\ irregular \subseteq irregular' /\ irregular' \subseteq Script
        /\ \A h : mode' = "disconnect" /\ h = Len(chain') <=> mode = "disconnect" /\ h = Len(chain)
    BY <1>1, <1>3, <2>1 DEF OnChain, RestOK
  <2>3. CostsSoFar'
    BY <1>1, <2>1, <2>2, CostsStay, Zenon DEF ChainInv
  <2>4. ASSUME NEW s, IsRegular(s)
        PROVE  IsRegular(s)'
    <3>1. Extended[Len(Extended)] = block /\ block.txs \in Seq(Tx)
      BY <1>3, Hand, Zenon DEF ChainInv
    <3>2. \A i \in DOMAIN block.txs : i <= Current
      BY <2>1, <3>1, LenProperties
    <3>3. \A h \in DOMAIN Extended' : \A i \in DOMAIN Extended'[h].txs :
              (mode' = "connect" /\ h = Len(Extended') => i <= Current') =>
                 /\ h \in DOMAIN Extended /\ Extended[h] = Extended'[h]
                 /\ mode = "connect" /\ h = Len(Extended) => i <= Current
      BY <2>1, <3>1, <3>2, Zenon
    <3>4. QED BY <2>4, <3>3, RegularStays, Zenon
  <2>5. FreezesSoFar'
    BY <1>1, <2>1, <2>2, <2>4, FreezesStay, Zenon DEF ChainInv
  <2>6. QED BY <2>1, <2>3, <2>5, Zenon DEF ChainInv
<1>4. QED BY <1>1, <1>2, <1>3, Zenon

\* DisconnectBlock, from its start to its end; what VerifyDB and ReplayBlocks do with it
\* is irregular anyway.
LEMMA ChainDisconnect ==
    ASSUME DbOK, RestOK, RestOK', ChainInv,
           StartDisconnect \/ DisconnectTx \/ DisconnectOutput \/ FinishDisconnect
    PROVE  ChainInv'
<1>1. irregular' = irregular /\ irregular' \subseteq Script /\ irregular \subseteq irregular'
  BY DEF StartDisconnect, DisconnectTx, DisconnectOutput, FinishDisconnect, RestOK
<1>2. CASE StartDisconnect
  <2>1. /\ WalkIsRight' /\ Done' = Done
        /\ mode = "idle" /\ mode' = "disconnect" /\ Extended' = Extended /\ chain' = chain
    BY <1>2, StartDisconnectWalk, Zenon DEF ChainInv
  <2>2. UNCHANGED <<list, cost, fee>> /\ Len(chain) # 0 /\ OnChain
    BY <1>2, <2>1, EmptySeq DEF StartDisconnect, RestOK, OnChain
  <2>3. CostsSoFar'
    BY <1>1, <2>1, <2>2, CostsStartDisconnect, Zenon DEF ChainInv
  <2>4. mode # "connect" /\ mode' # "connect"
    BY <2>1
  <2>5. \A s : IsRegular(s) => IsRegular(s)'
    BY <2>1, <2>4, RegularStays, Zenon
  <2>6. FreezesSoFar'
    BY <1>1, <2>1, <2>2, <2>5, FreezesStay, Zenon DEF ChainInv
  <2>7. QED BY <2>1, <2>3, <2>6, Zenon DEF ChainInv
<1>3. CASE (DisconnectTx \/ DisconnectOutput) /\ mode # "disconnect"
  <2>1. mode \in {"verify", "replay"} /\ mode' = mode
    BY <1>3 DEF DisconnectTx, DisconnectOutput
  <2>2. irregular' = Script
    BY <1>1, <2>1 DEF ChainInv, WalkIsRight
  <2>3. mode' # "connect" /\ mode' # "disconnect"
    BY <2>1
  <2>4. WalkIsRight'
    BY <2>2, <2>3, Zenon DEF WalkIsRight
  <2>5. QED BY <2>2, <2>4, Nothing, Zenon DEF ChainInv
<1>4. CASE DisconnectTx /\ mode = "disconnect"
  <2>1. /\ WalkIsRight' /\ Done' = Done
        /\ mode' = "disconnect" /\ Extended' = Extended /\ chain' = chain
    BY <1>4, DisconnectTxWalk, Zenon DEF ChainInv
  <2>2. UNCHANGED <<list, cost, fee>> /\ OnChain
    BY <1>4 DEF DisconnectTx, OnChain
  <2>3. \A h : mode' = "disconnect" /\ h = Len(chain') <=> mode = "disconnect" /\ h = Len(chain)
    BY <1>4, <2>1
  <2>4. CostsSoFar'
    BY <1>1, <2>1, <2>2, <2>3, CostsStay, Zenon DEF ChainInv
  <2>5. mode # "connect" /\ mode' # "connect"
    BY <1>4, <2>1
  <2>6. \A s : IsRegular(s) => IsRegular(s)'
    BY <2>1, <2>5, RegularStays, Zenon
  <2>7. FreezesSoFar'
    BY <1>1, <2>1, <2>2, <2>6, FreezesStay, Zenon DEF ChainInv
  <2>8. QED BY <2>1, <2>4, <2>7, Zenon DEF ChainInv
<1>5. CASE DisconnectOutput /\ mode = "disconnect"
  BY <1>5, DisconnectOutputWalk, CostsDisconnectOutput, FreezesDisconnectOutput, Zenon DEF ChainInv
<1>6. CASE FinishDisconnect
  <2>1. /\ WalkIsRight' /\ Done' = Done /\ mode = "disconnect" /\ mode' = "idle"
        /\ chain # <<>> /\ Extended = chain /\ Extended' = Front(chain)
        /\ \A h, i, j : <<h, i, j>> \in DOMAIN Done => h # Len(chain)
    BY <1>6, FinishDisconnectWalk, Zenon DEF ChainInv
  <2>2. UNCHANGED <<list, cost, fee>> /\ Len(chain) # 0 /\ OnChain
    BY <1>6, <2>1, EmptySeq, Zenon DEF FinishDisconnect, RestOK, OnChain
  <2>3. DOMAIN Done \subseteq Site
    BY DoneType DEF ChainInv
  <2>4. CostsSoFar'
    BY <1>1, <2>1, <2>2, <2>3, CostsFinishDisconnect, Zenon DEF ChainInv
  <2>5. mode # "connect" /\ mode' # "connect"
    BY <2>1
  <2>6. \A h \in DOMAIN Front(chain) : h \in DOMAIN chain /\ chain[h] = Front(chain)[h]
    <3>1. chain \in Seq(Block) /\ Len(chain) \in Nat \ {0} /\ DOMAIN chain = 1 .. Len(chain)
      BY <2>1, EmptySeq, LenProperties DEF RestOK
    <3>2. Front(chain) \in Seq(Block) /\ Len(Front(chain)) = Len(chain) - 1
      BY <2>1, <3>1, LastFrontType, Zenon
    <3>3. DOMAIN Front(chain) = 1 .. (Len(chain) - 1)
      BY <3>2, LenProperties
    <3>4. \A h \in 1 .. (Len(chain) - 1) : Front(chain)[h] = chain[h]
      BY <3>1 DEF Front
    <3>5. QED BY <3>1, <3>3, <3>4
  <2>7. \A s : IsRegular(s) => IsRegular(s)'
    BY <2>1, <2>5, <2>6, RegularStays, Zenon
  <2>8. FreezesSoFar'
    BY <1>1, <2>1, <2>2, <2>7, FreezesStay, Zenon DEF ChainInv
  <2>9. QED BY <2>1, <2>4, <2>8, Zenon DEF ChainInv
<1>7. QED BY <1>2, <1>3, <1>4, <1>5, <1>6, Zenon

\* VerifyDB, ReplayBlocks and a crash: operations were applied or reverted outside of
\* the chain.
LEMMA ChainIrregular ==
    ASSUME RestOK, ChainInv,
           \/ StartVerify \/ VerifyPrevious \/ VerifyStop \/ VerifyReconnect \/ VerifyNext
           \/ ReplayBlocks \/ ReplayPrevious \/ ReplayEnd \/ Crash
    PROVE  ChainInv'
<1>1. mode \in {"verify", "reverify", "replay"} => irregular = Script
  BY Zenon DEF ChainInv, WalkIsRight
<1>2. irregular' = Script
  <2>1. CASE StartVerify \/ VerifyPrevious
    BY <2>1 DEF StartVerify, VerifyPrevious, VerifyDown
  <2>2. CASE VerifyStop \/ VerifyReconnect \/ VerifyNext
    BY <1>1, <2>2, SMTT(30) DEF VerifyStop, VerifyReconnect, VerifyNext, VerifyUp, VerifyEnd
  <2>3. CASE ReplayBlocks \/ ReplayPrevious \/ Crash
    BY <2>3 DEF ReplayBlocks, ReplayPrevious, ReplayDown, Crash
  <2>4. CASE ReplayEnd
    BY <1>1, <2>4 DEF ReplayEnd
  <2>5. QED BY <2>1, <2>2, <2>3, <2>4
<1>3. mode' \in {"idle", "verify", "reverify", "replay"}
  BY Zenon DEF StartVerify, VerifyPrevious, VerifyStop, VerifyReconnect, VerifyNext, ReplayBlocks,
         ReplayPrevious, ReplayEnd, Crash, VerifyDown, VerifyUp, VerifyEnd, ReplayDown, BackToIdle
<1>4. mode' # "connect" /\ mode' # "disconnect"
  BY <1>3
<1>5. WalkIsRight'
  BY <1>2, <1>4, Zenon DEF WalkIsRight
<1>6. QED BY <1>2, <1>5, Nothing, Zenon DEF ChainInv

\* The empty chain prescribes nothing.
LEMMA EmptyChain ==
    /\ Sites(<<>>) = {}
    /\ \A m, tx, looked : DOMAIN Applied(<<>>, m, tx, looked) = {}
<1>1. <<>> \in Seq(Block) /\ DOMAIN <<>> = {}
  BY EmptySeq
<1>2. Sites(<<>>) = {}
  BY <1>1, Zenon DEF Sites
<1>3. QED BY <1>2 DEF Applied

\* A new or wiped database.
Wiped == NewDatabase(list, number, cost, fee) /\ chain = <<>> /\ mode = "idle"

\* It is right for the empty chain.
LEMMA ChainNew == Wiped => ChainInv
<1> SUFFICES ASSUME NewDatabase(list, number, cost, fee), chain = <<>>, mode = "idle"
             PROVE  ChainInv
  BY Zenon DEF Wiped
<1>1. Extended = <<>> /\ DOMAIN Done = {}
  BY EmptyChain DEF Extended, Done
<1>2. WalkIsRight
  BY Zenon DEF WalkIsRight
<1>3. CostsSoFar
  <2> SUFFICES ASSUME NEW h \in Height PROVE EntriesSoFar(h)
    BY Zenon DEF CostsSoFar
  <2>1. /\ fee[h] = IF h = 0 THEN InitFee ELSE None
        /\ \A t \in CostType : cost[t][h] = IF h = 0 THEN InitCost[t] ELSE None
    BY Zenon DEF NewDatabase
  <2>2. DOMAIN FeesAt(Done, h) = {} /\ \A t \in CostType : DOMAIN CostsAt(Done, t, h) = {}
    BY <1>1, Zenon DEF FeesAt, CostsAt
  <2>3. EntriesMatch(Done, h)
    BY <2>1, <2>2, Zenon DEF EntriesMatch, IsFirst
  <2>4. mode # "disconnect"
    OBVIOUS
  <2>5. QED BY <2>3, <2>4, Zenon DEF EntriesSoFar
<1>4. FreezesSoFar
  <2> SUFFICES ASSUME NEW s \in Script \ (irregular \cup {DummyScript})
               PROVE  /\ IsRegular(s)
                      /\ Alternates(Done, FreezesOf(Done, s))
                      /\ list[s] = "frozen" <=> EndsFrozen(Done, FreezesOf(Done, s))
                      /\ list[s] = "none" => FreezesOf(Done, s) = {}
    BY Zenon DEF FreezesSoFar
  <2>1. FreezesOf(Done, s) = {}
    BY <1>1, Zenon DEF FreezesOf
  <2>2. list[s] = "none"
    BY DEF NewDatabase
  <2>3. DOMAIN Extended = {}
    BY <1>1
  <2>4. IsRegular(s)
    BY <2>3, Zenon DEF IsRegular, Regular
  <2>5. Alternates(Done, {}) /\ ~EndsFrozen(Done, {})
    BY Zenon DEF Alternates, EndsFrozen
  <2>6. list[s] # "frozen"
    BY <2>2
  <2>7. QED BY <2>1, <2>4, <2>5, <2>6, Zenon
<1>5. QED BY <1>2, <1>3, <1>4, Zenon DEF ChainInv

\* The same after -reindex.
LEMMA ChainWiped == Wiped' => ChainInv'
BY ChainNew, PTL

\* Every step keeps the database right for what is in force of the chain.
LEMMA ChainNext ==
    ASSUME IInv, IInv', ChainInv, [Next]_vars
    PROVE  ChainInv'
<1>1. DbOK /\ RestOK /\ RestOK'
  BY Halves DEF IInv, TypeOK, RestOK
<1>2. CASE UNCHANGED vars
  <2>1. /\ Extended' = Extended /\ Current' = Current /\ Looked' = Looked /\ mode' = mode
        /\ UNCHANGED <<list, cost, fee, chain, block, todo, outs, irregular>>
    BY <1>2 DEF vars, Extended, Current, Looked
  <2>2. Done' = Done
    BY <2>1, Zenon DEF Done
  <2>3. WalkIsRight'
    BY <2>1, Zenon DEF ChainInv, WalkIsRight, OutsAreRight
  <2>4. CostsSoFar'
    BY <2>1, <2>2, Zenon DEF ChainInv, CostsSoFar, OnChain, EntriesSoFar, EntriesMatch
  <2>5. \A s : IsRegular(s) <=> IsRegular(s)'
    BY <2>1, Zenon DEF IsRegular
  <2>6. FreezesSoFar'
    BY <2>1, <2>2, <2>5, Zenon DEF ChainInv, FreezesSoFar, OnChain
  <2>7. QED BY <2>3, <2>4, <2>6, Zenon DEF ChainInv
<1>3. ASSUME NEW b \in Block, NEW m \in {"connect", "check"}, StartConnect(b, m)
      PROVE  ChainInv'
  BY <1>1, <1>3, ChainStartConnect, Zenon
<1>4. CASE ConnectTx
  BY <1>1, <1>4, ChainConnectTx, Zenon
<1>5. CASE ConnectOutput
  BY <1>1, <1>5, ChainConnectOutput, Zenon
<1>6. CASE FinishConnect
  BY <1>1, <1>6, ChainFinishConnect, Zenon
<1>7. CASE StartDisconnect \/ DisconnectTx \/ DisconnectOutput \/ FinishDisconnect
  BY <1>1, <1>7, ChainDisconnect, Zenon
<1>8. CASE \/ StartVerify \/ VerifyPrevious \/ VerifyStop \/ VerifyReconnect \/ VerifyNext
           \/ ReplayBlocks \/ ReplayPrevious \/ ReplayEnd \/ Crash
  BY <1>1, <1>8, ChainIrregular, Zenon
<1>9. CASE FlushStateToDisk
  <2>1. /\ UNCHANGED <<list, number, cost, fee, chain, mode, block, at, todo, outs, irregular>>
        /\ mode = "idle"
    BY <1>9, Zenon DEF FlushStateToDisk, Idle
  <2>2. Extended' = Extended /\ Current' = Current /\ Looked' = Looked
    BY <2>1, Zenon DEF Extended, Current, Looked
  <2>3. Done' = Done
    BY <2>1, <2>2, Zenon DEF Done
  <2>4. WalkIsRight'
    BY <2>1, <2>2, Zenon DEF ChainInv, WalkIsRight, OutsAreRight
  <2>5. CostsSoFar'
    BY <2>1, <2>3, Zenon DEF ChainInv, CostsSoFar, OnChain, EntriesSoFar, EntriesMatch
  <2>6. \A s : IsRegular(s) <=> IsRegular(s)'
    BY <2>1, <2>2, Zenon DEF IsRegular
  <2>7. FreezesSoFar'
    BY <2>1, <2>3, <2>6, Zenon DEF ChainInv, FreezesSoFar, OnChain
  <2>8. QED BY <2>4, <2>5, <2>7, Zenon DEF ChainInv
<1>10. ASSUME NEW fReset \in BOOLEAN, Reindex(fReset)
       PROVE  ChainInv'
  <2>1. chain' = <<>> /\ mode' = "idle"
    BY <1>10, Zenon DEF Reindex, BackToIdle
  <2>2. CASE fReset
    <3>1. Wiped'
      BY <1>10, <2>1, <2>2, Zenon DEF Reindex, Wiped
    <3>2. QED BY <3>1, ChainWiped, Zenon
  <2>3. CASE ~fReset
    <3>1. irregular' = Script
      BY <1>10, <2>3, Zenon DEF Reindex
    <3>2. WalkIsRight'
      BY <2>1, Zenon DEF WalkIsRight
    <3>3. QED BY <3>1, <3>2, Nothing, Zenon DEF ChainInv
  <2>4. QED BY <2>2, <2>3, Zenon
<1>11. QED BY <1>2, <1>3, <1>4, <1>5, <1>6, <1>7, <1>8, <1>9, <1>10, Zenon DEF Next

\* Init, as CGovernance::Init leaves it.
LEMMA ChainInit == Init => ChainInv
<1>1. Init => Wiped
  BY Zenon DEF Init, Idle, Wiped
<1>2. QED BY <1>1, ChainNew, Zenon

\* ChainInv is an invariant.
LEMMA ChainInvariance == Spec => [](IInv /\ ChainInv)
<1>1. Init => IInv /\ ChainInv
  BY InitLemma, ChainInit, Zenon
<1>2. IInv /\ ChainInv /\ [Next]_vars => IInv' /\ ChainInv'
  BY NextLemma, ChainNext, Zenon
<1>3. QED BY <1>1, <1>2, PTL DEF Spec

\* Between blocks everything the chain says is in force.
LEMMA IdleDone ==
    ASSUME mode = "idle"
    PROVE  Done = Log(chain)
<1>1. Extended = chain
  BY DEF Extended
<1>2. \A q : InForce(q, "idle", Len(chain), Current, Looked)
  BY DEF InForce
<1>3. {q \in Sites(chain) : InForce(q, "idle", Len(chain), Current, Looked)} = Sites(chain)
  BY <1>2, Zenon
<1>4. Done = [p \in Sites(chain) |-> Log(chain)[p]]
  BY <1>1, <1>3, Zenon DEF Done, Applied
<1>5. QED BY <1>4, Zenon DEF Log

\* What a node charges for a token, and to whom the fee goes, by height, is what the
\* active chain says, after any number of blocks and reorgs of any length; only a
\* block that is not connected, a VerifyDB or a crash spoils it.
THEOREM CostsAreThoseOfTheChain == Spec => []CostsMatchChain
<1>1. IInv /\ ChainInv => CostsMatchChain
  <2> SUFFICES ASSUME ChainInv, Idle, irregular # Script, NEW h \in Height
               PROVE  EntriesMatch(Log(chain), h)
    BY Zenon DEF CostsMatchChain
  <2>1. mode = "idle" /\ mode # "disconnect" /\ OnChain
    BY DEF Idle, OnChain
  <2>2. EntriesMatch(Done, h)
    BY <2>1, Zenon DEF ChainInv, CostsSoFar, EntriesSoFar
  <2>3. QED BY <2>1, <2>2, IdleDone, Zenon
<1>2. QED BY <1>1, ChainInvariance, PTL

\* Which scripts a node lets spend is what the active chain says, for every script whose
\* operations undo one another: the reverts of a reorg, which do not know how a script
\* was before the operation they revert, restore it.
THEOREM FreezeListIsThatOfTheChain == Spec => []FreezeListMatchesChain
<1>1. IInv /\ ChainInv => FreezeListMatchesChain
  <2> SUFFICES ASSUME ChainInv, Idle, NEW s \in Script \ (irregular \cup {DummyScript})
               PROVE  list[s] = "frozen" <=> FrozenByChain(s)
    BY Zenon DEF FreezeListMatchesChain
  <2>1. mode = "idle" /\ OnChain
    BY DEF Idle, OnChain
  <2>2. list[s] = "frozen" <=> EndsFrozen(Done, FreezesOf(Done, s))
    BY <2>1, Zenon DEF ChainInv, FreezesSoFar
  <2>3. QED BY <2>1, <2>2, IdleDone, Zenon DEF FrozenByChain
<1>2. QED BY <1>1, ChainInvariance, PTL
=============================================================================
