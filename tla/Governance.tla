----------------------------- MODULE Governance -----------------------------
(***************************************************************************)
(* The governance database and the code of ConnectBlock, DisconnectBlock   *)
(* and VerifyDB that writes it.  Outputs of a transaction that spends a    *)
(* coin of the master key freeze and unfreeze scripts, set the cost of     *)
(* issuing tokens and set the script the cost is paid to; frozen scripts   *)
(* and costs decide in turn which blocks are valid.                        *)
(*                                                                         *)
(* Unlike coins and tokens, governance has no cache: every operation is a  *)
(* database write of its own, done while the block is being connected or   *)
(* disconnected.  So ConnectBlock and DisconnectBlock take a step per      *)
(* transaction and a step per output here, and the process may stop        *)
(* between any two of them.                                                *)
(***************************************************************************)
EXTENDS Integers, FiniteSets, Sequences

CONSTANTS
    Script,             \* scriptPubKeys
    MasterKey,          \* the script of GovernanceMasterAddress
    DummyScript,        \* DUMMY_SCRIPT
    ShortScript,        \* the scripts that sort before DUMMY_SCRIPT
    CostType,           \* GOVERNANCE_COST_ROOT ... GOVERNANCE_COST_USERNAME
    Cost,               \* CAmount
    InitCost,           \* chainparams: RootFeeAmount() and so on, by type
    InitFee,            \* chainparams: the script of TokenFeeAddress()
    None,               \* no database entry; no issuance
    Block,              \* the blocks that may arrive
    GovernanceHeight,   \* consensus.nGovernanceHeight
    Modulus,            \* 2^32: the frozen scripts are counted in an unsigned int
    MaxHeight,          \* bound: the chain is at most this long,
    FaultHeight,        \* this long after a fault, and shorter when it is flushed
    Faults              \* what may happen besides connecting valid blocks and reorgs

\* The block at the tip, the chain without it, and a block from its last
\* transaction to its first (the prover has no use for the rest of SequencesExt).
Last(s) == s[Len(s)]
Front(s) == SubSeq(s, 1, Len(s) - 1)
Reverse(s) == [i \in 1 .. Len(s) |-> s[(Len(s) - i) + 1]]
IsPrefix(s, t) == Len(s) <= Len(t) /\ s = SubSeq(t, 1, Len(s))

Op ==
    [op : {"freeze", "unfreeze", "fee"}, script : Script]
        \cup [op : {"cost"}, type : CostType, cost : Cost]

\* A transaction: does it come from a staker, whose coins does it spend, what
\* does it pay for an issuance, and its well-formed governance outputs.
Issue == [type : CostType, cost : Cost, fee : Script]
Tx == [stake : BOOLEAN, from : SUBSET Script, issue : Issue \cup {None}, outs : Seq(Op)]

Height == 0 .. MaxHeight

ASSUME ScriptAssumption ==
    /\ IsFiniteSet(Script) /\ {MasterKey, DummyScript, InitFee} \subseteq Script
    /\ MasterKey \notin {DummyScript, InitFee}
    /\ ShortScript \subseteq Script \ {DummyScript}
ASSUME CostAssumption == InitCost \in [CostType -> Cost] /\ None \notin Cost \cup Script \cup Issue
ASSUME BlockAssumption == Block \subseteq [txs : Seq(Tx), overpays : BOOLEAN]
ASSUME ModulusAssumption == Modulus \in Nat /\ Modulus > Cardinality(Script)
ASSUME MaxHeightAssumption == MaxHeight \in Nat
ASSUME GovernanceHeightAssumption == GovernanceHeight \in Nat

VARIABLES
    list,       \* 'a' + script: "none", "frozen" or "unfrozen"
    number,     \* 'N': the number of frozen scripts
    cost,       \* 'c' + type + height
    fee,        \* 'f' + height
    chain,      \* chainActive above the genesis block
    flushed,    \* the chain of the chainstate database
    mode,       \* what is being done with a block
    block,      \* that block
    at,         \* the height VerifyDB has reached
    todo,       \* transactions of the block not yet looked at
    outs,       \* governance outputs of the transaction not yet applied
    irregular   \* history: scripts whose operations do not undo one another; all of
                \* them once operations were applied outside of the chain

db == <<list, number, cost, fee>>
vars == <<list, number, cost, fee, chain, flushed, mode, block, at, todo, outs, irregular>>

Idle == mode = "idle" /\ block = None /\ at = 0 /\ todo = <<>> /\ outs = <<>>

Frozen == {s \in Script : list[s] = "frozen"}

TypeOK ==
    /\ list \in [Script -> {"none", "frozen", "unfrozen"}]
    /\ number \in 0 .. (Modulus - 1)
    /\ cost \in [CostType -> [Height -> Cost \cup {None}]]
    /\ fee \in [Height -> Script \cup {None}]
    /\ chain \in Seq(Block) /\ Len(chain) <= MaxHeight
    /\ flushed \in Seq(Block) /\ Len(flushed) <= MaxHeight
    /\ mode \in {"idle", "connect", "check", "disconnect", "verify", "reverify", "replay"}
    /\ block \in Block \cup {None}
    /\ at \in Height
    /\ todo \in Seq(Tx)
    /\ outs \in Seq(Op)
    /\ irregular \in SUBSET Script

-----------------------------------------------------------------------------
(* The database. *)

\* CGovernance::Init of a new or wiped database.
NewDatabase(l, n, c, g) ==
    /\ l = [s \in Script |-> IF s = DummyScript THEN "frozen" ELSE "none"]
    /\ n = 0
    /\ c = [t \in CostType |-> [h \in Height |-> IF h = 0 THEN InitCost[t] ELSE None]]
    /\ g = [h \in Height |-> IF h = 0 THEN InitFee ELSE None]

\* Mutant: no wrap-around.
DecSigned(n) == n - 1

\* unsigned int
Inc(n) == IF n = Modulus - 1 THEN 0 ELSE n + 1
Dec(n) == IF n = 0 THEN Modulus - 1 ELSE n - 1

\* Mutant: a script that is frozen already is counted again.
FreezeScriptCountsTwice(s) ==
    /\ list' = [list EXCEPT ![s] = "frozen"]
    /\ number' = Inc(number)
    /\ UNCHANGED <<cost, fee>>

FreezeScript(s) ==
    /\ list' = [list EXCEPT ![s] = "frozen"]
    /\ number' = IF list[s] = "frozen" THEN number ELSE Inc(number)
    /\ UNCHANGED <<cost, fee>>

UnfreezeScript(s) ==
    /\ list' = [list EXCEPT ![s] = "unfrozen"]
    /\ number' = IF list[s] = "frozen" THEN Dec(number) ELSE number
    /\ UNCHANGED <<cost, fee>>

\* The reverts do nothing and return false where the entry is not as the
\* reverted operation left it.  Their callers ignore the result.
RevertFreezeScript(s) ==
    IF list[s] = "frozen"
    THEN /\ list' = [list EXCEPT ![s] = "unfrozen"]
         /\ number' = Dec(number)
         /\ UNCHANGED <<cost, fee>>
    ELSE UNCHANGED db

RevertUnfreezeScript(s) ==
    IF list[s] = "unfrozen"
    THEN /\ list' = [list EXCEPT ![s] = "frozen"]
         /\ number' = Inc(number)
         /\ UNCHANGED <<cost, fee>>
    ELSE UNCHANGED db

\* Mutant: a later update in the same block overwrites the first.
UpdateCostOverwrites(c, t, h) ==
    /\ cost' = [cost EXCEPT ![t][h] = c]
    /\ UNCHANGED <<list, number, fee>>

\* The first update of a type in a block counts.
UpdateCost(c, t, h) ==
    /\ cost' = [cost EXCEPT ![t][h] = IF cost[t][h] = None THEN c ELSE @]
    /\ UNCHANGED <<list, number, fee>>

RevertUpdateCost(t, h) ==
    /\ cost' = [cost EXCEPT ![t][h] = None]
    /\ UNCHANGED <<list, number, fee>>

UpdateFeeScript(s, h) ==
    /\ fee' = [fee EXCEPT ![h] = IF fee[h] = None THEN s ELSE @]
    /\ UNCHANGED <<list, number, cost>>

RevertUpdateFeeScript(h) ==
    /\ fee' = [fee EXCEPT ![h] = None]
    /\ UNCHANGED <<list, number, cost>>

CanSend(s) == list[s] # "frozen"

\* The entry with the greatest height, whatever the height of the chain.
Latest(entry) ==
    LET heights == {h \in Height : entry[h] # None}
    IN  entry[CHOOSE h \in heights : \A k \in heights : k <= h]

GetCost(t) == Latest(cost[t])
GetFeeScript == Latest(fee)

\* The scripts the database lists, from DUMMY_SCRIPT on.
DumpFreezeStats == {s \in Script \ ShortScript : list[s] # "none"}

-----------------------------------------------------------------------------
(* Connecting and disconnecting blocks. *)

Init ==
    /\ NewDatabase(list, number, cost, fee)
    /\ chain = <<>> /\ flushed = <<>>
    /\ Idle
    /\ irregular = {}

\* AreGovernanceDeployed looks at the active chain, not at the block.
AreGovernanceDeployed == Len(chain) + 1 >= GovernanceHeight

\* pindex->nHeight of the block in hand.
BlockHeight ==
    IF mode \in {"connect", "check"} THEN Len(chain) + 1
    ELSE IF mode = "disconnect" THEN Len(chain)
    ELSE at

Connecting == mode \in {"connect", "check", "reverify"}
BlockDone == todo = <<>> /\ outs = <<>>

\* VerifyNewToken and its kin: an issuance pays the cost in the database to the
\* script in the database.
PaysCost(tx) ==
    tx.issue # None => tx.issue.cost = GetCost(tx.issue.type) /\ tx.issue.fee = GetFeeScript

\* CheckBlock as ConnectBlock calls it: on the database as it is then.
CheckBlock(b) == \A i \in DOMAIN b.txs : PaysCost(b.txs[i])

\* ConnectTip, and TestBlockValidity (mode "check"), call ConnectBlock.
StartConnect(b, m) ==
    /\ Idle /\ Len(chain) < MaxHeight
    /\ irregular = Script => Len(chain) < FaultHeight
    /\ m = "check" => "check" \in Faults
    /\ CheckBlock(b)
    /\ mode' = m /\ block' = b /\ todo' = b.txs
    /\ UNCHANGED <<list, number, cost, fee, chain, flushed, at, outs, irregular>>

BackToIdle ==
    /\ mode' = "idle" /\ block' = None /\ at' = 0
    /\ todo' = <<>> /\ outs' = <<>>

\* The scripts whose freezing the transaction changes in a way that
\* disconnecting it will not undo: twice in the same transaction, or in one
\* that ConnectBlock ignores and DisconnectBlock does not.
IrregularIn(tx) ==
    LET ops(s) == {i \in DOMAIN tx.outs :
                      tx.outs[i].op \in {"freeze", "unfreeze"} /\ tx.outs[i].script = s}
    IN  {s \in Script :
            /\ MasterKey \in tx.from
            /\ Cardinality(ops(s)) > (IF tx.stake \/ ~AreGovernanceDeployed THEN 0 ELSE 1)}

\* One transaction in ConnectBlock: CheckTxInputs, what an issuance pays now,
\* and the search for an input of the master key.  A block that fails here leaves what its earlier
\* transactions wrote.
ConnectTx ==
    /\ Connecting /\ outs = <<>> /\ todo # <<>>
    /\ LET tx == Head(todo) IN
       IF PaysCost(tx) /\ \A s \in tx.from : CanSend(s)
       THEN /\ outs' = IF ~tx.stake /\ AreGovernanceDeployed /\ MasterKey \in tx.from
                       THEN tx.outs ELSE <<>>
            /\ todo' = Tail(todo)
            /\ irregular' = irregular \cup IrregularIn(tx)
            /\ UNCHANGED <<mode, block, at>>
       ELSE BackToIdle /\ irregular' = Script
    /\ UNCHANGED <<list, number, cost, fee, chain, flushed>>

\* Mutant: the failsafe for freezing is missing.
ApplyNoFailsafe(o) ==
    IF o.op = "cost" THEN UpdateCost(o.cost, o.type, BlockHeight)
    ELSE IF o.op = "freeze" THEN FreezeScript(o.script)
    ELSE IF o.script = MasterKey THEN UNCHANGED db
    ELSE IF o.op = "unfreeze" THEN UnfreezeScript(o.script)
    ELSE UpdateFeeScript(o.script, BlockHeight)

\* One governance output, with the failsafe for the master key.
Apply(o) ==
    IF o.op = "cost" THEN UpdateCost(o.cost, o.type, BlockHeight)
    ELSE IF o.script = MasterKey THEN UNCHANGED db
    ELSE IF o.op = "freeze" THEN FreezeScript(o.script)
    ELSE IF o.op = "unfreeze" THEN UnfreezeScript(o.script)
    ELSE UpdateFeeScript(o.script, BlockHeight)

Revert(o) ==
    IF o.op = "cost" THEN RevertUpdateCost(o.type, BlockHeight)
    ELSE IF o.script = MasterKey THEN UNCHANGED db
    ELSE IF o.op = "freeze" THEN RevertFreezeScript(o.script)
    ELSE IF o.op = "unfreeze" THEN RevertUnfreezeScript(o.script)
    ELSE RevertUpdateFeeScript(BlockHeight)

\* An operation that leaves its script as it was.
Redundant(o) ==
    \/ o.op = "freeze" /\ list[o.script] = "frozen"
    \/ o.op = "unfreeze" /\ list[o.script] # "frozen"

ConnectOutput ==
    /\ Connecting /\ outs # <<>>
    /\ Apply(Head(outs))
    /\ irregular' = irregular \cup
           (IF Redundant(Head(outs)) THEN {Head(outs).script} ELSE {})
    /\ outs' = Tail(outs)
    /\ UNCHANGED <<chain, flushed, mode, block, at, todo>>

\* The end of ConnectBlock: the reward is checked last, a block that is only
\* checked goes no further.
FinishConnect ==
    /\ mode \in {"connect", "check"} /\ BlockDone
    /\ IF mode = "connect" /\ ~block.overpays
       THEN chain' = Append(chain, block) /\ UNCHANGED irregular
       ELSE irregular' = Script /\ UNCHANGED chain
    /\ BackToIdle
    /\ UNCHANGED <<list, number, cost, fee, flushed>>

\* Mutant: the transactions are undone first to last.
StartDisconnectForward ==
    /\ Idle /\ chain # <<>>
    /\ mode' = "disconnect" /\ block' = Last(chain) /\ todo' = Last(chain).txs
    /\ UNCHANGED <<list, number, cost, fee, chain, flushed, at, outs, irregular>>

\* DisconnectTip.
StartDisconnect ==
    /\ Idle /\ chain # <<>>
    /\ mode' = "disconnect" /\ block' = Last(chain) /\ todo' = Reverse(Last(chain).txs)
    /\ UNCHANGED <<list, number, cost, fee, chain, flushed, at, outs, irregular>>

\* One transaction in DisconnectBlock, the last one first; coinstakes and the
\* deployment height make no difference.
DisconnectTx ==
    /\ mode \in {"disconnect", "verify", "replay"} /\ outs = <<>> /\ todo # <<>>
    /\ outs' = IF MasterKey \in Head(todo).from THEN Head(todo).outs ELSE <<>>
    /\ todo' = Tail(todo)
    /\ UNCHANGED <<list, number, cost, fee, chain, flushed, mode, block, at, irregular>>

\* The outputs are reverted first to last.
DisconnectOutput ==
    /\ mode \in {"disconnect", "verify", "replay"} /\ outs # <<>>
    /\ Revert(Head(outs))
    /\ outs' = Tail(outs)
    /\ UNCHANGED <<chain, flushed, mode, block, at, todo, irregular>>

FinishDisconnect ==
    /\ mode = "disconnect" /\ BlockDone
    /\ chain' = Front(chain)
    /\ BackToIdle
    /\ UNCHANGED <<list, number, cost, fee, flushed, irregular>>

-----------------------------------------------------------------------------
(* VerifyDB, at startup or by RPC.  Its coins and tokens are in memory, the *)
(* governance database is not.                                              *)

VerifyDown(h) ==
    /\ mode' = "verify" /\ at' = h /\ block' = chain[h] /\ todo' = Reverse(chain[h].txs)
    /\ irregular' = Script
    /\ UNCHANGED <<list, number, cost, fee, chain, flushed, outs>>

VerifyUp(h) ==
    /\ mode' = "reverify" /\ at' = h /\ block' = chain[h] /\ todo' = chain[h].txs
    /\ UNCHANGED <<list, number, cost, fee, chain, flushed, outs, irregular>>

VerifyEnd ==
    BackToIdle /\ UNCHANGED <<list, number, cost, fee, chain, flushed, irregular>>

\* Check level 3: the blocks are disconnected, the tip first ...
StartVerify ==
    /\ "verify" \in Faults
    /\ Idle /\ chain # <<>> /\ VerifyDown(Len(chain))

VerifyPrevious ==
    /\ mode = "verify" /\ BlockDone /\ at > 1 /\ VerifyDown(at - 1)

\* ... and that is all at this level, or when a shutdown is requested.
VerifyStop ==
    /\ mode = "verify" /\ BlockDone /\ VerifyEnd

\* Check level 4: they are connected again, up to the tip.
VerifyReconnect ==
    /\ mode = "verify" /\ BlockDone
    /\ IF CheckBlock(chain[at]) THEN VerifyUp(at) ELSE VerifyEnd

VerifyNext ==
    /\ mode = "reverify" /\ BlockDone
    /\ IF ~block.overpays /\ at < Len(chain) /\ CheckBlock(chain[at + 1])
       THEN VerifyUp(at + 1)
       ELSE VerifyEnd

-----------------------------------------------------------------------------
(* The chainstate database, crashes and reindexing.  A flush makes a        *)
(* difference only where there are crashes.                                 *)

FlushStateToDisk ==
    /\ "crash" \in Faults
    /\ Idle /\ Len(chain) <= FaultHeight
    /\ flushed' = chain
    /\ UNCHANGED <<list, number, cost, fee, chain, mode, block, at, todo, outs, irregular>>

\* The block at height h of the chain flushed last is not one of the chain.
OffChain(h) == ~IsPrefix(SubSeq(flushed, 1, h), chain)

ReplayDown(h) ==
    /\ mode' = "replay" /\ at' = h /\ block' = flushed[h] /\ todo' = Reverse(flushed[h].txs)
    /\ outs' = <<>> /\ irregular' = Script
    /\ UNCHANGED <<list, number, cost, fee, chain, flushed>>

\* A crash in the middle of a flush, or of its recovery: the next start rolls
\* the old tip's branch back with DisconnectBlock, which ConnectTip and
\* DisconnectTip had left already ...
ReplayBlocks ==
    /\ "crash" \in Faults
    /\ mode \in {"idle", "replay"} /\ Len(chain) < FaultHeight
    /\ flushed # <<>> /\ OffChain(Len(flushed)) /\ ReplayDown(Len(flushed))

ReplayPrevious ==
    /\ mode = "replay" /\ BlockDone
    /\ at > 1 /\ OffChain(at - 1) /\ ReplayDown(at - 1)

\* ... and rolls the new one forward, without a call to the governance database.
ReplayEnd ==
    /\ mode = "replay" /\ BlockDone
    /\ at > 1 => ~OffChain(at - 1)
    /\ flushed' = chain
    /\ BackToIdle
    /\ UNCHANGED <<list, number, cost, fee, chain, irregular>>

\* The chain falls back to the last flush, the governance database does not.
Crash ==
    /\ "crash" \in Faults /\ mode # "replay"
    /\ chain' = flushed /\ irregular' = Script
    /\ BackToIdle
    /\ UNCHANGED <<list, number, cost, fee, flushed>>

\* -reindex-chainstate empties the chainstate only, -reindex both.
Reindex(fReset) ==
    /\ "reindex" \in Faults
    /\ chain' = <<>> /\ flushed' = <<>>
    /\ BackToIdle
    /\ IF fReset
       THEN NewDatabase(list', number', cost', fee') /\ irregular' = {}
       ELSE UNCHANGED <<list, number, cost, fee>> /\ irregular' = Script

Next ==
    \/ \E b \in Block, m \in {"connect", "check"} : StartConnect(b, m)
    \/ ConnectTx \/ ConnectOutput \/ FinishConnect
    \/ StartDisconnect \/ DisconnectTx \/ DisconnectOutput \/ FinishDisconnect
    \/ StartVerify \/ VerifyPrevious \/ VerifyStop \/ VerifyReconnect \/ VerifyNext
    \/ FlushStateToDisk \/ ReplayBlocks \/ ReplayPrevious \/ ReplayEnd \/ Crash
    \/ \E fReset \in BOOLEAN : Reindex(fReset)

Spec == Init /\ [][Next]_vars

-----------------------------------------------------------------------------
(* What the chain says. *)

\* The outputs ConnectBlock acts on, of a transaction of a block at height h.
Acting(tx, h) ==
    IF ~tx.stake /\ MasterKey \in tx.from /\ h >= GovernanceHeight
    THEN {j \in DOMAIN tx.outs : tx.outs[j].op = "cost" \/ tx.outs[j].script # MasterKey}
    ELSE {}

\* These outputs in the blocks of c, by height, transaction and output.
Sites(c) ==
    UNION {UNION {{<<h, i, j>> : j \in Acting(c[h].txs[i], h)} : i \in DOMAIN c[h].txs} :
               h \in DOMAIN c}

\* The operations there: what the chain c prescribes.
Log(c) == [p \in Sites(c) |-> c[p[1]].txs[p[2]].outs[p[3]]]

\* The order in which ConnectBlock comes to them.
Precedes(p, q) ==
    \/ p[1] < q[1]
    \/ p[1] = q[1] /\ p[2] < q[2]
    \/ p[1] = q[1] /\ p[2] = q[2] /\ p[3] < q[3]

\* The entry v is the first of the values at the sites of f.
IsFirst(v, f) ==
    IF DOMAIN f = {} THEN v = None
    ELSE \E p \in DOMAIN f : v = f[p] /\ \A q \in DOMAIN f : ~Precedes(q, p)

CostsAt(log, t, h) ==
    [p \in {q \in DOMAIN log : q[1] = h /\ log[q].op = "cost" /\ log[q].type = t} |-> log[p].cost]
FeesAt(log, h) ==
    [p \in {q \in DOMAIN log : q[1] = h /\ log[q].op = "fee"} |-> log[p].script]

\* The entries of height h are those that the log prescribes.
EntriesMatch(log, h) ==
    IF h = 0 THEN fee[h] = InitFee /\ \A t \in CostType : cost[t][h] = InitCost[t]
    ELSE IsFirst(fee[h], FeesAt(log, h)) /\ \A t \in CostType : IsFirst(cost[t][h], CostsAt(log, t, h))

FreezesOf(log, s) ==
    {p \in DOMAIN log : log[p].op \in {"freeze", "unfreeze"} /\ log[p].script = s}

\* Does the last operation at the sites of S freeze?
EndsFrozen(log, S) ==
    \E p \in S : log[p].op = "freeze" /\ \A q \in S : ~Precedes(p, q)

FrozenByChain(s) == LET log == Log(chain) IN EndsFrozen(log, FreezesOf(log, s))

-----------------------------------------------------------------------------
(* Properties *)

\* The counter the RPC freezelist reports is the number of frozen scripts
\* without the dummy, which is never counted, through every freeze, unfreeze
\* and revert and wherever the process stops; unfreezing the dummy itself
\* wraps it around.
NumberMatchesFrozen ==
    number = IF Frozen = {} THEN Modulus - 1 ELSE Cardinality(Frozen) - 1

\* The failsafe of ConnectBlock and DisconnectBlock: no sequence of blocks,
\* reorgs and reverts freezes the master key or sends the fees to it.
MasterKeyIsSafe ==
    list[MasterKey] = "none" /\ \A h \in Height : fee[h] # MasterKey

\* Between blocks the costs and the fee scripts in the database, by height, are
\* the ones the blocks of the active chain set, as long as every block that
\* ConnectBlock worked on was connected: reorgs take back exactly the updates
\* of the disconnected blocks.
CostsMatchChain ==
    Idle /\ irregular # Script =>
        LET log == Log(chain) IN \A h \in Height : EntriesMatch(log, h)

\* Between blocks a script is frozen exactly if the last operation of the
\* active chain on it says so, for scripts that were never frozen while
\* frozen, unfrozen while not frozen, or named twice by a transaction.
FreezeListMatchesChain ==
    Idle => \A s \in Script \ (irregular \cup {DummyScript}) :
                list[s] = "frozen" <=> FrozenByChain(s)

\* RevertFreezeScript says it removes a script from the list only "if scrip was
\* only added to the list once": a script the remaining chain freezes stays
\* frozen when a block is disconnected.
FrozenByChainStaysFrozen ==
    Idle => \A s \in Script : FrozenByChain(s) => list[s] = "frozen"

\* ConnectTip says "Apply the block atomically to the chain state.": a block
\* that ConnectBlock rejects sets no cost.
RejectedBlockSetsNoCost ==
    Idle => \A t \in CostType, h \in Height : h > Len(chain) => cost[t][h] = None

\* VerifyDB says of check level 3 that it is a "memory-only disconnect of tip
\* blocks": when it is over the costs the chain set are still set.
VerifyIsMemoryOnly ==
    Idle => LET log == Log(chain) IN \A h \in Height : h <= Len(chain) => EntriesMatch(log, h)

\* feature_dbcrash.py restarts a crashed node "until recovery succeeds": a block
\* that was connected, and that the crash took out of the chain, is valid still
\* when it is connected again.
LostBlockIsValidStill ==
    [][\A h \in DOMAIN chain :
           Crash /\ h = Len(flushed) + 1 /\ IsPrefix(flushed, chain) =>
               /\ CheckBlock(chain[h])
               /\ \A s \in chain[h].txs[1].from : CanSend(s)]_vars

\* DumpFreezeStats says that "DUMMY_SCRIPT is the lexically first script.": it
\* lists every frozen script.
FreezeListIsComplete ==
    Frozen \subseteq DumpFreezeStats
=============================================================================
