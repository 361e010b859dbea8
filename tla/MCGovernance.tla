---------------------------- MODULE MCGovernance ----------------------------
(***************************************************************************)
(* Governance on small sets of blocks.  One cost type is enough: the types *)
(* never meet.                                                             *)
(***************************************************************************)
EXTENDS Governance

CONSTANTS m, d, a, f, root

MCScript == {m, d, a, f}
MCCostType == {root}
MCCost == {1, 2}
MCInitCost == [t \in MCCostType |-> 1]

TxOf(stake, from, ops) == [stake |-> stake, from |-> from, issue |-> None, outs |-> ops]
MasterTx(ops) == TxOf(FALSE, {m}, ops)
Valid(txs) == [txs |-> txs, overpays |-> FALSE]

Freeze(s) == [op |-> "freeze", script |-> s]
Unfreeze(s) == [op |-> "unfreeze", script |-> s]
Fee(s) == [op |-> "fee", script |-> s]
SetCost(c) == [op |-> "cost", type |-> root, cost |-> c]
IssueTx(c) == [stake |-> FALSE, from |-> {}, issue |-> [type |-> root, cost |-> c, fee |-> f], outs |-> <<>>]

\* Operations in every order that makes a difference, blocks that spend from a
\* script another block freezes or pay a cost that another block or they
\* themselves change, a coinstake, the dummy, the master key, and a block that
\* is rejected at the very end.
MCBlocks ==
    { Valid(<<MasterTx(<<Freeze(a), SetCost(2)>>)>>),
      Valid(<<MasterTx(<<Unfreeze(a), Freeze(d)>>), IssueTx(2)>>),
      Valid(<<MasterTx(<<Freeze(a)>>), MasterTx(<<Unfreeze(a), Fee(a)>>)>>),
      Valid(<<MasterTx(<<Unfreeze(d), Freeze(m), Fee(m), SetCost(2), SetCost(1)>>),
              TxOf(FALSE, {a}, <<>>)>>),
      Valid(<<TxOf(TRUE, {m}, <<Freeze(a), SetCost(2)>>),
              TxOf(FALSE, {f}, <<Freeze(a)>>), IssueTx(1)>>),
      [txs |-> <<MasterTx(<<Freeze(a), SetCost(2)>>)>>, overpays |-> TRUE] }

\* Blocks for single questions.
FreezeBlocks == { Valid(<<MasterTx(<<Freeze(a)>>)>>) }
CostBlocks == { Valid(<<MasterTx(<<SetCost(2)>>)>>) }
IssueBlocks == { Valid(<<IssueTx(1)>>), Valid(<<MasterTx(<<SetCost(2)>>)>>) }
RejectedBlocks == { [txs |-> <<MasterTx(<<SetCost(2)>>)>>, overpays |-> TRUE] }
=============================================================================
