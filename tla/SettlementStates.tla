-------------------------- MODULE SettlementStates --------------------------
(***************************************************************************)
(* The lifecycle tables of the settlement core: which moves of an item, of *)
(* a batch and of a merchant receivable are lawful.  Every service asserts *)
(* its moves against these tables before it writes.                        *)
(***************************************************************************)
EXTENDS Integers

ItemStates == {"pending", "eligible", "held", "ready", "settled", "reversed",
               "disputed"}

BatchStates == {"ready", "failed", "held", "settled", "superseded"}

ReceivableStates == {"open", "partially_recovered", "recovered",
                     "written_off", "disputed"}

ItemTransitions ==
    [pending  |-> {"eligible", "held", "disputed"},
     eligible |-> {"ready", "held", "disputed"},
     held     |-> {"eligible", "disputed"},
     ready    |-> {"settled", "eligible", "held", "disputed"},
     settled  |-> {"reversed"},
     reversed |-> {},
     disputed |-> {"eligible", "held"}]

BatchTransitions ==
    [ready      |-> {"settled", "failed", "superseded"},
     failed     |-> {"ready", "held", "superseded"},
     held       |-> {"ready", "superseded"},
     settled    |-> {},
     superseded |-> {}]

ReceivableTransitions ==
    [open                |-> {"partially_recovered", "recovered",
                              "written_off", "disputed"},
     partially_recovered |-> {"recovered", "written_off", "disputed"},
     recovered           |-> {},
     written_off         |-> {},
     disputed            |-> {"open", "partially_recovered", "written_off"}]

\* assertItemTransition, assertBatchTransition and assertReceivableTransition
\* throw exactly when these are false.
ItemMay(from, to) == to \in ItemTransitions[from]
BatchMay(from, to) == to \in BatchTransitions[from]
ReceivableMay(from, to) == to \in ReceivableTransitions[from]

\* What supersession does with the affected items, by recorded cause.
SupersedeDispositions == {"eligible", "held", "disputed"}

=============================================================================
