--------------------------- MODULE WorkspaceProofs ---------------------------
(* That an onboarding is completed only when everything it attests holds,   *)
(* that nothing grows past the plan, and that a channel that takes messages *)
(* can verify them, for any number of bots, channels, entries, plans and    *)
(* requests; then the theorems of Integration.                              *)
EXTENDS Workspace, Integration, FiniteSetTheorems, TLAPS

\* The inductive invariant.  What locks the organization has it, what locks a
\* row has that row, and a completion keeps what it has read.
RowOps == {"switch", "rotate", "stop", "delete"}

Holding(p) == call[p].op \in {"enlist", "publish", "complete"} => lock = p

RowHeld(p) ==
    call[p].op \in RowOps =>
       /\ call[p].on \in Channels /\ rowLock[call[p].on] = p
       /\ channel[call[p].on] # NoChannel

\* Nobody archives the entry that is being published.
Targeted(p) ==
    /\ call[p].op = "bot" => call[p].on \in Bots
    /\ call[p].op = "enlist" => call[p].on \in Channels
    /\ call[p].op \in {"publish", "archive"} => call[p].on \in Entries
    /\ call[p].op = "publish" => entry[call[p].on] = "draft"

Attested(p) ==
    call[p].op = "complete" =>
       /\ onboarding = "in_progress" /\ Staffed
       /\ call[p].seen \in {"started", "bots", "channel"}
       /\ call[p].seen # "started" => call[p].chosen \in Candidates
       /\ call[p].seen = "channel" /\ plan.whatsapp =>
             \E c \in Channels : /\ channel[c].on = call[p].chosen
                                 /\ Complete(channel[c])

\* Only finitely many channels and entries are ever there, though the sets they
\* are taken from may be infinite.
Finite == IsFiniteSet(Configs) /\ IsFiniteSet(OpenEntries)

IInv ==
    /\ TypeOK /\ Finite
    /\ \A c \in Channels : Usable(channel[c])
    /\ \A p \in Processes : Holding(p) /\ RowHeld(p) /\ Targeted(p) /\ Attested(p)

-----------------------------------------------------------------------------
(* The kinds of steps.                                                     *)

LEMMA InitIInv == Init => IInv
<1> SUFFICES ASSUME Init PROVE IInv
  OBVIOUS
<1> USE DEF Init
<1>1. TypeOK
  BY DEF TypeOK, Call, Idle, Starting
<1>2. Configs = {} /\ OpenEntries = {}
  BY DEF Configs, OpenEntries
<1>3. Finite
  BY <1>2, FS_EmptySet DEF Finite
<1>4. \A c \in Channels : Usable(channel[c])
  BY DEF Usable, NoChannel
<1>5. \A p \in Processes : Holding(p) /\ RowHeld(p) /\ Targeted(p) /\ Attested(p)
  BY DEF Holding, RowHeld, Targeted, Attested, Idle, RowOps
<1> QED BY <1>1, <1>3, <1>4, <1>5 DEF IInv

SetupTypes ==
    /\ organization \in {"absent", "active", "inactive"} /\ owner \in BOOLEAN
    /\ plan \in Plans
    /\ bot \in [Bots -> {"absent", "inactive", "active"}]
    /\ configured \subseteq Bots
    /\ channel \in [Channels -> Channel \cup {NoChannel}]
    /\ entry \in [Entries -> {"absent", "draft", "published", "archived"}]
    /\ onboarding \in {"not_started", "in_progress", "completed"}

CallTypes ==
    /\ lock \in Processes \cup {NoProcess}
    /\ rowLock \in [Channels -> Processes \cup {NoProcess}]
    /\ call \in [Processes -> Call]

LEMMA Types ==
    (TypeOK <=> SetupTypes /\ CallTypes) /\ (TypeOK' <=> SetupTypes' /\ CallTypes')
BY DEF TypeOK, SetupTypes, CallTypes

LEMMA KnownTypes ==
    ASSUME IInv
    PROVE  SetupTypes /\ CallTypes /\ \A p \in Processes : p # NoProcess
BY Types, WorkspaceAssumption DEF IInv

\* A request begins: only locks and calls change.
Begins(p) ==
    \/ \E b \in Bots : LoadBot(p, b)
    \/ \E c \in Channels : EnlistChannel(p, c) \/ \E op \in RowOps : LockRow(p, op, c)
    \/ \E e \in Entries : \E op \in {"publish", "archive"} : LoadEntry(p, op, e)
    \/ BeginCompletion(p)

\* A completion reads on: only its call changes.
Reads(p) == ReadBots(p) \/ ReadChannel(p)

\* A channel's row is written by who has it locked, and stays usable.
Stores(p) ==
    /\ call[p].op \in RowOps /\ call[p].on \in Channels
    /\ channel[call[p].on] \in Channel
    /\ \E row \in Channel \cup {NoChannel} : Usable(row) /\ Store(p, row)

Commits(p) ==
    \/ ActivateBot(p) \/ DeactivateBot(p) \/ Stores(p) \/ ActivateChannel(p)
    \/ StoreEntry(p) \/ CompleteOnboarding(p) \/ Abandon(p)

LEMMA StoreKinds ==
    ASSUME IInv, NEW p \in Processes,
           \/ \E webhook \in BOOLEAN : UpdateChannel(p, webhook)
           \/ \E s \in Secrets : RotateSecrets(p, {s})
           \/ DeactivateChannel(p) \/ DeleteChannel(p)
    PROVE  Stores(p)
<1> DEFINE row == channel[call[p].on]
<1>1. call[p].op \in RowOps
  BY DEF UpdateChannel, RotateSecrets, DeactivateChannel, DeleteChannel, Doing,
     RowOps
<1>2. call[p].on \in Channels /\ row \in Channel /\ Usable(row)
  BY <1>1, KnownTypes DEF IInv, RowHeld, SetupTypes
<1>3. CASE \E webhook \in BOOLEAN : UpdateChannel(p, webhook)
  <2>1. PICK webhook \in BOOLEAN : UpdateChannel(p, webhook)
    BY <1>3
  <2>2. [row EXCEPT !.webhook = webhook] \in Channel
    BY <1>2 DEF Channel
  <2> QED BY <1>1, <1>2, <2>1, <2>2 DEF UpdateChannel, Stores
<1>4. CASE \E s \in Secrets : RotateSecrets(p, {s})
  <2>1. PICK s \in Secrets : RotateSecrets(p, {s})
    BY <1>4
  <2> DEFINE new == [row EXCEPT !.secrets = @ \cup {s}]
  <2>2. new \in Channel
    BY <1>2 DEF Channel
  <2>3. Usable(new)
    BY <1>2 DEF Usable, Channel
  <2>4. Store(p, new)
    BY <2>1 DEF RotateSecrets
  <2> QED BY <1>1, <1>2, <2>2, <2>3, <2>4 DEF Stores
<1>5. CASE DeactivateChannel(p)
  <2> DEFINE new == [row EXCEPT !.status = "inactive"]
  <2>1. new \in Channel /\ Usable(new)
    BY <1>2 DEF Channel, Usable
  <2> QED BY <1>1, <1>2, <1>5, <2>1 DEF DeactivateChannel, Stores
<1>6. CASE DeleteChannel(p)
  <2>1. Usable(NoChannel)
    BY DEF Usable, NoChannel
  <2> QED BY <1>1, <1>2, <1>6, <2>1 DEF DeleteChannel, Stores
<1> QED BY <1>3, <1>4, <1>5, <1>6

LEMMA StepKinds ==
    ASSUME IInv, [Next]_vars
    PROVE  \/ AtOnce \/ UNCHANGED vars
           \/ \E p \in Processes : Begins(p) \/ Reads(p) \/ Commits(p)
<1>1. ASSUME NEW p \in Processes,
             \/ ManageBots(p) \/ ManageChannels(p)
             \/ ManageKnowledge(p) \/ Onboard(p) \/ Abandon(p)
      PROVE  Begins(p) \/ Reads(p) \/ Commits(p)
  BY <1>1, StoreKinds DEF ManageBots, ManageChannels, ManageKnowledge, Onboard,
     Begins, Reads, Commits, RowOps
<1> QED BY <1>1 DEF Next

\* What each kind leaves alone.
LEMMA AtOnceCalls == ASSUME AtOnce PROVE UNCHANGED calls
BY DEF AtOnce, CreateOrganization, ChangeOwner, StopOrganization, StartOnboarding,
   AssignPlan, CreateBot, ConfigureBusiness, CreateChannel, CreateEntry, DeleteEntry

LEMMA QuietSteps ==
    ASSUME NEW p \in Processes, Begins(p) \/ Reads(p)
    PROVE  UNCHANGED <<setup, onboarding>>
BY DEF Begins, Reads, LoadBot, EnlistChannel, LockRow, LoadEntry, BeginCompletion,
   ReadBots, ReadChannel

LEMMA CommitsFinish == ASSUME NEW p \in Processes, Commits(p) PROVE Finish(p)
BY DEF Commits, ActivateBot, DeactivateBot, Stores, Store, ActivateChannel,
   StoreEntry, CompleteOnboarding, Abandon

-----------------------------------------------------------------------------
(* Types.                                                                  *)

LEMMA CallTypesStep == ASSUME IInv, [Next]_vars PROVE CallTypes'
<1> USE DEF CallTypes
<1>1. SetupTypes /\ CallTypes
  BY KnownTypes
<1>2. CASE UNCHANGED calls
  BY <1>1, <1>2 DEF calls
<1>3. ASSUME NEW p \in Processes, Finish(p) PROVE CallTypes'
  <2>1. Idle \in Call
    BY DEF Idle, Call, Starting
  <2> QED BY <1>1, <1>3, <2>1 DEF Finish
<1>4. ASSUME NEW p \in Processes, NEW op, NEW on, NEW seen,
             Begin(p, op, on, seen),
             op \in Starting \cup RowOps,
             on \in Bots \cup Channels \cup Entries \cup {0},
             seen \in {"none", "inactive", "active", "draft", "published",
                       "archived", "started"}
      PROVE  call' \in [Processes -> Call]
  <2>1. [op |-> op, on |-> on, seen |-> seen, chosen |-> 0] \in Call
    BY <1>4 DEF Call, Starting, RowOps
  <2> QED BY <1>1, <1>4, <2>1 DEF Begin
<1>5. ASSUME NEW p \in Processes, Begins(p) PROVE CallTypes'
  <2>1. ASSUME NEW b \in Bots, LoadBot(p, b) PROVE CallTypes'
    <3>1. bot[b] \in {"inactive", "active"}
      BY <1>1, <2>1 DEF LoadBot, SetupTypes
    <3>2. call' \in [Processes -> Call]
      BY <1>4, <2>1, <3>1 DEF LoadBot, Starting
    <3> QED BY <1>1, <2>1, <3>2 DEF LoadBot
  <2>2. ASSUME NEW c \in Channels, EnlistChannel(p, c) PROVE CallTypes'
    <3>1. call' \in [Processes -> Call]
      BY <1>4, <2>2 DEF EnlistChannel, Starting
    <3> QED BY <1>1, <2>2, <3>1 DEF EnlistChannel
  <2>3. ASSUME NEW c \in Channels, NEW op \in RowOps, LockRow(p, op, c)
        PROVE  CallTypes'
    <3>1. call' \in [Processes -> Call]
      BY <1>4, <2>3 DEF LockRow
    <3> QED BY <1>1, <2>3, <3>1 DEF LockRow
  <2>4. ASSUME NEW e \in Entries, NEW op \in {"publish", "archive"},
               LoadEntry(p, op, e)
        PROVE  CallTypes'
    <3>1. entry[e] \in {"draft", "published", "archived"}
      BY <1>1, <2>4 DEF LoadEntry, SetupTypes
    <3>2. call' \in [Processes -> Call]
      BY <1>4, <2>4, <3>1 DEF LoadEntry, Starting
    <3> QED BY <1>1, <2>4, <3>2 DEF LoadEntry
  <2>5. ASSUME BeginCompletion(p) PROVE CallTypes'
    <3>1. call' \in [Processes -> Call]
      BY <1>4, <2>5 DEF BeginCompletion, Starting
    <3> QED BY <1>1, <2>5, <3>1 DEF BeginCompletion
  <2> QED BY <1>5, <2>1, <2>2, <2>3, <2>4, <2>5 DEF Begins
<1>6. ASSUME NEW p \in Processes, Reads(p) PROVE CallTypes'
  <2>1. call[p] \in Call
    BY <1>1
  <2>2. CASE ReadBots(p)
    <3>1. PICK b \in Candidates :
             call' = [call EXCEPT ![p].seen = "bots", ![p].chosen = b]
      BY <2>2 DEF ReadBots
    <3>2. [call[p] EXCEPT !.seen = "bots", !.chosen = b] \in Call
      BY <2>1, <3>1 DEF Call, Candidates, ActiveBots
    <3>3. call' = [call EXCEPT ![p] = [call[p] EXCEPT !.seen = "bots", !.chosen = b]]
      BY <1>1, <2>1, <3>1 DEF Call
    <3> QED BY <1>1, <2>2, <3>2, <3>3 DEF ReadBots
  <2>3. CASE ReadChannel(p)
    <3>1. [call[p] EXCEPT !.seen = "channel"] \in Call
      BY <2>1 DEF Call
    <3>2. call' = [call EXCEPT ![p] = [call[p] EXCEPT !.seen = "channel"]]
      BY <2>3 DEF ReadChannel
    <3> QED BY <1>1, <2>3, <3>1, <3>2 DEF ReadChannel
  <2> QED BY <1>6, <2>2, <2>3 DEF Reads
<1>7. CASE UNCHANGED vars
  BY <1>2, <1>7 DEF vars, calls
<1> QED BY <1>2, <1>3, <1>5, <1>6, <1>7, StepKinds, AtOnceCalls, CommitsFinish

LEMMA SetupTypesStep == ASSUME IInv, [Next]_vars PROVE SetupTypes'
<1> USE DEF SetupTypes
<1>1. SetupTypes /\ CallTypes
  BY KnownTypes
<1>2. CASE UNCHANGED <<setup, onboarding>>
  BY <1>1, <1>2 DEF setup
<1>3. ASSUME AtOnce PROVE SetupTypes'
  <2>1. CASE CreateOrganization \/ ChangeOwner \/ StopOrganization \/ StartOnboarding
    BY <1>1, <2>1 DEF CreateOrganization, ChangeOwner, StopOrganization,
       StartOnboarding, setup
  <2>2. ASSUME NEW q \in Plans, AssignPlan(q) PROVE SetupTypes'
    BY <1>1, <2>2 DEF AssignPlan
  <2>3. ASSUME NEW b \in Bots, CreateBot(b) PROVE SetupTypes'
    BY <1>1, <2>3 DEF CreateBot
  <2>4. ASSUME NEW b \in Bots, ConfigureBusiness(b) PROVE SetupTypes'
    BY <1>1, <2>4 DEF ConfigureBusiness
  <2>5. ASSUME NEW c \in Channels, NEW b \in Bots, NEW webhook \in BOOLEAN,
               NEW s \in {{}, Secrets}, CreateChannel(c, b, webhook, s)
        PROVE  SetupTypes'
    <3>1. [status |-> "draft", on |-> b, webhook |-> webhook, secrets |-> s] \in Channel
      BY <2>5 DEF Channel
    <3> QED BY <1>1, <2>5, <3>1 DEF CreateChannel
  <2>6. ASSUME NEW e \in Entries, CreateEntry(e) \/ DeleteEntry(e) PROVE SetupTypes'
    BY <1>1, <2>6 DEF CreateEntry, DeleteEntry
  <2> QED BY <1>3, <2>1, <2>2, <2>3, <2>4, <2>5, <2>6 DEF AtOnce
<1>4. ASSUME NEW p \in Processes, Commits(p) PROVE SetupTypes'
  <2>1. /\ call[p].op = "bot" => call[p].on \in Bots
        /\ call[p].op = "enlist" => call[p].on \in Channels
        /\ call[p].op \in {"publish", "archive"} => call[p].on \in Entries
    BY DEF IInv, Targeted
  <2>2. CASE ActivateBot(p) \/ DeactivateBot(p)
    BY <1>1, <2>1, <2>2 DEF ActivateBot, DeactivateBot, Doing
  <2>3. CASE Stores(p)
    BY <1>1, <2>3 DEF Stores, Store
  <2>4. CASE ActivateChannel(p)
    <3>1. channel[call[p].on] \in Channel
      BY <1>1, <2>1, <2>4 DEF ActivateChannel, Doing, NoChannel
    <3>2. [channel[call[p].on] EXCEPT !.status = "active"] \in Channel
      BY <3>1 DEF Channel
    <3> QED BY <1>1, <2>1, <2>4, <3>2 DEF ActivateChannel, Doing
  <2>5. CASE StoreEntry(p)
    BY <1>1, <2>1, <2>5 DEF StoreEntry
  <2>6. CASE CompleteOnboarding(p)
    BY <1>1, <2>6 DEF CompleteOnboarding, setup
  <2>7. CASE Abandon(p)
    BY <1>2, <2>7 DEF Abandon
  <2> QED BY <1>4, <2>2, <2>3, <2>4, <2>5, <2>6, <2>7 DEF Commits
<1>5. CASE UNCHANGED vars
  BY <1>2, <1>5 DEF vars, setup
<1> QED BY <1>2, <1>3, <1>4, <1>5, StepKinds, QuietSteps

-----------------------------------------------------------------------------
(* The requests.                                                           *)

\* What a step is to one request.
LEMMA CallMoves ==
    ASSUME IInv, [Next]_vars, NEW p \in Processes
    PROVE  \/ call'[p] = call[p]
           \/ call'[p] = Idle
           \/ call[p] = Idle /\ Begins(p)
           \/ Reads(p)
<1>1. CallTypes
  BY KnownTypes
<1>2. ASSUME NEW q \in Processes, Commits(q)
      PROVE  call'[p] = call[p] \/ call'[p] = Idle
  BY <1>1, <1>2, CommitsFinish DEF Finish, CallTypes
<1>3. ASSUME NEW q \in Processes, q # p, Begins(q) \/ Reads(q)
      PROVE  call'[p] = call[p]
  BY <1>1, <1>3 DEF Begins, Reads, LoadBot, EnlistChannel, LockRow, LoadEntry,
     BeginCompletion, ReadBots, ReadChannel, Begin, CallTypes
<1>4. ASSUME Begins(p) PROVE call[p] = Idle
  BY <1>4 DEF Begins, LoadBot, EnlistChannel, LockRow, LoadEntry,
     BeginCompletion, Begin
<1> QED BY <1>2, <1>3, <1>4, StepKinds, AtOnceCalls DEF calls, vars

\* The lock of the organization passes only from nobody and to nobody.
LEMMA LockMoves ==
    ASSUME IInv, [Next]_vars
    PROVE  \/ lock' = lock
           \/ lock = NoProcess
           \/ lock' = NoProcess /\ lock \in Processes /\ call'[lock] = Idle
<1>1. CallTypes
  BY KnownTypes
<1>2. ASSUME NEW p \in Processes, Begins(p) \/ Reads(p)
      PROVE  lock' = lock \/ lock = NoProcess
  BY <1>2 DEF Begins, Reads, LoadBot, EnlistChannel, LockRow, LoadEntry,
     BeginCompletion, ReadBots, ReadChannel, OrganizationFree
<1>3. ASSUME NEW p \in Processes, Commits(p)
      PROVE  \/ lock' = lock
             \/ lock' = NoProcess /\ lock = p /\ call'[p] = Idle
  BY <1>1, <1>3, CommitsFinish DEF Finish, CallTypes
<1> QED BY <1>2, <1>3, StepKinds, AtOnceCalls DEF calls, vars

LEMMA HoldingStep == ASSUME IInv, [Next]_vars PROVE \A p \in Processes : Holding(p)'
<1> SUFFICES ASSUME NEW p \in Processes PROVE Holding(p)'
  OBVIOUS
<1> USE DEF Holding
<1>1. CallTypes /\ Holding(p) /\ p # NoProcess
  BY KnownTypes DEF IInv
<1>2. CASE call'[p] = call[p]
  <2>1. call[p].op \in {"enlist", "publish", "complete"} => call[p] # Idle
    BY DEF Idle
  <2> QED BY <1>1, <1>2, <2>1, LockMoves
<1>3. CASE call'[p] = Idle
  BY <1>3 DEF Idle
<1>4. CASE Begins(p)
  BY <1>1, <1>4 DEF Begins, LoadBot, EnlistChannel, LockRow, LoadEntry,
     BeginCompletion, Begin, CallTypes, RowOps
<1>5. CASE Reads(p)
  <2>1. call[p].op = "complete" /\ lock' = lock
    BY <1>5 DEF Reads, ReadBots, ReadChannel, Doing
  <2> QED BY <1>1, <2>1
<1> QED BY <1>2, <1>3, <1>4, <1>5, CallMoves

\* Who has the organization locked keeps everyone else from the setup.
LEMMA Excluded ==
    ASSUME IInv, [Next]_vars, NEW p \in Processes, lock = p,
           call[p].op = "complete"
    PROVE  /\ UNCHANGED setup
           /\ UNCHANGED onboarding \/ CompleteOnboarding(p)
<1>1. p # NoProcess /\ ~OrganizationFree
  BY KnownTypes DEF OrganizationFree
<1>2. organization # "absent"
  BY DEF IInv, Attested, Staffed, IsActive
<1>3. ~AtOnce
  BY <1>1, <1>2 DEF AtOnce, CreateOrganization, ChangeOwner, StopOrganization,
     StartOnboarding, AssignPlan, CreateBot, ConfigureBusiness, CreateChannel,
     CreateEntry, DeleteEntry
<1>4. ASSUME NEW q \in Processes, Commits(q)
      PROVE  /\ UNCHANGED setup
             /\ UNCHANGED onboarding \/ CompleteOnboarding(p)
  <2>1. ~ActivateBot(q) /\ ~DeactivateBot(q) /\ ~Stores(q)
    BY <1>1 DEF ActivateBot, DeactivateBot, Stores, Store
  <2>2. ~ActivateChannel(q)
    BY DEF IInv, Holding, ActivateChannel, Doing
  <2>3. ~StoreEntry(q)
    <3>1. SUFFICES ASSUME StoreEntry(q) PROVE FALSE
      OBVIOUS
    <3>2. lock = q
      BY <1>1, <3>1 DEF StoreEntry
    <3> QED BY <3>1, <3>2 DEF StoreEntry
  <2>4. CompleteOnboarding(q) => q = p
    BY DEF IInv, Holding, CompleteOnboarding, ReadyToComplete, Doing
  <2> QED BY <1>4, <2>1, <2>2, <2>3, <2>4 DEF Commits, CompleteOnboarding, Abandon
<1> QED BY <1>3, <1>4, StepKinds, QuietSteps DEF vars

LEMMA AttestedStep == ASSUME IInv, [Next]_vars PROVE \A p \in Processes : Attested(p)'
<1> SUFFICES ASSUME NEW p \in Processes PROVE Attested(p)'
  OBVIOUS
<1>1. CallTypes /\ Attested(p) /\ Holding(p) /\ p # NoProcess
  BY KnownTypes DEF IInv
<1>2. CASE call'[p] = call[p]
  <2>1. CASE call[p].op # "complete"
    BY <1>2, <2>1 DEF Attested
  <2>2. CASE call[p].op = "complete"
    <3>1. lock = p /\ call[p] # Idle
      BY <1>1, <2>2 DEF Holding, Idle
    <3>2. ~CompleteOnboarding(p)
      BY <1>1, <1>2, <3>1 DEF CompleteOnboarding, Finish, CallTypes
    <3>3. UNCHANGED <<setup, onboarding>>
      BY <2>2, <3>1, <3>2, Excluded
    <3> QED BY <1>1, <1>2, <3>3 DEF Attested, setup, Staffed, IsActive, Candidates,
            ActiveBots
  <2> QED BY <2>1, <2>2
<1>3. CASE call'[p] = Idle
  BY <1>3 DEF Attested, Idle
<1>4. CASE Begins(p)
  <2>1. CASE BeginCompletion(p)
    <3>1. call'[p].op = "complete" /\ call'[p].seen = "started"
      BY <1>1, <2>1 DEF BeginCompletion, Begin, CallTypes
    <3> QED BY <2>1, <3>1 DEF BeginCompletion, setup, Attested, Staffed, IsActive
  <2>2. CASE ~BeginCompletion(p)
    <3>1. call'[p].op # "complete"
      BY <1>1, <1>4, <2>2 DEF Begins, LoadBot, EnlistChannel, LockRow, LoadEntry,
         Begin, CallTypes, RowOps
    <3> QED BY <3>1 DEF Attested
  <2> QED BY <2>1, <2>2
<1>5. CASE Reads(p)
  <2>1. UNCHANGED <<setup, onboarding>>
    BY <1>5, QuietSteps
  <2>2. call[p] \in Call
    BY <1>1 DEF CallTypes
  <2>3. CASE ReadBots(p)
    <3>1. PICK b \in Candidates :
             call' = [call EXCEPT ![p].seen = "bots", ![p].chosen = b]
      BY <2>3 DEF ReadBots
    <3>2. /\ call'[p].op = "complete" /\ call'[p].seen = "bots"
          /\ call'[p].chosen = b
      BY <1>1, <2>2, <2>3, <3>1 DEF ReadBots, Doing, CallTypes, Call
    <3> QED BY <1>1, <2>1, <2>3, <3>1, <3>2 DEF ReadBots, Doing, Attested, setup,
            Staffed, IsActive, Candidates, ActiveBots
  <2>4. CASE ReadChannel(p)
    <3>1. /\ call'[p].op = "complete" /\ call'[p].seen = "channel"
          /\ call'[p].chosen = call[p].chosen
      BY <1>1, <2>2, <2>4 DEF ReadChannel, Doing, CallTypes, Call
    <3> QED BY <1>1, <2>1, <2>4, <3>1 DEF ReadChannel, Doing, Attested, setup,
            Staffed, IsActive, Candidates, ActiveBots, Complete
  <2> QED BY <1>5, <2>3, <2>4 DEF Reads
<1> QED BY <1>2, <1>3, <1>4, <1>5, CallMoves

\* Nobody else writes the row that a request has locked.
LEMMA RowHeldStep == ASSUME IInv, [Next]_vars PROVE \A p \in Processes : RowHeld(p)'
<1> SUFFICES ASSUME NEW p \in Processes PROVE RowHeld(p)'
  OBVIOUS
<1> DEFINE c == call[p].on
<1>1. SetupTypes /\ CallTypes /\ RowHeld(p) /\ p # NoProcess
  BY KnownTypes DEF IInv
<1>2. CASE call'[p] = call[p] /\ call[p].op \in RowOps
  <2>1. c \in Channels /\ rowLock[c] = p /\ channel[c] # NoChannel /\ call[p] # Idle
    BY <1>1, <1>2 DEF RowHeld, Idle, RowOps
  <2>2. ASSUME AtOnce PROVE channel'[c] # NoChannel
    <3>1. UNCHANGED channel \/ \E d \in Channels, b \in Bots, webhook \in BOOLEAN,
                                  s \in {{}, Secrets} : CreateChannel(d, b, webhook, s)
      BY <2>2 DEF AtOnce, CreateOrganization, ChangeOwner, StopOrganization,
         StartOnboarding, AssignPlan, CreateBot, ConfigureBusiness, CreateEntry,
         DeleteEntry, setup
    <3> QED BY <1>1, <2>1, <3>1 DEF CreateChannel, SetupTypes
  <2>3. ASSUME NEW q \in Processes, Commits(q)
        PROVE  rowLock'[c] = p /\ channel'[c] # NoChannel
    <3>1. q # p
      BY <1>1, <1>2, <2>1, <2>3, CommitsFinish DEF Finish, CallTypes
    <3>2. rowLock'[c] = p
      BY <1>1, <2>1, <2>3, <3>1, CommitsFinish DEF Finish
    <3>3. CASE Stores(q)
      <4>1. rowLock[call[q].on] = q
        BY <3>3 DEF Stores, IInv, RowHeld
      <4> QED BY <1>1, <2>1, <3>1, <3>2, <3>3, <4>1 DEF Stores, Store, SetupTypes
    <3>4. CASE ActivateChannel(q)
      <4>1. c # call[q].on
        BY <1>1, <2>1, <3>4 DEF ActivateChannel, RowFree
      <4> QED BY <1>1, <2>1, <3>2, <3>4, <4>1 DEF ActivateChannel, SetupTypes
    <3>5. CASE UNCHANGED channel
      BY <2>1, <3>2, <3>5
    <3> QED BY <2>3, <3>3, <3>4, <3>5 DEF Commits, ActivateBot, DeactivateBot,
            StoreEntry, CompleteOnboarding, Abandon, setup
  <2>4. ASSUME NEW q \in Processes, Begins(q) \/ Reads(q)
        PROVE  rowLock'[c] = p /\ channel'[c] # NoChannel
    <3>1. UNCHANGED channel
      BY <2>4, QuietSteps DEF setup
    <3>2. rowLock'[c] = p
      BY <1>1, <2>1, <2>4 DEF Begins, Reads, LoadBot, EnlistChannel, LockRow,
         LoadEntry, BeginCompletion, ReadBots, ReadChannel, RowFree, CallTypes
    <3> QED BY <2>1, <3>1, <3>2
  <2>5. rowLock'[c] = p /\ channel'[c] # NoChannel
    BY <2>1, <2>2, <2>3, <2>4, StepKinds, AtOnceCalls DEF calls, vars, setup
  <2> QED BY <1>2, <2>1, <2>5 DEF RowHeld
<1>3. CASE call'[p].op \notin RowOps
  BY <1>3 DEF RowHeld
<1>4. CASE Begins(p) /\ call'[p].op \in RowOps
  <2>1. PICK d \in Channels, op \in RowOps : LockRow(p, op, d)
    BY <1>1, <1>4 DEF Begins, LoadBot, EnlistChannel, LoadEntry, BeginCompletion,
       Begin, CallTypes, RowOps
  <2>2. call'[p].on = d
    BY <1>1, <2>1 DEF LockRow, Begin, CallTypes
  <2> QED BY <1>1, <2>1, <2>2 DEF LockRow, RowHeld, CallTypes, setup
<1>5. ASSUME Reads(p) PROVE call'[p].op = "complete"
  BY <1>1, <1>5 DEF Reads, ReadBots, ReadChannel, Doing, CallTypes, Call
<1>6. Idle.op \notin RowOps /\ "complete" \notin RowOps
  BY DEF Idle, RowOps
<1> QED BY <1>2, <1>3, <1>4, <1>5, <1>6, CallMoves

LEMMA TargetedStep == ASSUME IInv, [Next]_vars PROVE \A p \in Processes : Targeted(p)'
<1> SUFFICES ASSUME NEW p \in Processes PROVE Targeted(p)'
  OBVIOUS
<1> DEFINE e == call[p].on
<1>1. SetupTypes /\ CallTypes /\ Targeted(p) /\ Holding(p) /\ p # NoProcess
  BY KnownTypes DEF IInv
<1>2. CASE call'[p] = call[p]
  <2>1. CASE call[p].op # "publish"
    BY <1>1, <1>2, <2>1 DEF Targeted
  <2>2. CASE call[p].op = "publish"
    <3>1. lock = p /\ ~OrganizationFree /\ call[p] # Idle
      BY <1>1, <2>2 DEF Holding, OrganizationFree, Idle
    <3>2. ASSUME AtOnce PROVE UNCHANGED entry
      BY <3>1, <3>2 DEF AtOnce, CreateOrganization, ChangeOwner, StopOrganization,
         StartOnboarding, AssignPlan, CreateBot, ConfigureBusiness, CreateChannel,
         CreateEntry, DeleteEntry, setup
    <3>3. ASSUME NEW q \in Processes, Commits(q) PROVE UNCHANGED entry
      <4>1. q # p
        BY <1>1, <1>2, <3>1, <3>3, CommitsFinish DEF Finish, CallTypes
      <4>2. ~StoreEntry(q)
        BY <1>1, <3>1, <4>1 DEF StoreEntry
      <4> QED BY <3>3, <4>2 DEF Commits, ActivateBot, DeactivateBot, Stores, Store,
              ActivateChannel, CompleteOnboarding, Abandon, setup
    <3>4. UNCHANGED entry
      BY <3>2, <3>3, StepKinds, QuietSteps DEF setup, vars
    <3> QED BY <1>1, <1>2, <3>4 DEF Targeted
  <2> QED BY <2>1, <2>2
<1>3. CASE call'[p] = Idle
  BY <1>3 DEF Targeted, Idle
<1>4. CASE Begins(p)
  <2>1. CASE \E b \in Bots : LoadBot(p, b)
    BY <1>1, <2>1 DEF LoadBot, Begin, Targeted, CallTypes
  <2>2. ASSUME NEW c \in Channels, EnlistChannel(p, c) PROVE Targeted(p)'
    BY <1>1, <2>2 DEF EnlistChannel, Begin, Targeted, CallTypes
  <2>3. ASSUME NEW c \in Channels, NEW op \in RowOps, LockRow(p, op, c)
        PROVE  Targeted(p)'
    BY <1>1, <2>3 DEF LockRow, Begin, Targeted, CallTypes, RowOps
  <2>4. ASSUME NEW d \in Entries, NEW op \in {"publish", "archive"}, LoadEntry(p, op, d)
        PROVE  Targeted(p)'
    <3>1. /\ call'[p].op = op /\ call'[p].on = d /\ UNCHANGED entry
          /\ op = "publish" => entry[d] = "draft"
      BY <1>1, <2>4 DEF LoadEntry, Begin, CallTypes, setup
    <3> QED BY <3>1 DEF Targeted
  <2>5. CASE BeginCompletion(p)
    BY <1>1, <2>5 DEF BeginCompletion, Begin, Targeted, CallTypes
  <2> QED BY <1>4, <2>1, <2>2, <2>3, <2>4, <2>5 DEF Begins
<1>5. CASE Reads(p)
  <2>1. call'[p].op = "complete"
    BY <1>1, <1>5 DEF Reads, ReadBots, ReadChannel, Doing, CallTypes, Call
  <2> QED BY <2>1 DEF Targeted
<1> QED BY <1>2, <1>3, <1>4, <1>5, CallMoves

-----------------------------------------------------------------------------
(* Channels and the plan.                                                  *)

LEMMA UsableStep ==
    ASSUME IInv, [Next]_vars PROVE \A c \in Channels : Usable(channel[c])'
<1> SUFFICES ASSUME NEW c \in Channels PROVE Usable(channel'[c])
  OBVIOUS
<1>1. SetupTypes /\ Usable(channel[c])
  BY KnownTypes DEF IInv
<1>2. CASE UNCHANGED channel
  BY <1>1, <1>2
<1>3. ASSUME NEW d \in Channels, NEW row, Usable(row),
             channel' = [channel EXCEPT ![d] = row]
      PROVE  Usable(channel'[c])
  BY <1>1, <1>3 DEF SetupTypes
<1>4. ASSUME AtOnce PROVE Usable(channel'[c])
  <2>1. ASSUME NEW d \in Channels, NEW b \in Bots, NEW webhook \in BOOLEAN,
               NEW s \in {{}, Secrets}, CreateChannel(d, b, webhook, s)
        PROVE  Usable(channel'[c])
    <3>1. Usable([status |-> "draft", on |-> b, webhook |-> webhook, secrets |-> s])
      BY DEF Usable
    <3> QED BY <1>3, <2>1, <3>1 DEF CreateChannel
  <2> QED BY <1>2, <1>4, <2>1 DEF AtOnce, CreateOrganization, ChangeOwner,
          StopOrganization, StartOnboarding, AssignPlan, CreateBot,
          ConfigureBusiness, CreateEntry, DeleteEntry, setup
<1>5. ASSUME NEW p \in Processes, Commits(p) PROVE Usable(channel'[c])
  <2>1. CASE Stores(p)
    BY <1>3, <2>1 DEF Stores, Store
  <2>2. CASE ActivateChannel(p)
    <3>1. call[p].on \in Channels
      BY <2>2 DEF ActivateChannel, Doing, IInv, Targeted
    <3> QED BY <1>3, <2>2, <3>1 DEF ActivateChannel
  <2> QED BY <1>2, <1>5, <2>1, <2>2 DEF Commits, ActivateBot, DeactivateBot,
          StoreEntry, CompleteOnboarding, Abandon, setup
<1> QED BY <1>2, <1>4, <1>5, StepKinds, QuietSteps DEF setup, vars

LEMMA MayGrow ==
    ASSUME NEW A, NEW B, NEW x, NEW limit \in Nat,
           IsFiniteSet(A), B \subseteq A \cup {x}, Cardinality(A) < limit
    PROVE  Grows(A, B, limit) /\ IsFiniteSet(B)
<1>1. /\ IsFiniteSet(A \cup {x})
      /\ \/ Cardinality(A \cup {x}) = Cardinality(A)
         \/ Cardinality(A \cup {x}) = Cardinality(A) + 1
  BY FS_AddElement
<1>2. IsFiniteSet(B) /\ Cardinality(B) <= Cardinality(A \cup {x})
  BY <1>1, FS_Subset
<1>3. Cardinality(A) \in Nat /\ Cardinality(B) \in Nat
  BY <1>2, FS_CardinalityType
<1> QED BY <1>1, <1>2, <1>3 DEF Grows

LEMMA MayShrink ==
    ASSUME NEW A, NEW B, NEW limit, IsFiniteSet(A), B \subseteq A
    PROVE  Grows(A, B, limit) /\ IsFiniteSet(B)
<1>1. IsFiniteSet(B) /\ Cardinality(B) <= Cardinality(A)
  BY FS_Subset
<1>2. Cardinality(A) \in Nat /\ Cardinality(B) \in Nat
  BY <1>1, FS_CardinalityType
<1> QED BY <1>1, <1>2 DEF Grows

LEMMA Limits ==
    ASSUME IInv
    PROVE  plan.bots \in Nat /\ plan.channels \in Nat /\ plan.entries \in Nat
BY KnownTypes, WorkspaceAssumption DEF SetupTypes, PlanType

LEMMA BotsStep ==
    ASSUME IInv, [Next]_vars PROVE Grows(ActiveBots, ActiveBots', plan'.bots)
<1>1. SetupTypes /\ plan.bots \in Nat
  BY KnownTypes, Limits
<1>2. IsFiniteSet(ActiveBots)
  BY WorkspaceAssumption, FS_Subset DEF ActiveBots
<1>3. CASE ActiveBots' \subseteq ActiveBots
  BY <1>2, <1>3, MayShrink
<1>4. ASSUME NEW p \in Processes, ActivateBot(p)
      PROVE  Grows(ActiveBots, ActiveBots', plan'.bots)
  <2>1. ActiveBots' \subseteq ActiveBots \cup {call[p].on}
    BY <1>1, <1>4 DEF ActivateBot, ActiveBots, SetupTypes
  <2>2. Cardinality(ActiveBots) < plan.bots /\ plan' = plan
    BY <1>4 DEF ActivateBot
  <2> QED BY <1>1, <1>2, <2>1, <2>2, MayGrow
<1>5. CASE UNCHANGED bot
  BY <1>3, <1>5 DEF ActiveBots
<1>6. ASSUME AtOnce PROVE ActiveBots' \subseteq ActiveBots
  <2>1. ASSUME NEW b \in Bots, CreateBot(b) PROVE ActiveBots' \subseteq ActiveBots
    BY <1>1, <2>1 DEF CreateBot, ActiveBots, SetupTypes
  <2>2. UNCHANGED bot \/ \E b \in Bots : CreateBot(b)
    BY <1>6 DEF AtOnce, CreateOrganization, ChangeOwner, StopOrganization,
       StartOnboarding, AssignPlan, ConfigureBusiness, CreateChannel, CreateEntry,
       DeleteEntry, setup
  <2> QED BY <2>1, <2>2 DEF ActiveBots
<1>7. ASSUME NEW p \in Processes, DeactivateBot(p) PROVE ActiveBots' \subseteq ActiveBots
  BY <1>1, <1>7 DEF DeactivateBot, ActiveBots, SetupTypes
<1>8. ASSUME NEW p \in Processes, Commits(p)
      PROVE  UNCHANGED bot \/ ActivateBot(p) \/ DeactivateBot(p)
  BY <1>8 DEF Commits, Stores, Store, ActivateChannel, StoreEntry,
     CompleteOnboarding, Abandon, setup
<1> QED BY <1>3, <1>4, <1>5, <1>6, <1>7, <1>8, StepKinds, QuietSteps DEF setup, vars

LEMMA ConfigsStep ==
    ASSUME IInv, [Next]_vars
    PROVE  Grows(Configs, Configs', plan'.channels) /\ IsFiniteSet(Configs')
<1>1. SetupTypes /\ plan.channels \in Nat /\ IsFiniteSet(Configs)
  BY KnownTypes, Limits DEF IInv, Finite
<1>2. CASE Configs' \subseteq Configs
  BY <1>1, <1>2, MayShrink
<1>3. CASE UNCHANGED channel
  BY <1>2, <1>3 DEF Configs
<1>4. ASSUME AtOnce
      PROVE  Grows(Configs, Configs', plan'.channels) /\ IsFiniteSet(Configs')
  <2>1. ASSUME NEW d \in Channels, NEW b \in Bots, NEW webhook \in BOOLEAN,
               NEW s \in {{}, Secrets}, CreateChannel(d, b, webhook, s)
        PROVE  Grows(Configs, Configs', plan'.channels) /\ IsFiniteSet(Configs')
    <3>1. Configs' \subseteq Configs \cup {d}
      BY <1>1, <2>1 DEF CreateChannel, Configs, SetupTypes
    <3>2. Cardinality(Configs) < plan.channels /\ plan' = plan
      BY <2>1 DEF CreateChannel
    <3> QED BY <1>1, <3>1, <3>2, MayGrow
  <2> QED BY <1>3, <1>4, <2>1 DEF AtOnce, CreateOrganization, ChangeOwner,
          StopOrganization, StartOnboarding, AssignPlan, CreateBot,
          ConfigureBusiness, CreateEntry, DeleteEntry, setup
<1>5. ASSUME NEW p \in Processes, Stores(p) \/ ActivateChannel(p)
      PROVE  Configs' \subseteq Configs
  <2>1. CASE Stores(p)
    <3>1. channel[call[p].on] # NoChannel
      BY <2>1 DEF Stores, IInv, RowHeld
    <3> QED BY <1>1, <2>1, <3>1 DEF Stores, Store, Configs, SetupTypes
  <2>2. CASE ActivateChannel(p)
    <3>1. channel[call[p].on] # NoChannel
      BY <2>2 DEF ActivateChannel, NoChannel
    <3> QED BY <1>1, <2>2, <3>1 DEF ActivateChannel, Configs, SetupTypes
  <2> QED BY <1>5, <2>1, <2>2
<1>6. ASSUME NEW p \in Processes, Commits(p)
      PROVE  UNCHANGED channel \/ Stores(p) \/ ActivateChannel(p)
  BY <1>6 DEF Commits, ActivateBot, DeactivateBot, StoreEntry, CompleteOnboarding,
     Abandon, setup
<1> QED BY <1>2, <1>3, <1>4, <1>5, <1>6, StepKinds, QuietSteps DEF setup, vars

LEMMA EntriesStep ==
    ASSUME IInv, [Next]_vars
    PROVE  /\ Grows(OpenEntries, OpenEntries', plan'.entries)
           /\ IsFiniteSet(OpenEntries')
           /\ \A e \in Entries : entry[e] = "archived" =>
                                    entry'[e] \in {"archived", "absent"}
<1> DEFINE Kept == \A e \in Entries : entry[e] = "archived" =>
                                         entry'[e] \in {"archived", "absent"}
<1>1. SetupTypes /\ plan.entries \in Nat /\ IsFiniteSet(OpenEntries)
  BY KnownTypes, Limits DEF IInv, Finite
<1>2. CASE OpenEntries' \subseteq OpenEntries /\ Kept
  BY <1>1, <1>2, MayShrink
<1>3. CASE UNCHANGED entry
  BY <1>2, <1>3 DEF OpenEntries
<1>4. ASSUME NEW e \in Entries, CreateEntry(e)
      PROVE  /\ Grows(OpenEntries, OpenEntries', plan'.entries)
             /\ IsFiniteSet(OpenEntries') /\ Kept
  <2>1. OpenEntries' \subseteq OpenEntries \cup {e} /\ Kept
    BY <1>1, <1>4 DEF CreateEntry, OpenEntries, SetupTypes
  <2>2. Cardinality(OpenEntries) < plan.entries /\ plan' = plan
    BY <1>4 DEF CreateEntry
  <2> QED BY <1>1, <2>1, <2>2, MayGrow
<1>5. ASSUME NEW e \in Entries, DeleteEntry(e)
      PROVE  OpenEntries' \subseteq OpenEntries /\ Kept
  BY <1>1, <1>5 DEF DeleteEntry, OpenEntries, SetupTypes
<1>6. ASSUME NEW p \in Processes, StoreEntry(p)
      PROVE  OpenEntries' \subseteq OpenEntries /\ Kept
  <2>1. /\ call[p].on \in Entries
        /\ call[p].op = "publish" => entry[call[p].on] = "draft"
    BY <1>6 DEF StoreEntry, IInv, Targeted
  <2>2. CASE call[p].op = "publish"
    BY <1>1, <1>6, <2>1, <2>2 DEF StoreEntry, Doing, OpenEntries, SetupTypes
  <2>3. CASE call[p].op # "publish"
    BY <1>1, <1>6, <2>1, <2>3 DEF StoreEntry, Doing, OpenEntries, SetupTypes
  <2> QED BY <2>2, <2>3
<1>7. ASSUME NEW p \in Processes, Commits(p) PROVE UNCHANGED entry \/ StoreEntry(p)
  BY <1>7 DEF Commits, ActivateBot, DeactivateBot, Stores, Store, ActivateChannel,
     CompleteOnboarding, Abandon, setup
<1>8. ASSUME AtOnce
      PROVE  UNCHANGED entry \/ \E e \in Entries : CreateEntry(e) \/ DeleteEntry(e)
  BY <1>8 DEF AtOnce, CreateOrganization, ChangeOwner, StopOrganization,
     StartOnboarding, AssignPlan, CreateBot, ConfigureBusiness, CreateChannel, setup
<1> QED BY <1>2, <1>3, <1>4, <1>5, <1>6, <1>7, <1>8, StepKinds, QuietSteps
        DEF setup, vars

-----------------------------------------------------------------------------
LEMMA Inductive == IInv /\ [Next]_vars => IInv'
BY Types, SetupTypesStep, CallTypesStep, ConfigsStep, EntriesStep, UsableStep,
   HoldingStep, RowHeldStep, TargetedStep, AttestedStep DEF IInv, Finite

\* The strengthened invariant of the setup of an organization.
THEOREM Invariance == Spec => []IInv
<1> QED BY InitIInv, Inductive, PTL DEF Spec

\* A channel that takes messages can verify them, although its secrets, its
\* webhook and its status are changed by requests that overlap (the checks of
\* update, rotate_secrets and activate of the WhatsApp configuration).
THEOREM Agreement == Spec => []WorkspaceAgrees
<1>1. IInv => WorkspaceAgrees
  BY DEF IInv, WorkspaceAgrees, Usable, Takes, Verifies
<1> QED BY <1>1, Invariance, PTL

LEMMA CompletionStep ==
    ASSUME IInv, [Next]_vars, onboarding' = "completed", onboarding # "completed"
    PROVE  Ready
<1>1. ~AtOnce
  BY DEF AtOnce, CreateOrganization, ChangeOwner, StopOrganization,
     StartOnboarding, AssignPlan, CreateBot, ConfigureBusiness, CreateChannel,
     CreateEntry, DeleteEntry
<1>2. PICK p \in Processes : Commits(p)
  BY <1>1, StepKinds, QuietSteps DEF vars
<1>3. CompleteOnboarding(p)
  BY <1>2 DEF Commits, ActivateBot, DeactivateBot, Stores, Store, ActivateChannel,
     StoreEntry, Abandon
<1>4. /\ Staffed /\ call[p].chosen \in Candidates
      /\ plan.whatsapp => \E c \in Channels : /\ channel[c].on = call[p].chosen
                                              /\ Complete(channel[c])
  BY <1>3 DEF CompleteOnboarding, ReadyToComplete, Doing, IInv, Attested
<1> QED BY <1>4 DEF Ready

\* An onboarding is completed only in a state in which all that it attests
\* holds, although it is read in four statements: no other request can change
\* any of it before the commit (OnboardingService.complete and the lock of the
\* organization's row).
THEOREM SoundCompletion == Spec => CompletionIsSound
<1>1. IInv /\ [Next]_vars =>
         [onboarding' = "completed" /\ onboarding # "completed" => Ready]_vars
  BY CompletionStep
<1> QED BY <1>1, Invariance, PTL DEF Spec, CompletionIsSound

\* No step takes the active bots, the configurations or the open entries past
\* the plan of the moment, and an archived entry is never opened again (the
\* counts of PlanEnforcementService and the transitions of knowledge entries).
THEOREM PlanKept == Spec => PlanIsKept
<1> DEFINE Kept ==
      /\ Grows(ActiveBots, ActiveBots', plan'.bots)
      /\ Grows(Configs, Configs', plan'.channels)
      /\ Grows(OpenEntries, OpenEntries', plan'.entries)
      /\ \A e \in Entries : entry[e] = "archived" =>
                               entry'[e] \in {"archived", "absent"}
<1>1. IInv /\ [Next]_vars => Kept
  BY BotsStep, ConfigsStep, EntriesStep
<1> QED BY <1>1, Invariance, PTL DEF Spec, PlanIsKept

-----------------------------------------------------------------------------
(* Integration: the connections to Google Calendar of the same workspace.  *)

\* The inductive invariant.  A request that has the connection's lock knows its
\* credential and its status; a token and a state under exchange are of one
\* request.
CallKnown(p) ==
    /\ request[p].stage # "idle" => request[p].on \in Connections
    /\ request[p].stage \in Callback => request[p].under \in States
    /\ request[p].stage = "consumed" =>
          state[request[p].under].consumed /\ exchanges[request[p].under] = 0
    /\ request[p].stage \in {"checking", "checked"} =>
          /\ conn[request[p].on].status = "active"
          /\ request[p].source = credential[request[p].on]
    /\ request[p].stage = "rotating" =>
          request[p].token # 0 /\ conn[request[p].on].status # "archived"
    /\ request[p].token <= minted

Distinct(p, q) ==
    /\ request[p].stage \in Locking /\ request[q].stage \in Locking
          => request[p].on # request[q].on
    /\ request[p].stage = "consumed" /\ request[q].stage = "consumed"
          => request[p].under # request[q].under
    /\ request[p].token # 0 => request[p].token # request[q].token

StateKnown(s) ==
    /\ exchanges[s] <= 1
    /\ ~state[s].consumed => exchanges[s] = 0

ConnKnown(c) ==
    /\ credential[c] <= minted
    /\ conn[c].status = "active" => credential[c] # 0

ConnInv ==
    /\ ConnTypeOK
    /\ \A p \in Requests : CallKnown(p)
    /\ \A p, q \in Requests : p # q => Distinct(p, q)
    /\ \A s \in States : StateKnown(s)
    /\ \A c \in Connections : ConnKnown(c)

-----------------------------------------------------------------------------
(* Two kinds of steps of Integration.                                      *)

ConnRequest ==
    [stage : {"idle", "starting"} \cup Locking \cup Callback,
     on : Connections \cup {NoConnection}, under : States \cup {NoState},
     source : Tokens, token : Tokens, loaded : Healths,
     found : Healths, held : BOOLEAN]

\* What a request may be when it is the step of p.
Fits(r, p) ==
    /\ r.stage # "idle" => r.on \in Connections
    /\ r.stage \in Callback => r.under \in States
    /\ r.stage # "consumed"
    /\ r.stage \in {"checking", "checked"} =>
          conn[r.on].status = "active" /\ r.source = credential[r.on]
    /\ r.stage = "rotating" => r.token # 0 /\ conn[r.on].status # "archived"
    /\ r.stage \in Locking =>
          \/ request[p].stage \in Locking /\ r.on = request[p].on
          \/ ConnectionFree(r.on)
    /\ r.token \in {0, request[p].token} \/ (r.token = minted + 1 /\ r.token = minted')

LEMMA ConnConstants ==
    /\ NoRequest \in ConnRequest
    /\ Absent \in [status : Statuses, version : 0..MaxVersion,
                     health : Healths]
    /\ 0 \in Tokens /\ Tokens \subseteq Nat
BY IntegrationAssumption DEF NoRequest, ConnRequest, Absent, Statuses, Healths,
   Failures, Tokens, Locking, Callback

LEMMA InitConnInv ==
    ASSUME ConnInit
    PROVE  ConnInv
<1>1. ConnTypeOK
  BY ConnConstants DEF ConnInit, ConnTypeOK, ConnRequest, NoRow, Statuses,
     Healths, Failures
<1>2. ASSUME NEW p \in Requests PROVE CallKnown(p)
  BY ConnConstants DEF ConnInit, CallKnown, NoRequest, Callback
<1>3. ASSUME NEW p \in Requests, NEW q \in Requests PROVE Distinct(p, q)
  BY DEF ConnInit, Distinct, NoRequest, Locking
<1>4. ASSUME NEW s \in States PROVE StateKnown(s)
  BY DEF ConnInit, StateKnown
<1>5. ASSUME NEW c \in Connections PROVE ConnKnown(c)
  BY DEF ConnInit, ConnKnown, Absent
<1> QED
  BY <1>1, <1>2, <1>3, <1>4, <1>5 DEF ConnInv

\* A step of a request that changes no row keeps the invariant.
LEMMA CallStep ==
    ASSUME ConnInv, NEW p \in Requests,
           NEW r \in ConnRequest, Fits(r, p),
           request' = [request EXCEPT ![p] = r], UNCHANGED rows,
           minted' \in Tokens, minted' >= minted, 
           exchanges' \in [States -> Nat],
           \A s \in States : \/ exchanges'[s] = exchanges[s]
                              \/ /\ request[p].stage = "consumed" /\ s = request[p].under
                                 /\ exchanges'[s] = exchanges[s] + 1
    PROVE  ConnInv'
<1> USE ConnConstants
<1>0. /\ ConnTypeOK /\ request \in [Requests -> ConnRequest] /\ minted \in Nat /\ minted' \in Nat
      /\ \A q \in Requests : request[q].token \in Nat
  BY DEF ConnInv, ConnTypeOK, ConnRequest
<1>1. request' \in [Requests -> ConnRequest]
  BY <1>0
<1>2. ConnTypeOK'
  BY <1>0, <1>1 DEF ConnTypeOK, rows, ConnRequest
<1>3. /\ request'[p] = r
      /\ \A q \in Requests : q # p => request'[q] = request[q]
  BY <1>0
<1>4. ASSUME NEW s \in States PROVE StateKnown(s)'
  <2>1. StateKnown(s) /\ CallKnown(p) /\ exchanges[s] \in Nat
    BY <1>0 DEF ConnInv, ConnTypeOK
  <2> QED
    BY <2>1 DEF StateKnown, CallKnown, rows
<1>5. ASSUME NEW c \in Connections PROVE ConnKnown(c)'
  <2>1. ConnKnown(c) /\ credential[c] \in Nat
    BY <1>0 DEF ConnInv, ConnTypeOK
  <2> QED
    BY <2>1, <1>0 DEF ConnKnown, rows
<1>6. CallKnown(p)'
  <2>1. r.token <= minted'
    BY <1>0 DEF ConnInv, CallKnown, Fits
  <2> QED
    BY <2>1, <1>3 DEF CallKnown, Fits, rows
<1>7. ASSUME NEW q \in Requests, q # p PROVE CallKnown(q)'
  <2>1. CallKnown(q) /\ Distinct(q, p)
    BY <1>7 DEF ConnInv
  <2>2. request'[q] = request[q]
    BY <1>3, <1>7
  <2>3. ASSUME request[q].stage = "consumed" PROVE exchanges'[request[q].under] = 0
    BY <2>1, <2>3 DEF CallKnown, Distinct, Callback
  <2>4. request[q].token <= minted'
    BY <2>1, <1>0 DEF CallKnown
  <2> QED
    BY <2>1, <2>2, <2>3, <2>4 DEF CallKnown, rows
<1>8. ASSUME NEW q \in Requests, q # p PROVE Distinct(p, q)' /\ Distinct(q, p)'
  <2>1. Distinct(q, p) /\ Distinct(p, q) /\ CallKnown(q)
    BY <1>8 DEF ConnInv
  <2>2. request'[q] = request[q] /\ request'[p] = r
    BY <1>3, <1>8
  <2>3. r.stage \in Locking /\ request[q].stage \in Locking => r.on # request[q].on
    BY <2>1 DEF Fits, ConnectionFree, Distinct
  <2>4. r.token # 0 => r.token # request[q].token
    BY <2>1, <1>0 DEF Fits, Distinct, CallKnown
  <2>5. r.stage # "consumed"
    BY DEF Fits
  <2> QED
    BY <2>2, <2>3, <2>4, <2>5 DEF Distinct
<1>9. ASSUME NEW q \in Requests, NEW s \in Requests, q # s PROVE Distinct(q, s)'
  <2>1. CASE q = p \/ s = p
    BY <1>8, <1>9, <2>1
  <2>2. CASE q # p /\ s # p
    <3>1. Distinct(q, s)
      BY <1>9 DEF ConnInv
    <3> QED
      BY <3>1, <1>3, <2>2 DEF Distinct
  <2> QED
    BY <2>1, <2>2
<1> QED
  BY <1>2, <1>4, <1>5, <1>6, <1>7, <1>9 DEF ConnInv

\* A step that changes rows, and ends requests at most, keeps the invariant if
\* it leaves to the others what they rely on.
Relies(q) ==
    /\ request[q].stage \in {"checking", "checked"} =>
          /\ conn'[request[q].on].status = "active"
          /\ credential'[request[q].on] = credential[request[q].on]
    /\ request[q].stage = "rotating" => conn'[request[q].on].status # "archived"

LEMMA RowStep ==
    ASSUME ConnInv, ConnTypeOK', minted' = minted,
           exchanges' = exchanges,
           \A q \in Requests : request'[q] = NoRequest \/ (request'[q] = request[q] /\ Relies(q)),
           \A c \in Connections : ConnKnown(c)',
           \A s \in States : state[s].consumed => state'[s].consumed
    PROVE  ConnInv'
<1> USE ConnConstants
<1>1. ASSUME NEW s \in States PROVE StateKnown(s)'
  BY DEF ConnInv, StateKnown
<1>2. ASSUME NEW q \in Requests PROVE CallKnown(q)'
  <2>1. CallKnown(q) /\ (request'[q] = NoRequest \/ (request'[q] = request[q] /\ Relies(q)))
    BY DEF ConnInv
  <2>2. CASE request'[q] = NoRequest
    BY <2>2 DEF CallKnown, NoRequest, Callback, ConnInv, ConnTypeOK, Tokens
  <2>3. CASE request'[q] = request[q] /\ Relies(q)
    <3>1. request[q].stage \in {"checking", "checked"} =>
             conn'[request[q].on].status = "active" /\ request[q].source = credential'[request[q].on]
      BY <2>1, <2>3 DEF CallKnown, Relies
    <3>2. request[q].stage = "rotating" =>
             request[q].token # 0 /\ conn'[request[q].on].status # "archived"
      BY <2>1, <2>3 DEF CallKnown, Relies
    <3>3. request[q].stage = "consumed" =>
             state'[request[q].under].consumed /\ exchanges'[request[q].under] = 0
      BY <2>1 DEF CallKnown, Callback
    <3> QED
      BY <2>1, <2>3, <3>1, <3>2, <3>3 DEF CallKnown
  <2> QED
    BY <2>1, <2>2, <2>3
<1>3. ASSUME NEW p \in Requests, NEW q \in Requests, p # q PROVE Distinct(p, q)'
  <2>1. Distinct(p, q)
    BY <1>3 DEF ConnInv
  <2>2. request'[p] \in {NoRequest, request[p]} /\ request'[q] \in {NoRequest, request[q]}
    OBVIOUS
  <2> QED
    BY <2>1, <2>2 DEF Distinct, NoRequest, Locking
<1> QED
  BY <1>1, <1>2, <1>3 DEF ConnInv

-----------------------------------------------------------------------------
(* What each action changes.                                               *)

\* The facts about a request that its action needs.
LEMMA OfRequest ==
    ASSUME ConnInv, NEW p \in Requests
    PROVE  /\ CallKnown(p) /\ request[p] \in ConnRequest
           /\ request[p].token \in Nat /\ minted \in Nat
           /\ request[p].on \in Connections =>
                /\ ConnKnown(request[p].on) /\ credential[request[p].on] \in Nat
                /\ conn[request[p].on].status \in Statuses
BY ConnConstants DEF ConnInv, ConnTypeOK, ConnRequest

\* A request whose connection is free is the only one that can have its lock.
LEMMA NobodyElse ==
    ASSUME ConnInv, NEW c \in Connections,
           ConnectionFree(c), NEW q \in Requests,
           request[q].stage \in Locking
    PROVE  request[q].on \in Connections /\ request[q].on # c
BY DEF ConnInv, CallKnown, ConnectionFree, Locking

LEMMA AdministerKeeps ==
    ASSUME ConnInv, NEW c \in Connections,
           Administer(c)
    PROVE  ConnInv'
<1> USE ConnConstants
<1>0. ConnTypeOK /\ ConnKnown(c) /\ conn[c].version \in Nat
  BY DEF ConnInv, ConnTypeOK
<1>1. UNCHANGED <<credential, history, state, request, minted, exchanges>>
  BY DEF Administer, Create, Update, Transition
<1>2. PICK r \in [status : Statuses, version : 0..MaxVersion, health : Healths] :
        /\ conn' = [conn EXCEPT ![c] = r] /\ r.status # "absent"
        /\ r.status = "active" => credential[c] # 0
        /\ ConnectionFree(c) \/ (~Known(c) /\ r.status = "draft")
  <2>1. CASE Create(c)
    <3>1. [Absent EXCEPT !.status = "draft", !.version = 1]
            \in [status : Statuses, version : 0..MaxVersion, health : Healths]
      <4>1. 1 \in 0..MaxVersion
        BY IntegrationAssumption
      <4> QED
        BY <4>1, ConnConstants DEF Statuses
    <3>2. [Absent EXCEPT !.status = "draft", !.version = 1].status = "draft"
      BY DEF Absent
    <3> QED
      BY <2>1, <3>1, <3>2 DEF Create
  <2>2. CASE Update(c)
    <3>1. [conn[c] EXCEPT !.version = @ + 1]
            \in [status : Statuses, version : 0..MaxVersion, health : Healths]
      BY <2>2, <1>0, IntegrationAssumption DEF Update, ConnTypeOK, Statuses
    <3> QED
      BY <2>2, <3>1, <1>0 DEF Update, ConnTypeOK
  <2>3. ASSUME NEW to \in {"active", "inactive", "archived"}, Transition(c, to)
        PROVE  \E r \in [status : Statuses, version : 0..MaxVersion, health : Healths] :
                 /\ conn' = [conn EXCEPT ![c] = r] /\ r.status # "absent"
                 /\ r.status = "active" => credential[c] # 0
                 /\ ConnectionFree(c) \/ (~Known(c) /\ r.status = "draft")
    <3>1. [conn[c] EXCEPT !.status = to]
            \in [status : Statuses, version : 0..MaxVersion, health : Healths]
      BY <1>0 DEF ConnTypeOK, Statuses
    <3> QED
      BY <2>3, <3>1, <1>0 DEF Transition, ConnTypeOK
  <2> QED
    BY <2>1, <2>2, <2>3 DEF Administer
<1>3. ConnTypeOK'
  BY <1>0, <1>1, <1>2 DEF ConnTypeOK
<1>4. conn'[c] = r /\ \A d \in Connections : d # c => conn'[d] = conn[d]
  BY <1>0, <1>2 DEF ConnTypeOK
<1>5. ASSUME NEW d \in Connections PROVE ConnKnown(d)'
  <2>1. ConnKnown(d)
    BY DEF ConnInv
  <2> QED
    BY <2>1, <1>1, <1>2, <1>4 DEF ConnKnown
<1>6. ASSUME NEW q \in Requests PROVE request'[q] = request[q] /\ Relies(q)
  <2>1. CallKnown(q)
    BY DEF ConnInv
  <2>2. CASE ConnectionFree(c)
    <3>1. request[q].stage \in Locking => request[q].on \in Connections /\ request[q].on # c
      BY <2>2, NobodyElse
    <3> QED
      BY <2>1, <3>1, <1>1, <1>4 DEF Relies, CallKnown, Locking
  <2>3. CASE ~Known(c) /\ r.status = "draft"
    BY <2>1, <2>3, <1>1, <1>4 DEF Relies, CallKnown, Known
  <2> QED
    BY <1>2, <2>2, <2>3
<1> QED
  BY <1>1, <1>3, <1>5, <1>6, RowStep

LEMMA ExpireKeeps ==
    ASSUME ConnInv, NEW s \in States, Expire(s)
    PROVE  ConnInv'
<1>1. ConnTypeOK'
  BY DEF ConnInv, ConnTypeOK, Expire
<1>2. ASSUME NEW q \in Requests PROVE request'[q] = request[q] /\ Relies(q)
  BY DEF ConnInv, CallKnown, Expire, Relies, Locking
<1>3. ASSUME NEW c \in Connections PROVE ConnKnown(c)'
  BY DEF ConnInv, ConnKnown, Expire
<1>4. ASSUME NEW t \in States, state[t].consumed PROVE state'[t].consumed
  BY <1>4 DEF ConnInv, ConnTypeOK, Expire
<1> QED
  BY <1>1, <1>2, <1>3, <1>4, RowStep DEF Expire

\* What ends a request changes the rows of its connection only.
LEMMA FinishKeeps ==
    ASSUME ConnInv, NEW p \in Requests, EndRequest(p),
           request[p].on \in Connections,
           NEW cr \in Tokens, NEW r \in [status : Statuses,
           version : 0..MaxVersion,
                                         health : Healths],
           NEW h \in Healths,
           credential' \in {credential,
           [credential EXCEPT ![request[p].on] = cr]},
           credential' # credential =>
              /\ cr # 0 /\ cr = request[p].token
              /\ ConnectionFree(request[p].on) \/ request[p].stage \in Locking,
           conn' \in {conn, [conn EXCEPT ![request[p].on] = r]},
           r.status = conn[request[p].on].status,
           history' \in {history, [history EXCEPT ![request[p].on] = h]},
           state' \in [States -> [for : Connections \cup {NoConnection},
                                  consumed : BOOLEAN, expired : BOOLEAN]],
           \A s \in States : state[s].consumed => state'[s].consumed,
           minted' = minted, exchanges' = exchanges
    PROVE  ConnInv'
<1> DEFINE c == request[p].on
<1> USE ConnConstants
<1>0. ConnTypeOK /\ CallKnown(p) /\ ConnKnown(c) /\ c \in Connections
  BY DEF ConnInv
<1>1. /\ request' \in [Requests -> ConnRequest] /\ request'[p] = NoRequest
      /\ \A q \in Requests : q # p => request'[q] = request[q]
  BY <1>0 DEF EndRequest, ConnTypeOK, ConnRequest
<1>2. /\ \A d \in Connections : d # c => conn'[d] = conn[d] /\ credential'[d] = credential[d]
      /\ conn'[c].status = conn[c].status
      /\ credential'[c] # credential[c] => credential'[c] = cr /\ credential' # credential
  BY <1>0 DEF ConnTypeOK
<1>3. ConnTypeOK'
  <2>1. conn' \in [Connections -> [status : Statuses, version : 0..MaxVersion,
                                   health : Healths]]
    BY <1>0 DEF ConnTypeOK
  <2>2. credential' \in [Connections -> Tokens] /\ history' \in [Connections -> Healths]
    <3>1. credential \in [Connections -> Tokens]
      BY <1>0 DEF ConnTypeOK
    <3>2. history \in [Connections -> Healths]
      BY <1>0 DEF ConnTypeOK
    <3>3. credential' \in [Connections -> Tokens]
      BY <3>1
    <3>4. history' \in [Connections -> Healths]
      BY <3>2
    <3> QED
      BY <3>3, <3>4
  <2>3. minted' \in Tokens /\ exchanges' \in [States -> Nat]
    BY <1>0 DEF ConnTypeOK
  <2> QED
    BY <1>1, <2>1, <2>2, <2>3 DEF ConnTypeOK, ConnRequest
<1>4. ASSUME NEW d \in Connections PROVE ConnKnown(d)'
  <2>1. ConnKnown(d)
    BY DEF ConnInv
  <2>2. cr # 0 /\ cr = request[p].token => cr <= minted
    BY <1>0 DEF CallKnown
  <2> QED
    BY <2>1, <2>2, <1>2 DEF ConnKnown
<1>5. ASSUME NEW q \in Requests PROVE request'[q] = NoRequest \/ (request'[q] = request[q] /\ Relies(q))
  <2>1. CASE q = p
    BY <2>1, <1>1
  <2>2. CASE q # p
    <3>1. CallKnown(q) /\ Distinct(p, q)
      BY <2>2 DEF ConnInv
    <3>2. ASSUME request[q].stage \in Locking
          PROVE  /\ request[q].on \in Connections
                 /\ credential'[request[q].on] = credential[request[q].on]
      <4>1. request[q].on \in Connections
        BY <3>1, <3>2 DEF CallKnown, Locking
      <4>2. credential' # credential => request[q].on # c
        BY <3>1, <3>2 DEF Distinct, ConnectionFree
      <4> QED
        BY <4>1, <4>2, <1>2
    <3>3. request[q].stage \in Locking => conn'[request[q].on].status = conn[request[q].on].status
      BY <3>2, <1>2
    <3> QED
      BY <2>2, <1>1, <3>1, <3>2, <3>3 DEF Relies, CallKnown, Locking
  <2> QED
    BY <2>1, <2>2
<1> QED
  BY <1>3, <1>4, <1>5, RowStep

LEMMA FinishesKeep ==
    ASSUME ConnInv, NEW p \in Requests,
           FinishCredentials(p) \/ FinishHealth(p) \/ CompleteOAuth(p)
    PROVE  ConnInv'
<1> DEFINE c == request[p].on
           cr == request[p].token
           h == request[p].found
           r == [conn[c] EXCEPT !.health = h]
<1> USE ConnConstants
<1>0. /\ ConnTypeOK /\ CallKnown(p) /\ request[p] \in ConnRequest /\ cr \in Tokens /\ h \in Healths
      /\ c \in Connections
  BY OfRequest DEF ConnInv, ConnRequest, CallKnown, FinishCredentials,
     FinishHealth, CompleteOAuth
<1>1. /\ r \in [status : Statuses, version : 0..MaxVersion, health : Healths]
      /\ r.status = conn[c].status
  BY <1>0 DEF ConnTypeOK
<1>2. /\ EndRequest(p) /\ UNCHANGED <<state, minted, exchanges>>
      /\ conn' \in {conn, [conn EXCEPT ![c] = r]}
      /\ history' \in {history, [history EXCEPT ![c] = h]}
  BY <1>0 DEF FinishCredentials, FinishHealth, CompleteOAuth, ConnTypeOK
<1>3. credential' \in {credential, [credential EXCEPT ![c] = cr]}
  BY DEF FinishCredentials, FinishHealth, CompleteOAuth
<1>4. credential' # credential =>
        cr # 0 /\ (ConnectionFree(c) \/ request[p].stage \in Locking)
  BY <1>0 DEF FinishCredentials, FinishHealth, CompleteOAuth, CallKnown,
     Locking
<1>5. state' \in [States -> [for : Connections \cup {NoConnection},
                             consumed : BOOLEAN, expired : BOOLEAN]]
  BY <1>0, <1>2 DEF ConnTypeOK
<1> HIDE DEF r
<1> QED
  BY <1>0, <1>1, <1>2, <1>3, <1>4, <1>5, FinishKeeps

LEMMA IssueKeeps ==
    ASSUME ConnInv, NEW p \in Requests,
           NEW s \in States, IssueState(p, s)
    PROVE  ConnInv'
<1>0. ConnTypeOK /\ CallKnown(p) /\ request[p].on \in Connections
  BY DEF ConnInv, CallKnown, IssueState
<1>1. state' \in [States -> [for : Connections \cup {NoConnection},
                             consumed : BOOLEAN, expired : BOOLEAN]]
  BY <1>0 DEF ConnTypeOK, IssueState
<1>2. ASSUME NEW t \in States, state[t].consumed PROVE state'[t].consumed
  BY <1>0, <1>2 DEF ConnTypeOK, IssueState
<1>3. conn[request[p].on] \in [status : Statuses, version : 0..MaxVersion, health : Healths]
  BY <1>0 DEF ConnTypeOK
<1>4. 0 \in Tokens /\ "unknown" \in Healths
  BY ConnConstants DEF Healths
<1>5. /\ EndRequest(p) /\ conn' = conn /\ credential' = credential /\ history' = history
      /\ minted' = minted /\ exchanges' = exchanges
  BY DEF IssueState
<1> QED
  BY <1>0, <1>1, <1>2, <1>3, <1>4, <1>5, FinishKeeps

LEMMA ConsumeKeeps ==
    ASSUME ConnInv, NEW p \in Requests,
           NEW s \in States, Consume(p, s)
    PROVE  ConnInv'
<1> DEFINE c == state[s].for
           r == [NoRequest EXCEPT !.stage = "consumed", !.on = c, !.under = s,
                             !.loaded = conn[c].health]
<1> USE ConnConstants
<1>0. ConnTypeOK /\ c \in Connections /\ ~state[s].consumed /\ exchanges[s] = 0
  BY DEF ConnInv, ConnTypeOK, Consume, StateKnown
<1>1. /\ request' = [request EXCEPT ![p] = r]
      /\ state' = [state EXCEPT ![s].consumed = TRUE]
      /\ UNCHANGED <<conn, credential, history, minted, exchanges>>
  BY DEF Consume
<1>2. r \in ConnRequest
  <2>1. conn[c].health \in Healths
    BY <1>0 DEF ConnTypeOK
  <2> QED
    BY <2>1, <1>0 DEF ConnRequest, NoRequest, Callback
<1>3. /\ r.stage = "consumed" /\ r.on = c /\ r.under = s /\ r.token = 0
  BY DEF NoRequest
<1> HIDE DEF r
<1>4. /\ request' \in [Requests -> ConnRequest] /\ request'[p] = r
      /\ \A q \in Requests : q # p => request'[q] = request[q]
  BY <1>0, <1>1, <1>2 DEF ConnTypeOK, ConnRequest
<1>5. /\ state'[s].consumed
      /\ state' \in [States -> [for : Connections \cup {NoConnection},
                                consumed : BOOLEAN, expired : BOOLEAN]]
      /\ \A t \in States : t # s => state'[t] = state[t]
  <2>1. state \in [States -> [for : Connections \cup {NoConnection},
                              consumed : BOOLEAN, expired : BOOLEAN]]
    BY <1>0 DEF ConnTypeOK
  <2>2. state'[s] = [state[s] EXCEPT !.consumed = TRUE]
    BY <1>1, <2>1
  <2>3. state'[s].consumed
    BY <2>1, <2>2
  <2> QED
    BY <1>1, <2>1, <2>3
<1>6. ConnTypeOK'
  <2>1. UNCHANGED <<conn, credential, history, minted, exchanges>>
    BY <1>1
  <2> QED
    BY <1>0, <1>4, <1>5, <2>1 DEF ConnTypeOK, ConnRequest
<1>7. ASSUME NEW t \in States PROVE StateKnown(t)'
  <2>1. StateKnown(t)
    BY DEF ConnInv
  <2> QED
    BY <2>1, <1>0, <1>1, <1>5 DEF StateKnown
<1>8. ASSUME NEW d \in Connections PROVE ConnKnown(d)'
  <2>1. ConnKnown(d)
    BY DEF ConnInv
  <2> QED
    BY <2>1, <1>1 DEF ConnKnown
<1>9. CallKnown(p)'
  BY <1>0, <1>1, <1>3, <1>4, <1>5 DEF CallKnown, ConnTypeOK, Tokens
<1>10. ASSUME NEW q \in Requests, q # p
       PROVE  CallKnown(q)' /\ Distinct(p, q)' /\ Distinct(q, p)'
  <2>1. CallKnown(q)
    BY DEF ConnInv
  <2>2. request'[q] = request[q] /\ request'[p] = r
    BY <1>4, <1>10
  <2>3. request[q].stage = "consumed" => request[q].under # s /\ request[q].under \in States
    BY <2>1, <1>0 DEF CallKnown, Callback
  <2> QED
    BY <2>1, <2>2, <2>3, <1>1, <1>3, <1>5 DEF CallKnown, Distinct, Locking
<1>11. ASSUME NEW q \in Requests, NEW t \in Requests, q # t PROVE Distinct(q, t)'
  <2>1. CASE q = p \/ t = p
    BY <1>10, <1>11, <2>1
  <2>2. CASE q # p /\ t # p
    <3>1. Distinct(q, t)
      BY <1>11 DEF ConnInv
    <3> QED
      BY <3>1, <1>4, <2>2 DEF Distinct
  <2> QED
    BY <2>1, <2>2
<1> QED
  BY <1>6, <1>7, <1>8, <1>9, <1>10, <1>11 DEF ConnInv

\* A token that a request brings is new: the only one with this number.
LEMMA MintKeeps ==
    ASSUME ConnInv, Mint
    PROVE  minted' = minted + 1 /\ minted + 1 \in Tokens /\ minted \in Nat
BY IntegrationAssumption DEF ConnInv, ConnTypeOK, Mint, Tokens

LEMMA BeginsKeep ==
    ASSUME ConnInv, NEW p \in Requests,
           NEW c \in Connections,
           StartCredentials(p, c) \/ StartHealth(p, c) \/ StartOAuth(p, c)
    PROVE  ConnInv'
<1> USE ConnConstants
<1>0. /\ ConnTypeOK /\ UNCHANGED rows /\ exchanges' = exchanges /\ minted \in Nat
      /\ conn[c].status \in Statuses /\ credential[c] \in Tokens
  BY DEF ConnInv, ConnTypeOK, StartCredentials, StartHealth, StartOAuth
<1>1. CASE StartCredentials(p, c)
  <2> DEFINE r == [NoRequest EXCEPT !.stage = "rotating", !.on = c, !.token = minted + 1]
  <2>1. minted' = minted + 1 /\ minted + 1 \in Tokens
    BY <1>1, MintKeeps DEF StartCredentials
  <2>2. r \in ConnRequest
    BY <2>1 DEF ConnRequest, NoRequest, Locking
  <2>3. r.stage = "rotating" /\ r.on = c /\ r.token = minted + 1
    BY DEF NoRequest
  <2>4. request' = [request EXCEPT ![p] = r]
    BY <1>1 DEF StartCredentials, BeginRequest
  <2> HIDE DEF r
  <2>5. Fits(r, p)
    BY <1>0, <1>1, <2>1, <2>3 DEF Fits, StartCredentials, Locking,
       Callback
  <2>6. minted' \in Tokens /\ minted' >= minted
    BY <1>0, <2>1
  <2> QED
    BY <1>0, <2>2, <2>4, <2>5, <2>6, CallStep DEF ConnTypeOK
<1>2. CASE StartHealth(p, c)
  <2> DEFINE r == [NoRequest EXCEPT !.stage = "checking", !.on = c, !.source = credential[c]]
  <2>1. r \in ConnRequest
    BY <1>0 DEF ConnRequest, NoRequest, Locking
  <2>2. r.stage = "checking" /\ r.on = c /\ r.source = credential[c] /\ r.token = 0
    BY DEF NoRequest
  <2>3. request' = [request EXCEPT ![p] = r] /\ minted' = minted
    BY <1>2 DEF StartHealth
  <2> HIDE DEF r
  <2>4. Fits(r, p)
    BY <1>2, <2>2 DEF Fits, StartHealth, Locking, Callback
  <2>5. minted' \in Tokens /\ minted' >= minted
    BY <1>0, <2>3 DEF ConnTypeOK
  <2> QED
    BY <1>0, <2>1, <2>3, <2>4, <2>5, CallStep DEF ConnTypeOK
<1>3. CASE StartOAuth(p, c)
  <2> DEFINE r == [NoRequest EXCEPT !.stage = "starting", !.on = c, !.token = 0]
  <2>1. r \in ConnRequest
    BY DEF ConnRequest, NoRequest
  <2>2. r.stage = "starting" /\ r.on = c /\ r.token = 0
    BY DEF NoRequest
  <2>3. request' = [request EXCEPT ![p] = r] /\ minted' = minted
    BY <1>3 DEF StartOAuth, BeginRequest
  <2> HIDE DEF r
  <2>4. Fits(r, p)
    BY <2>2 DEF Fits, Locking, Callback
  <2>5. minted' \in Tokens /\ minted' >= minted
    BY <1>0, <2>3 DEF ConnTypeOK
  <2> QED
    BY <1>0, <2>1, <2>3, <2>4, <2>5, CallStep DEF ConnTypeOK
<1> QED
  BY <1>1, <1>2, <1>3

LEMMA ProbesKeep ==
    ASSUME ConnInv, NEW p \in Requests,
           ProbeFails(p) \/ ProbeHealthy(p) \/ ProbeRotates(p)
    PROVE  ConnInv'
<1> USE ConnConstants
<1>0. ConnTypeOK /\ CallKnown(p) /\ request[p] \in ConnRequest /\ minted \in Nat
  BY OfRequest DEF ConnInv
<1>1. PICK h \in Healths, t \in Tokens :
        /\ Checked(p, h, t)
        /\ \/ t = 0 /\ minted' = minted
           \/ t = minted + 1 /\ minted' = minted + 1
  BY MintKeeps DEF ProbeFails, ProbeHealthy, ProbeRotates, Healths
<1> DEFINE r == [request[p] EXCEPT !.stage = "checked", !.found = h, !.token = t]
<1>2. request' = [request EXCEPT ![p] = r]
  BY <1>0, <1>1 DEF Checked, ConnTypeOK, ConnRequest
<1>3. r \in ConnRequest
  BY <1>0 DEF ConnRequest, Locking
<1>4. /\ r.stage = "checked" /\ r.on = request[p].on /\ r.source = request[p].source
      /\ r.token = t
  BY <1>0 DEF ConnRequest
<1> HIDE DEF r
<1>5. Fits(r, p)
  BY <1>0, <1>1, <1>4 DEF Fits, Checked, CallKnown, Locking, Callback
<1>6. minted' \in Tokens /\ minted' >= minted
  BY <1>0, <1>1 DEF ConnTypeOK
<1> QED
  BY <1>0, <1>1, <1>2, <1>3, <1>5, <1>6, CallStep DEF Checked, ConnTypeOK

LEMMA AbortKeeps ==
    ASSUME ConnInv, NEW p \in Requests, Abort(p)
    PROVE  ConnInv'
<1>1. /\ request' = [request EXCEPT ![p] = NoRequest] /\ UNCHANGED <<rows, minted, exchanges>>
  BY DEF Abort, EndRequest
<1>2. Fits(NoRequest, p)
  BY DEF Fits, NoRequest, Locking, Callback
<1>3. minted' \in Tokens /\ minted' >= minted /\ exchanges' \in [States -> Nat]
  BY <1>1, ConnConstants DEF ConnInv, ConnTypeOK
<1> QED
  BY <1>1, <1>2, <1>3, ConnConstants, CallStep

LEMMA ExchangesKeep ==
    ASSUME ConnInv, NEW p \in Requests,
           ExchangeBrings(p) \/ ExchangeOmits(p) \/ ExchangeFails(p)
    PROVE  ConnInv'
<1> USE ConnConstants
<1>0. /\ ConnTypeOK /\ CallKnown(p) /\ request[p] \in ConnRequest /\ minted \in Nat
      /\ request[p].under \in States /\ request[p].on \in Connections
      /\ request[p].stage = "consumed"
  BY OfRequest DEF ConnInv, CallKnown, ExchangeBrings, ExchangeOmits,
     ExchangeFails,
     Exchanged, Callback
<1>1. /\ exchanges' = [exchanges EXCEPT ![request[p].under] = @ + 1] /\ UNCHANGED rows
  BY DEF ExchangeBrings, ExchangeOmits, ExchangeFails, Exchanged
<1>2. /\ exchanges' \in [States -> Nat]
      /\ \A s \in States : \/ exchanges'[s] = exchanges[s]
                           \/ s = request[p].under /\ exchanges'[s] = exchanges[s] + 1
  BY <1>0, <1>1 DEF ConnTypeOK
<1>3. CASE ExchangeFails(p)
  <2>1. request' = [request EXCEPT ![p] = NoRequest] /\ minted' = minted
    BY <1>3 DEF ExchangeFails, EndRequest
  <2>2. Fits(NoRequest, p)
    BY DEF Fits, NoRequest, Locking, Callback
  <2>3. minted' \in Tokens /\ minted' >= minted
    BY <1>0, <2>1 DEF ConnTypeOK
  <2> QED
    BY <1>0, <1>1, <1>2, <2>1, <2>2, <2>3, CallStep
<1>4. CASE ExchangeBrings(p) \/ ExchangeOmits(p)
  <2>1. PICK t \in Tokens :
          /\ request' = [request EXCEPT ![p].stage = "exchanged", ![p].token = t]
          /\ \/ t = request[p].token /\ minted' = minted
             \/ t = minted + 1 /\ minted' = minted + 1
    <3>1. CASE ExchangeBrings(p)
      BY <3>1, MintKeeps DEF ExchangeBrings
    <3>2. CASE ExchangeOmits(p)
      <4>1. request[p].token \in Tokens
        BY <1>0 DEF ConnRequest
      <4>2. request' = [request EXCEPT ![p].stage = "exchanged", ![p].token = request[p].token]
        BY <3>2, <1>0 DEF ExchangeOmits, ConnTypeOK, ConnRequest
      <4> QED
        BY <3>2, <4>1, <4>2 DEF ExchangeOmits
    <3> QED
      BY <1>4, <3>1, <3>2
  <2> DEFINE r == [request[p] EXCEPT !.stage = "exchanged", !.token = t]
  <2>2. request' = [request EXCEPT ![p] = r]
    BY <1>0, <2>1 DEF ConnTypeOK, ConnRequest
  <2>3. r \in ConnRequest
    BY <1>0 DEF ConnRequest, Callback
  <2>4. /\ r.stage = "exchanged" /\ r.on = request[p].on /\ r.under = request[p].under
        /\ r.token = t
    BY <1>0 DEF ConnRequest
  <2> HIDE DEF r
  <2>5. Fits(r, p)
    BY <1>0, <2>1, <2>4 DEF Fits, Locking
  <2>6. minted' \in Tokens /\ minted' >= minted
    BY <1>0, <2>1 DEF ConnTypeOK
  <2> QED
    BY <1>0, <1>1, <1>2, <2>2, <2>3, <2>5, <2>6, CallStep
<1> QED
  BY <1>3, <1>4

LEMMA StoreKeeps ==
    ASSUME ConnInv, NEW p \in Requests,
           StoreToken(p)
    PROVE  ConnInv'
<1> USE ConnConstants
<1>0. /\ ConnTypeOK /\ CallKnown(p) /\ request[p] \in ConnRequest /\ minted \in Nat
      /\ request[p].under \in States /\ request[p].on \in Connections
      /\ UNCHANGED <<rows, minted, exchanges>>
  BY OfRequest DEF ConnInv, CallKnown, StoreToken, Callback
<1>1. minted' \in Tokens /\ minted' >= minted /\ exchanges' \in [States -> Nat]
  BY <1>0 DEF ConnTypeOK
<1>2. CASE request' = [request EXCEPT ![p] = NoRequest]
  <2>1. Fits(NoRequest, p)
    BY DEF Fits, NoRequest, Locking, Callback
  <2> QED
    BY <1>0, <1>1, <1>2, <2>1, CallStep
<1>3. ASSUME NEW h \in Healths, NEW b \in BOOLEAN,
             request' = [request EXCEPT ![p].stage = "storing", ![p].found = h, ![p].held = b]
      PROVE  ConnInv'
  <2> DEFINE r == [request[p] EXCEPT !.stage = "storing", !.found = h, !.held = b]
  <2>1. request' = [request EXCEPT ![p] = r]
    BY <1>0, <1>3 DEF ConnTypeOK, ConnRequest
  <2>2. r \in ConnRequest
    BY <1>0 DEF ConnRequest, Callback
  <2>3. /\ r.stage = "storing" /\ r.on = request[p].on /\ r.under = request[p].under
        /\ r.token = request[p].token
    BY <1>0 DEF ConnRequest
  <2> HIDE DEF r
  <2>4. Fits(r, p)
    BY <1>0, <2>3 DEF Fits, Locking
  <2> QED
    BY <1>0, <1>1, <2>1, <2>2, <2>4, CallStep
<1> QED
  BY <1>2, <1>3 DEF StoreToken, EndRequest, Healths

-----------------------------------------------------------------------------
LEMMA NextConnInv ==
    ASSUME ConnInv, [ConnNext]_connVars
    PROVE  ConnInv'
<1>1. CASE \E c \in Connections : Administer(c)
  BY <1>1, AdministerKeeps
<1>2. CASE \E s \in States : Expire(s)
  BY <1>2, ExpireKeeps
<1>3. ASSUME NEW p \in Requests, Health(p) PROVE ConnInv'
  BY <1>3, BeginsKeep, ProbesKeep, FinishesKeep DEF Health
<1>4. ASSUME NEW p \in Requests, Credentials(p) PROVE ConnInv'
  BY <1>4, BeginsKeep, FinishesKeep DEF Credentials
<1>5. ASSUME NEW p \in Requests, OAuth(p) PROVE ConnInv'
  BY <1>5, BeginsKeep, IssueKeeps, ConsumeKeeps, ExchangesKeep, StoreKeeps,
     FinishesKeep DEF OAuth
<1>6. ASSUME NEW p \in Requests, Abort(p) PROVE ConnInv'
  BY <1>6, AbortKeeps
<1>7. CASE UNCHANGED connVars
  BY <1>7 DEF connVars, rows, ConnInv, ConnTypeOK, CallKnown, Distinct,
     StateKnown, ConnKnown
<1> QED
  BY <1>1, <1>2, <1>3, <1>4, <1>5, <1>6, <1>7 DEF ConnNext

\* Integration: what holds of its connections, states and requests at any moment,
\* whatever calls of Google are under way.
THEOREM ConnInvariance == ConnSpec => []ConnInv
<1>1. ConnInit => ConnInv
  BY InitConnInv
<1>2. ConnInv /\ [ConnNext]_connVars => ConnInv'
  BY NextConnInv
<1> QED
  BY <1>1, <1>2, PTL DEF ConnSpec

LEMMA ConnInvAgrees == ConnInv => ConnectionsAgree
BY DEF ConnInv, ConnectionsAgree, StateUsedOnce, StateKnown,
   ActiveIsConnected, ConnKnown,
   TokensApart, Distinct

\* Integration: a state is used once, an active connection has a credential, and
\* no two requests have the same refresh token, for any number of connections,
\* states, requests and tokens.
THEOREM ConnAgreement == ConnSpec => []ConnectionsAgree
<1>1. ConnSpec => []ConnInv
  BY ConnInvariance
<1>2. ConnInv => ConnectionsAgree
  BY ConnInvAgrees
<1> QED
  BY <1>1, <1>2, PTL

-----------------------------------------------------------------------------
(* Action properties of Integration.                                       *)

\* Integration: a rotated token replaces the token it was rotated from, and no
\* authorization that came meanwhile.
THEOREM ConnRotation == ConnSpec => RotationInPlace
<1>0. ConnSpec => []ConnInv
  BY ConnInvariance
<1>1. ASSUME ConnInv
      PROVE  \A p \in Requests :
               /\ request[p].stage = "checked" /\ credential' # credential
               /\ credential'[request[p].on] = request[p].token
               => credential[request[p].on] = request[p].source
  BY <1>1 DEF ConnInv, CallKnown
<1> QED
  BY <1>0, <1>1, PTL DEF ConnSpec, RotationInPlace

\* What a step may do to a connection that is archived.
Settled(c) ==
    conn[c].status = "archived" =>
        /\ Underway(c)' \subseteq Underway(c)
        /\ \/ /\ conn'[c] = conn[c] /\ credential'[c] = credential[c]
              /\ history'[c] = history[c]
           \/ Underway(c)' # Underway(c)

\* No callback begins, and no row of the connection changes.
LEMMA Untouched ==
    ASSUME NEW c \in Connections,
           conn'[c] = conn[c], credential'[c] = credential[c],
           history'[c] = history[c],
           \A q \in Requests :
              request'[q].stage \in Callback /\ request'[q].on = c =>
                 request[q].stage \in Callback /\ request[q].on = c
    PROVE  Settled(c)
BY DEF Settled, Underway

\* A request that ends.
LEMMA Ending ==
    ASSUME ConnTypeOK, NEW p \in Requests, EndRequest(p)
    PROVE  /\ request'[p] = NoRequest
           /\ \A q \in Requests : q # p => request'[q] = request[q]
BY DEF ConnTypeOK, EndRequest

LEMMA NextSettles ==
    ASSUME ConnInv, [ConnNext]_connVars,
           NEW c \in Connections
    PROVE  Settled(c)
<1> SUFFICES ASSUME conn[c].status = "archived" PROVE Settled(c)
  BY DEF Settled
<1>0. ConnTypeOK /\ request \in [Requests -> ConnRequest]
  BY DEF ConnInv, ConnTypeOK, ConnRequest
<1>1. ASSUME NEW d \in Connections, Administer(d) PROVE Settled(c)
  <2>1. d # c /\ conn' \in {[conn EXCEPT ![d] = conn'[d]]}
    BY <1>0, <1>1 DEF Administer, Create, Update, Transition,
       AllowedFrom, Known, ConnTypeOK
  <2> QED
    BY <1>0, <1>1, <2>1, Untouched DEF Administer, Create, Update,
       Transition, ConnTypeOK
<1>2. ASSUME NEW s \in States, Expire(s) PROVE Settled(c)
  BY <1>2, Untouched DEF Expire
<1>3. ASSUME NEW p \in Requests, Abort(p) PROVE Settled(c)
  BY <1>0, <1>3, Ending, Untouched DEF Abort, rows, NoRequest, Callback
<1>4. ASSUME NEW p \in Requests, FinishCredentials(p) \/ FinishHealth(p) PROVE Settled(c)
  <2>1. request[p].on # c /\ request[p].on \in Connections /\ EndRequest(p)
    BY <1>4 DEF ConnInv, CallKnown, FinishCredentials, FinishHealth
  <2>2. conn'[c] = conn[c] /\ credential'[c] = credential[c] /\ history'[c] = history[c]
    BY <1>0, <1>4, <2>1 DEF FinishCredentials, FinishHealth, ConnTypeOK
  <2> QED
    BY <1>0, <2>1, <2>2, Ending, Untouched DEF NoRequest, Callback
<1>5. ASSUME NEW p \in Requests, CompleteOAuth(p) PROVE Settled(c)
  <2>1. /\ EndRequest(p) /\ request[p].stage \in Callback /\ request[p].on \in Connections
    BY <1>5 DEF ConnInv, CallKnown, CompleteOAuth, Callback
  <2>2. CASE request[p].on # c
    <3>1. conn'[c] = conn[c] /\ credential'[c] = credential[c] /\ history'[c] = history[c]
      BY <1>0, <1>5, <2>1, <2>2 DEF CompleteOAuth, ConnTypeOK
    <3> QED
      BY <1>0, <2>1, <3>1, Ending, Untouched DEF NoRequest, Callback
  <2>3. CASE request[p].on = c
    <3>1. p \in Underway(c) /\ p \notin Underway(c)' /\ Underway(c)' \subseteq Underway(c)
      BY <1>0, <2>1, <2>3, Ending DEF Underway, NoRequest, Callback
    <3> QED
      BY <3>1 DEF Settled
  <2> QED
    BY <2>2, <2>3
<1>6. ASSUME NEW p \in Requests, NEW d \in Connections,
             StartCredentials(p, d) \/ StartHealth(p, d) \/ StartOAuth(p, d)
      PROVE  Settled(c)
  <2>1. UNCHANGED rows /\ \A q \in Requests : q # p => request'[q] = request[q]
    BY <1>0, <1>6 DEF StartCredentials, StartHealth, StartOAuth, BeginRequest
  <2>2. request'[p].stage \in {"rotating", "checking", "starting"}
    <3>1. CASE StartCredentials(p, d)
      BY <1>0, <3>1 DEF StartCredentials, BeginRequest, NoRequest
    <3>2. CASE StartHealth(p, d)
      BY <1>0, <3>2 DEF StartHealth, NoRequest
    <3>3. CASE StartOAuth(p, d)
      BY <1>0, <3>3 DEF StartOAuth, BeginRequest, NoRequest
    <3> QED
      BY <1>6, <3>1, <3>2, <3>3
  <2>3. request'[p].stage \notin Callback
    BY <2>2 DEF Callback
  <2> QED
    BY <2>1, <2>3, Untouched DEF rows
<1>7. ASSUME NEW p \in Requests, ProbeFails(p) \/ ProbeHealthy(p) \/ ProbeRotates(p)
      PROVE  Settled(c)
  <2>1. PICK h, t : Checked(p, h, t)
    BY <1>7 DEF ProbeFails, ProbeHealthy, ProbeRotates
  <2>2. UNCHANGED rows /\ request'[p].stage = "checked"
    BY <1>0, <2>1 DEF Checked, ConnRequest
  <2>3. \A q \in Requests : q # p => request'[q] = request[q]
    BY <1>0, <2>1 DEF Checked
  <2> QED
    BY <2>2, <2>3, Untouched DEF rows, Callback
<1>8. ASSUME NEW p \in Requests, NEW s \in States, IssueState(p, s) PROVE Settled(c)
  BY <1>0, <1>8, Ending, Untouched DEF IssueState, NoRequest, Callback
<1>9. ASSUME NEW p \in Requests, NEW s \in States, Consume(p, s) PROVE Settled(c)
  <2>1. /\ request'[p].on # c /\ UNCHANGED <<conn, credential, history>>
        /\ \A q \in Requests : q # p => request'[q] = request[q]
    BY <1>0, <1>9 DEF Consume, NoRequest
  <2> QED
    BY <2>1, Untouched
<1>10. ASSUME NEW p \in Requests,
              ExchangeBrings(p) \/ ExchangeOmits(p) \/ ExchangeFails(p) \/ StoreToken(p)
       PROVE  Settled(c)
  <2>1. /\ request[p].stage \in Callback /\ UNCHANGED rows
    BY <1>10 DEF ExchangeBrings, ExchangeOmits, ExchangeFails,
       Exchanged, StoreToken, Callback
  <2>2. request'[p] = NoRequest \/ request'[p].on = request[p].on
    <3>1. request[p] \in ConnRequest
      BY <1>0
    <3>2. CASE ExchangeFails(p)
      BY <1>0, <3>2 DEF ExchangeFails, EndRequest
    <3>3. CASE ExchangeBrings(p)
      BY <1>0, <3>1, <3>3 DEF ExchangeBrings, ConnRequest
    <3>4. CASE ExchangeOmits(p)
      BY <1>0, <3>1, <3>4 DEF ExchangeOmits, ConnRequest
    <3>5. CASE StoreToken(p)
      <4>1. CASE request' = [request EXCEPT ![p] = NoRequest]
        BY <1>0, <4>1
      <4>2. ASSUME NEW h \in Healths, NEW b \in BOOLEAN,
                   request' = [request EXCEPT ![p].stage = "storing", ![p].found = h, ![p].held = b]
            PROVE  request'[p].on = request[p].on
        BY <1>0, <3>1, <4>2 DEF ConnRequest
      <4> QED
        BY <3>5, <4>1, <4>2 DEF StoreToken, EndRequest, Healths
    <3> QED
      BY <1>10, <3>2, <3>3, <3>4, <3>5
  <2>3. \A q \in Requests : q # p => request'[q] = request[q]
    BY <1>0, <1>10 DEF ExchangeBrings, ExchangeOmits, ExchangeFails,
       StoreToken, EndRequest
  <2> QED
    BY <2>1, <2>2, <2>3, Untouched DEF rows, NoRequest, Callback
<1>11. CASE UNCHANGED connVars
  BY <1>11, Untouched DEF connVars, rows
<1> QED
  BY <1>1, <1>2, <1>3, <1>4, <1>5, <1>6, <1>7, <1>8, <1>9, <1>10, <1>11
     DEF ConnNext, Health, Credentials, OAuth

\* Integration: an archived connection is changed only by a callback that had
\* consumed its state before, and ends with that.
THEOREM ConnArchived == ConnSpec => ArchivedSettles
<1>0. ConnSpec => []ConnInv
  BY ConnInvariance
<1>1. ConnInv /\ [ConnNext]_connVars =>
        [\A c \in Connections : conn[c].status = "archived"
            => /\ Underway(c)' \subseteq Underway(c)
               /\ (/\ conn'[c] = conn[c] /\ credential'[c] = credential[c]
                   /\ history'[c] = history[c])
                     \/ Underway(c)' # Underway(c)]_connVars
  BY NextSettles DEF Settled
<1> QED
  BY <1>0, <1>1, PTL DEF ConnSpec, ArchivedSettles
===============================================================================
