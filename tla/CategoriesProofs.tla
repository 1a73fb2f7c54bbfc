-------------------------- MODULE CategoriesProofs --------------------------
(***************************************************************************)
(* Theorems about Categories, for any invoices, items, names, jobs, edits  *)
(* of the vocabulary and faults.                                           *)
(***************************************************************************)
EXTENDS Categories, SequenceTheorems, TLAPS

-----------------------------------------------------------------------------
(* Types *)

LEMMA CleanedNames ==
    ASSUME NEW listing \in Listing
    PROVE  Cleaned(listing) \in SUBSET Name
<1>1. PICK n \in 0..MaxListed : listing \in [1..n -> Name]
    BY DEF Listing
<1>2. FirstSpellings(listing) \subseteq Name
    BY <1>1 DEF FirstSpellings
<1> QED
    BY <1>2, CategoriesAssumption DEF Cleaned

LEMMA Empty == <<>> \in Listing
<1>1. <<>> \in [1..0 -> Name] /\ 0 \in 0..MaxListed
    BY CategoriesAssumption
<1> QED
    BY <1>1 DEF Listing

LEMMA TypeStep == TypeOK /\ [Next]_vars => TypeOK'
<1> SUFFICES ASSUME TypeOK, [Next]_vars PROVE TypeOK'
    OBVIOUS
<1> USE CategoriesAssumption
<1>0. NoRun \in [force: BOOLEAN, all: BOOLEAN, job: BOOLEAN] /\ ~NoRun.job
    BY DEF NoRun
<1>1. ASSUME NEW listing \in Listing, SaveVocabulary(listing)
      PROVE  TypeOK'
    <2>1. vocabulary' \in SUBSET Name
        BY <1>1, CleanedNames DEF SaveVocabulary
    <2>2. requests' \in 0..MaxRequests
        BY <1>1 DEF SaveVocabulary, Request, TypeOK
    <2> QED BY <1>1, <2>1, <2>2 DEF SaveVocabulary, TypeOK, worker
<1>2. ASSUME NEW rediscover \in BOOLEAN, AskJob(rediscover)
      PROVE  TypeOK'
    <2>1. queue' \in Seq(BOOLEAN) /\ queue' # <<>>
        BY <1>2 DEF AskJob, TypeOK
    <2> QED BY <1>2, <2>1 DEF AskJob, Request, TypeOK, worker
<1>3. ASSUME NEW i \in Invoice, ScanEnds(i)
      PROVE  TypeOK'
    BY <1>0, <1>3 DEF ScanEnds, TypeOK, web
<1>4. CASE StartJob
    <2>1. Head(queue) \in BOOLEAN
        BY <1>4, HeadTailProperties DEF StartJob, TypeOK
    <2> QED BY <1>4, <2>1 DEF StartJob, TypeOK, web
<1>5. CASE Check
    BY <1>5 DEF Check, TypeOK, web
<1>6. CASE Reread \/ LookAgain
    BY <1>6 DEF Reread, LookAgain, Take, TypeOK, web
<1>7. ASSUME NEW listing \in Listing, Discover(listing)
      PROVE  TypeOK'
    BY <1>7 DEF Discover, TypeOK, web
<1>8. CASE StoreAnswer
    <2>1. vocabulary' \in SUBSET Name
        BY <1>8, CleanedNames DEF StoreAnswer, TypeOK
    <2> QED BY <1>8, <2>1, Empty DEF StoreAnswer, TypeOK, web
<1>9. CASE Stored
    <2>1. CASE run.force
        <3>1. /\ run' \in [force: BOOLEAN, all: BOOLEAN, job: BOOLEAN]
              /\ run'.job = run.job
            BY <1>9, <2>1 DEF Stored, TypeOK
        <3> QED BY <1>9, <2>1, <3>1 DEF Stored, TypeOK, web
    <2>2. CASE ~run.force
        BY <1>9, <2>2 DEF Stored, Take, TypeOK, web
    <2> QED BY <2>1, <2>2
<1>10. ASSUME NEW i \in todo, NEW failed \in SUBSET Selected(i), LabelInvoice(i, failed)
       PROVE  TypeOK'
    <2>1. faults' \in 0..MaxFaults
        BY <1>10 DEF LabelInvoice, Fault, TypeOK
    <2>2. Allowed \subseteq Name
        BY DEF Allowed, TypeOK
    <2>3. label' \in [Item -> Name \cup {NoLabel}]
        BY <1>10, <2>2 DEF LabelInvoice, TypeOK
    <2> QED BY <1>10, <2>1, <2>3 DEF LabelInvoice, TypeOK, web
<1>11. CASE EndRun \/ DiscoverFails
    <2>1. queue' \in Seq(BOOLEAN)
        <3>1. CASE run.job
            <4>1. queue' = Tail(queue) /\ queue # <<>>
                BY <1>11, <3>1 DEF EndRun, DiscoverFails, Verdict, TypeOK
            <4> QED BY <4>1, HeadTailProperties DEF TypeOK
        <3>2. CASE ~run.job
            BY <1>11, <3>2 DEF EndRun, DiscoverFails, Verdict, TypeOK
        <3> QED BY <3>1, <3>2
    <2>2. run' = NoRun /\ pc' = "idle" /\ todo' = {} /\ answer' = <<>> /\ read' = {}
        BY <1>11 DEF EndRun, DiscoverFails, Finish
    <2>3. faults' \in 0..MaxFaults
        BY <1>11 DEF EndRun, DiscoverFails, Fault, TypeOK
    <2> QED BY <1>0, <1>11, <2>1, <2>2, <2>3, Empty DEF EndRun, DiscoverFails, TypeOK
<1>12. CASE Crash
    <2>1. run' = NoRun /\ pc' = "idle" /\ todo' = {} /\ answer' = <<>> /\ read' = {}
        BY <1>12 DEF Crash, Finish
    <2>2. faults' \in 0..MaxFaults
        BY <1>12 DEF Crash, Fault, TypeOK
    <2> QED BY <1>0, <1>12, <2>1, <2>2, Empty DEF Crash, TypeOK
<1>13. CASE UNCHANGED vars
    BY <1>13 DEF vars, TypeOK
<1> QED
    BY <1>1, <1>2, <1>3, <1>4, <1>5, <1>6, <1>7, <1>8, <1>9, <1>10, <1>11, <1>12, <1>13
    DEF Next, Step

\* Every variable keeps its type; a run that is a job has its job still in the queue
\* (poll marks it done last).
THEOREM TypeCorrect == Spec => []TypeOK
<1>1. Init => TypeOK
    <2> SUFFICES ASSUME Init PROVE TypeOK
        OBVIOUS
    <2>1. NoRun \in [force: BOOLEAN, all: BOOLEAN, job: BOOLEAN] /\ ~NoRun.job
        BY DEF NoRun
    <2> QED BY <2>1, Empty, CategoriesAssumption DEF Init, TypeOK
<1> QED
    BY <1>1, TypeStep, PTL DEF Spec

-----------------------------------------------------------------------------
(* The vocabulary *)

\* A run that goes to the model unasked has found no vocabulary.
Looked == pc \in {"discover", "store"} /\ ~run.force => found = {}

LEMMA LookedStep == Looked /\ [Next]_vars => Looked'
<1> SUFFICES ASSUME Looked, [Next]_vars PROVE Looked'
    OBVIOUS
<1>1. CASE StartJob
    BY <1>1 DEF StartJob, Looked
<1>2. CASE Check
    BY <1>2 DEF Check, Missing, Looked
<1>3. CASE Reread \/ LookAgain \/ Stored
    BY <1>3 DEF Reread, LookAgain, Stored, Take, Looked
<1>4. ASSUME NEW listing \in Listing, Discover(listing)
      PROVE  Looked'
    BY <1>4 DEF Discover, Looked
<1>5. CASE StoreAnswer
    BY <1>5 DEF StoreAnswer, Looked
<1>6. CASE EndRun \/ DiscoverFails \/ Crash
    BY <1>6 DEF EndRun, DiscoverFails, Crash, Finish, Looked
<1>7. ASSUME NEW i \in todo, NEW failed \in SUBSET Selected(i), LabelInvoice(i, failed)
      PROVE  Looked'
    BY <1>7 DEF LabelInvoice, Looked
<1>8. ASSUME NEW i \in Invoice, ScanEnds(i)
      PROVE  Looked'
    BY <1>8 DEF ScanEnds, Looked
<1>9. ASSUME NEW listing \in Listing, SaveVocabulary(listing)
      PROVE  Looked'
    BY <1>9 DEF SaveVocabulary, worker, Looked
<1>10. ASSUME NEW rediscover \in BOOLEAN, AskJob(rediscover)
       PROVE  Looked'
    BY <1>10 DEF AskJob, worker, Looked
<1>11. CASE UNCHANGED vars
    BY <1>11 DEF vars, Looked
<1> QED
    BY <1>1, <1>2, <1>3, <1>4, <1>5, <1>6, <1>7, <1>8, <1>9, <1>10, <1>11 DEF Next, Step

\* Whatever admins edit and wherever the worker dies, a run that was not asked to
\* rediscover writes a vocabulary only if it found none (ensure_categories).
THEOREM UnaskedOnlyIfMissing == Spec => DiscoversOnlyIfMissing
<1>1. Init => Looked
    BY DEF Init, Looked
<1>2. Looked /\ [Next]_vars =>
        [(pc = "store" /\ ~run.force /\ vocabulary' # vocabulary /\ requests' = requests)
            => found = {}]_vars
    BY DEF Looked
<1> QED
    BY <1>1, <1>2, LookedStep, PTL DEF Spec, DiscoversOnlyIfMissing

-----------------------------------------------------------------------------
(* The labels *)

\* As long as nothing came after the relabelling of everything, the run in progress has
\* read the vocabulary there is, and labels outside it are on items that are still to be
\* relabelled; an invoice that has not arrived has no labels.
Follow ==
    /\ \A x \in Item : InvoiceOf[x] \notin arrived => label[x] = NoLabel
    /\ current /\ vocabulary # {} =>
         /\ pc = "label" => read = vocabulary
         /\ \A x \in Item : label[x] # NoLabel =>
              \/ label[x] \in vocabulary
              \/ pc = "label" /\ run.all /\ InvoiceOf[x] \in todo

\* categorise_all starts with the vocabulary it has just read.
LEMMA Taken ==
    ASSUME Follow, NEW next, Take(next), pc # "label", vocabulary # {} => next = "label",
           UNCHANGED <<vocabulary, label, arrived, run>>
    PROVE  Follow'
BY DEF Follow, Take

LEMMA Labelled ==
    ASSUME TypeOK, Follow, NEW i \in todo, NEW failed \in SUBSET Selected(i),
           LabelInvoice(i, failed)
    PROVE  Follow'
<1>1. PICK given \in [Selected(i) \ failed -> Allowed] :
         label' = [x \in Item |-> IF x \in DOMAIN given THEN given[x] ELSE label[x]]
    BY DEF LabelInvoice
<1>2. /\ pc = "label" /\ todo' = todo \ {i} /\ current' = (current /\ failed = {})
      /\ UNCHANGED <<vocabulary, arrived, pc, run, read>>
    BY DEF LabelInvoice
<1>3. \A x \in Item : x \notin Selected(i) \ failed => label'[x] = label[x]
    BY <1>1
<1>4. \A x \in Selected(i) \ failed : label'[x] \in Allowed /\ InvoiceOf[x] = i
    BY <1>1 DEF Selected
<1>5. ASSUME NEW x \in Item, InvoiceOf[x] \notin arrived'
      PROVE  label'[x] = NoLabel
    <2>1. InvoiceOf[x] # i
        BY <1>2, <1>5 DEF TypeOK
    <2> QED BY <1>2, <1>3, <1>4, <1>5, <2>1 DEF Follow
<1>6. ASSUME current', vocabulary' # {}, NEW x \in Item, label'[x] # NoLabel
      PROVE  label'[x] \in vocabulary' \/ (run'.all /\ InvoiceOf[x] \in todo')
    <2>1. current /\ vocabulary # {} /\ failed = {} /\ read = vocabulary
        BY <1>2, <1>6 DEF Follow
    <2>2. CASE x \in Selected(i)
        BY <1>2, <1>4, <2>1, <2>2 DEF Allowed
    <2>3. CASE x \notin Selected(i)
        <3>1. label'[x] = label[x] /\ (label[x] \in vocabulary \/ (run.all /\ InvoiceOf[x] \in todo))
            BY <1>2, <1>3, <1>6, <2>1, <2>3 DEF Follow
        <3>2. InvoiceOf[x] = i => ~run.all
            BY <2>3 DEF Selected
        <3> QED BY <1>2, <3>1, <3>2
    <2> QED BY <2>2, <2>3
<1> QED
    BY <1>2, <1>5, <1>6 DEF Follow

LEMMA FollowStep == TypeOK /\ Follow /\ [Next]_vars => Follow'
<1> SUFFICES ASSUME TypeOK, Follow, [Next]_vars PROVE Follow'
    OBVIOUS
<1>1. CASE StartJob \/ Check
    <2>1. pc # "label" /\ pc' # "label"
        BY <1>1 DEF StartJob, Check
    <2>2. UNCHANGED <<label, arrived, current, vocabulary>>
        BY <1>1 DEF StartJob, Check
    <2> QED BY <2>1, <2>2 DEF Follow
<1>2. CASE Reread \/ LookAgain
    <2>1. PICK next : Take(next) /\ (vocabulary # {} => next = "label")
        BY <1>2 DEF Reread, LookAgain
    <2> QED BY <1>2, <2>1, Taken DEF Reread, LookAgain
<1>3. CASE Stored
    <2>1. CASE run.force
        BY <1>3, <2>1 DEF Stored, Follow
    <2>2. CASE ~run.force
        <3>1. PICK next : Take(next) /\ (vocabulary # {} => next = "label")
            BY <1>3, <2>2 DEF Stored
        <3> QED BY <1>3, <2>2, <3>1, Taken DEF Stored
    <2> QED BY <2>1, <2>2
<1>4. ASSUME NEW listing \in Listing, Discover(listing)
      PROVE  Follow'
    BY <1>4 DEF Discover, Follow
<1>5. CASE StoreAnswer
    BY <1>5 DEF StoreAnswer, Follow
<1>6. CASE EndRun
    BY <1>6 DEF EndRun, Finish, Follow
<1>7. CASE DiscoverFails \/ Crash
    BY <1>7 DEF DiscoverFails, Crash, Finish, Follow
<1>8. ASSUME NEW i \in todo, NEW failed \in SUBSET Selected(i), LabelInvoice(i, failed)
      PROVE  Follow'
    BY <1>8, Labelled
<1>9. ASSUME NEW i \in Invoice, ScanEnds(i)
      PROVE  Follow'
    BY <1>9 DEF ScanEnds, Follow
<1>10. ASSUME NEW listing \in Listing, SaveVocabulary(listing)
       PROVE  Follow'
    BY <1>10 DEF SaveVocabulary, worker, Follow
<1>11. ASSUME NEW rediscover \in BOOLEAN, AskJob(rediscover)
       PROVE  Follow'
    BY <1>11 DEF AskJob, worker, Follow
<1>12. CASE UNCHANGED vars
    BY <1>12 DEF vars, Follow
<1> QED
    BY <1>1, <1>2, <1>3, <1>4, <1>5, <1>6, <1>7, <1>8, <1>9, <1>10, <1>11, <1>12
    DEF Next, Step

\* Once everything was relabelled, labels stay in the vocabulary until an edit, a
\* discovery, a failed batch or a crash, whenever the run looked at the vocabulary
\* (categorise_all, ensure_categories).
THEOREM LabelsAreOfTheVocabulary == Spec => []LabelsFollowVocabulary
<1>1. Init => Follow
    BY DEF Init, Follow
<1>2. Follow => LabelsFollowVocabulary
    BY DEF Follow, LabelsFollowVocabulary
<1> QED
    BY <1>1, <1>2, FollowStep, TypeCorrect, PTL DEF Spec
=============================================================================
