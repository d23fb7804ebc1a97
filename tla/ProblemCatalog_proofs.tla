------------------------ MODULE ProblemCatalog_proofs ------------------------
(***************************************************************************)
(* Proofs about ProblemCatalog, for any number of tags, problems,          *)
(* submissions and handlers.                                               *)
(***************************************************************************)
EXTENDS ProblemCatalog, FiniteSetTheorems, TLAPS

-------------------------------------------------------------------------------
(* What handlers have read                                                 *)

\* What a handler has read, by what it does next.
LEMMA JobFields ==
    ASSUME TypeOK, NEW h \in Handlers
    PROVE  /\ At(h, "createTag") => job[h].name \in Names
           /\ At(h, "updateTag") => job[h].tag \in Tags /\ job[h].name \in Names
           /\ At(h, "deleteTag") => job[h].tag \in Tags
           /\ (At(h, "updateProblem") \/ At(h, "deleteProblem")) =>
                 job[h].problem \in Problems /\ job[h].content \in Contents
           /\ At(h, "link") =>
                 job[h] \in [at : {"link"}, problem : Problems,
                             content : Contents,
                             languages : (SUBSET Languages) \ {{}},
                             deleted : SUBSET Tags, linked : SUBSET Tags]
           /\ At(h, "judge") =>
                 /\ job[h].submission \in Submissions
                 /\ job[h].tests \in SUBSET Languages
           /\ At(h, "assign") =>
                 job[h] \in [at : {"assign"}, entry : Nat,
                             chosen : [Entries -> SUBSET Problems]]
<1>1. job[h] \in Jobs
  BY DEF TypeOK
<1> QED
  BY <1>1 DEF Jobs, Idle, At

\* A handler moves on and the others stay where they are.
LEMMA Moved ==
    ASSUME TypeOK, NEW h \in Handlers, NEW j, Goto(h, j)
    PROVE  /\ job'[h] = j
           /\ \A k \in Handlers : job'[k] = IF k = h THEN j ELSE job[k]
           /\ j \in Jobs => job' \in [Handlers -> Jobs]
BY DEF Goto, TypeOK

\* The job of a transaction that has written one more tag.
LEMMA LinkedJob ==
    ASSUME TypeOK, NEW h \in Handlers, At(h, "link"), NEW t
    PROVE  [job[h] EXCEPT !.linked = @ \cup {t}] =
              [at |-> "link", problem |-> job[h].problem,
               content |-> job[h].content, languages |-> job[h].languages,
               deleted |-> job[h].deleted, linked |-> job[h].linked \cup {t}]
<1>1. job[h] \in [at : {"link"}, problem : Problems, content : Contents,
                  languages : (SUBSET Languages) \ {{}},
                  deleted : SUBSET Tags, linked : SUBSET Tags]
  BY JobFields
<1> DEFINE NonEmpty == (SUBSET Languages) \ {{}}
<1> HIDE DEF NonEmpty
<1>2. job[h] \in [at : {"link"}, problem : Problems, content : Contents,
                  languages : NonEmpty,
                  deleted : SUBSET Tags, linked : SUBSET Tags]
  BY <1>1 DEF NonEmpty
<1> QED
  BY <1>2

\* A transaction writes a tag of its problem.
LEMMA TagLinked ==
    ASSUME TypeOK, NEW h \in Handlers, CreateCodeProblemTag(h)
    PROVE  /\ At(h, "link")
           /\ \E t \in job[h].content.tags :
                 /\ TagExists(t)
                 /\ job'[h] = [at |-> "link", problem |-> job[h].problem,
                               content |-> job[h].content,
                               languages |-> job[h].languages,
                               deleted |-> job[h].deleted,
                               linked |-> job[h].linked \cup {t}]
           /\ job'[h].at = "link" /\ job'[h].problem = job[h].problem
           /\ \A k \in Handlers : k # h => job'[k] = job[k]
           /\ UNCHANGED Stored
<1>1. At(h, "link") /\ UNCHANGED Stored
  BY DEF CreateCodeProblemTag
<1>2. PICK t \in job[h].content.tags :
         /\ TagExists(t)
         /\ Goto(h, [job[h] EXCEPT !.linked = @ \cup {t}])
  BY DEF CreateCodeProblemTag
<1>3. /\ job'[h] = [job[h] EXCEPT !.linked = @ \cup {t}]
      /\ \A k \in Handlers : k # h => job'[k] = job[k]
  BY <1>2, Moved
<1>4. job'[h] = [at |-> "link", problem |-> job[h].problem,
                 content |-> job[h].content, languages |-> job[h].languages,
                 deleted |-> job[h].deleted, linked |-> job[h].linked \cup {t}]
  BY <1>1, <1>3, LinkedJob
<1>5. job'[h].at = "link" /\ job'[h].problem = job[h].problem
  BY <1>4
<1> QED
  BY <1>1, <1>2, <1>3, <1>4, <1>5

\* What a handler that moves has read.
LEMMA NewJobs ==
    ASSUME TypeOK, [Next]_vars, NEW k \in Handlers, job'[k] # job[k]
    PROVE  \/ job'[k] = Idle
           \/ \E n \in Names : job'[k] = [at |-> "createTag", name |-> n]
           \/ \E t \in Tags : job'[k] = [at |-> "deleteTag", tag |-> t]
           \/ \E t \in Tags, n \in Names :
                 job'[k] = [at |-> "updateTag", tag |-> t, name |-> n]
           \/ \E p \in Problems, c \in Contents,
                 s \in {"updateProblem", "deleteProblem"} :
                 /\ ProblemExists(p)
                 /\ job'[k] = [at |-> s, problem |-> p, content |-> c]
           \/ \E p \in Problems, c \in Contents, L \in SUBSET Languages :
                 CreateProblem(k, p, c, L)
           \/ UpdateCodeProblem(k)
           \/ CreateCodeProblemTag(k)
           \/ \E s \in Submissions, p \in Problems, l \in Languages :
                 SubmitHandler(k, s, p, l)
           \/ AssignCodeProblemsToEvent(k)
           \/ GetRandomCodeProblems(k)
<1>0. job' # job
  OBVIOUS
<1>1. ~ UNCHANGED vars
  BY <1>0 DEF vars
<1>2. ~ \E s \in Submissions, p \in Problems, l \in Languages :
           SubmitCodeSolution(s, p, l)
  BY <1>0 DEF SubmitCodeSolution
<1>3. PICK h \in Handlers : HandlerStart(h) \/ HandlerStep(h)
  BY <1>1, <1>2 DEF Next
<1>4. \E j : Goto(h, j)
  BY <1>3 DEF HandlerStart, HandlerStep, CreateTagHandler, DeleteTagHandler,
     UpdateTagHandler, CreateProblem, FindProblem, AssignCodeProblemsToEvent,
     SubmitHandler, CreateTag, UpdateTag, DeleteTag, UpdateCodeProblem,
     CreateCodeProblemTag, CommitProblem, DeleteCodeProblem, UpdateSubmission,
     GetRandomCodeProblems, CommitAssignment, Abandon, Done
<1>5. h = k
  BY <1>4, Moved
<1>6. CASE Done(k)
  BY <1>6, Moved DEF Done
<1>7. CASE \/ CreateTag(k) \/ UpdateTag(k) \/ DeleteTag(k) \/ CommitProblem(k)
           \/ DeleteCodeProblem(k) \/ UpdateSubmission(k)
           \/ CommitAssignment(k) \/ Abandon(k)
  BY <1>6, <1>7 DEF CreateTag, UpdateTag, DeleteTag, CommitProblem,
     DeleteCodeProblem, UpdateSubmission, CommitAssignment, Abandon
<1>8. ASSUME NEW n \in Names, CreateTagHandler(k, n)
      PROVE  job'[k] = [at |-> "createTag", name |-> n]
  BY <1>8, Moved DEF CreateTagHandler
<1>9. ASSUME NEW t \in Tags, DeleteTagHandler(k, t)
      PROVE  job'[k] = [at |-> "deleteTag", tag |-> t]
  BY <1>9, Moved DEF DeleteTagHandler
<1>10. ASSUME NEW t \in Tags, NEW n \in Names, UpdateTagHandler(k, t, n)
       PROVE  job'[k] = [at |-> "updateTag", tag |-> t, name |-> n]
  BY <1>10, Moved DEF UpdateTagHandler
<1>11. ASSUME NEW p \in Problems, NEW c \in Contents, NEW s,
              FindProblem(k, p, c, s)
       PROVE  /\ ProblemExists(p)
              /\ job'[k] = [at |-> s, problem |-> p, content |-> c]
  BY <1>11, Moved DEF FindProblem
<1> QED
  BY <1>3, <1>5, <1>7, <1>8, <1>9, <1>10, <1>11 DEF HandlerStart, HandlerStep

-------------------------------------------------------------------------------
(* What is written                                                         *)

\* A problem that exists is a valid one, and has tags and languages.
LEMMA Existing ==
    ASSUME CatalogAssumption, NEW c \in Contents
    PROVE  /\ c # None
           /\ c = [difficulty |-> c.difficulty, tags |-> c.tags]
           /\ c.difficulty \in 1..3 /\ c.tags \in SUBSET Tags
<1>1. c \in [difficulty : 1..3, tags : SUBSET Tags]
  BY DEF CatalogAssumption
<1>2. c.difficulty # 0
  BY <1>1
<1> QED
  BY <1>1, <1>2 DEF None

\* The foreign keys refuse every removal of a problem.
LEMMA NothingDeleted ==
    ASSUME LookedUp, ProblemsOfOneRequest, TypeOK, NEW h \in Handlers,
           DeleteCodeProblem(h)
    PROVE  problem' = problem
<1>1. job[h].problem \in Problems /\ ProblemExists(job[h].problem)
  BY JobFields DEF DeleteCodeProblem, LookedUp
<1>2. languages[job[h].problem] # {}
  BY <1>1 DEF ProblemsOfOneRequest, SupportedLanguages
<1> QED
  BY <1>2 DEF DeleteCodeProblem, Deletable

\* A commit makes the problem what the request said, in the languages it has
\* if it was there already.
LEMMA Committed ==
    ASSUME CatalogAssumption, TypeOK, WritersKnow, NEW h \in Handlers,
           CommitProblem(h)
    PROVE  \E p \in Problems, c \in Contents, L \in (SUBSET Languages) \ {{}} :
              /\ Writing(h, p)
              /\ problem' = [problem EXCEPT ![p] = c]
              /\ languages' = [languages EXCEPT ![p] = L]
              /\ ProblemExists(p) => L = languages[p]
              /\ \A t \in c.tags : TagExists(t)
              /\ tagName' = tagName
<1> DEFINE j == job[h]
           p == j.problem
<1>1. /\ p \in Problems /\ j.content \in Contents
      /\ j.languages \in (SUBSET Languages) \ {{}}
  BY JobFields DEF CommitProblem
<1>2. At(h, "link") /\ j.linked = j.content.tags
  BY DEF CommitProblem
<1>3. /\ j.deleted = problem[p].tags
      /\ ProblemExists(p) => j.languages = languages[p]
      /\ \A t \in j.linked : TagExists(t)
  BY <1>2 DEF WritersKnow
<1>4. problem' = [problem EXCEPT ![p] =
                    [difficulty |-> j.content.difficulty,
                     tags |-> (problem[p].tags \ j.deleted) \cup j.linked]]
  BY <1>1 DEF CommitProblem, TypeOK
<1>5. [difficulty |-> j.content.difficulty,
       tags |-> (problem[p].tags \ j.deleted) \cup j.linked] = j.content
  <2>1. (problem[p].tags \ j.deleted) \cup j.linked = j.content.tags
    BY <1>2, <1>3
  <2> QED
    BY <1>1, <2>1, Existing
<1>6. languages' = [languages EXCEPT ![p] = j.languages]
  BY DEF CommitProblem, CreateLanguageDetails
<1>7. tagName' = tagName
  BY DEF CommitProblem
<1> QED
  BY <1>1, <1>2, <1>3, <1>4, <1>5, <1>6, <1>7 DEF Writing

\* Which requests write each table.
LEMMA Writers ==
    ASSUME TypeOK, LookedUp, ProblemsOfOneRequest, [Next]_vars
    PROVE  /\ \/ \E h \in Handlers : CreateTag(h) \/ UpdateTag(h) \/ DeleteTag(h)
              \/ tagName' = tagName
           /\ \/ \E h \in Handlers : CommitProblem(h)
              \/ problem' = problem /\ languages' = languages
           /\ \/ \E h \in Handlers : CommitAssignment(h)
              \/ eventProblems' = eventProblems /\ assigned' = assigned
           /\ \/ \E h \in Handlers : UpdateSubmission(h)
              \/ \E s \in Submissions, p \in Problems, l \in Languages :
                    CreateSubmission(s, p, l)
              \/ submission' = submission
<1> USE DEF eventVars, Stored
<1>1. CASE UNCHANGED vars
  BY <1>1 DEF vars
<1>2. ASSUME NEW s \in Submissions, NEW p \in Problems, NEW l \in Languages,
             SubmitCodeSolution(s, p, l)
      PROVE  /\ CreateSubmission(s, p, l)
             /\ UNCHANGED <<tagName, problem, languages, eventProblems, assigned>>
  BY <1>2 DEF SubmitCodeSolution
<1>3. ASSUME NEW h \in Handlers, HandlerStart(h)
      PROVE  /\ UNCHANGED <<tagName, problem, languages, eventProblems, assigned>>
             /\ \/ \E s \in Submissions, p \in Problems, l \in Languages :
                      CreateSubmission(s, p, l)
                \/ submission' = submission
  BY <1>3 DEF HandlerStart, CreateTagHandler, DeleteTagHandler, UpdateTagHandler,
     CreateProblem, FindProblem, AssignCodeProblemsToEvent, SubmitHandler
<1>4. ASSUME NEW h \in Handlers,
             \/ UpdateCodeProblem(h) \/ CreateCodeProblemTag(h)
             \/ GetRandomCodeProblems(h) \/ Abandon(h)
      PROVE  UNCHANGED Stored
  BY <1>4 DEF UpdateCodeProblem, CreateCodeProblemTag, GetRandomCodeProblems,
     Abandon
<1>5. ASSUME NEW h \in Handlers, CreateTag(h) \/ UpdateTag(h) \/ DeleteTag(h)
      PROVE  UNCHANGED <<problem, languages, eventVars, submission>>
  BY <1>5 DEF CreateTag, UpdateTag, DeleteTag
<1>6. ASSUME NEW h \in Handlers, DeleteCodeProblem(h)
      PROVE  UNCHANGED Stored
  BY <1>6, NothingDeleted DEF DeleteCodeProblem
<1>7. ASSUME NEW h \in Handlers, CommitProblem(h)
      PROVE  UNCHANGED <<tagName, eventVars, submission>>
  BY <1>7 DEF CommitProblem
<1>8. ASSUME NEW h \in Handlers, UpdateSubmission(h)
      PROVE  UNCHANGED <<tagName, problem, languages, eventVars>>
  BY <1>8 DEF UpdateSubmission
<1>9. ASSUME NEW h \in Handlers, CommitAssignment(h)
      PROVE  UNCHANGED <<tagName, problem, languages, submission>>
  BY <1>9 DEF CommitAssignment
<1>10. ASSUME NEW h \in Handlers, HandlerStep(h)
       PROVE  \/ UpdateCodeProblem(h) \/ CreateCodeProblemTag(h)
              \/ GetRandomCodeProblems(h) \/ Abandon(h)
              \/ CreateTag(h) \/ UpdateTag(h) \/ DeleteTag(h)
              \/ DeleteCodeProblem(h) \/ CommitProblem(h)
              \/ UpdateSubmission(h) \/ CommitAssignment(h)
  BY <1>10 DEF HandlerStep
<1>11. ASSUME NEW h \in Handlers, HandlerStep(h)
       PROVE  /\ \/ CreateTag(h) \/ UpdateTag(h) \/ DeleteTag(h)
                 \/ tagName' = tagName
              /\ CommitProblem(h) \/ (problem' = problem /\ languages' = languages)
              /\ \/ CommitAssignment(h)
                 \/ eventProblems' = eventProblems /\ assigned' = assigned
              /\ UpdateSubmission(h) \/ submission' = submission
  BY <1>4, <1>5, <1>6, <1>7, <1>8, <1>9, <1>10, <1>11
<1> QED
  BY <1>1, <1>2, <1>3, <1>11 DEF Next

\* A problem that exists stays, with its languages, and is always one that a
\* request asked for.
LEMMA ProblemsStay ==
    ASSUME CatalogAssumption, TypeOK, LookedUp, WritersKnow,
           ProblemsOfOneRequest, [Next]_vars
    PROVE  \A p \in Problems :
              /\ ProblemExists(p) => ProblemExists(p)' /\ languages'[p] = languages[p]
              /\ ProblemExists(p)' => problem'[p] \in Contents /\ languages'[p] # {}
<1> SUFFICES ASSUME NEW p \in Problems
             PROVE  /\ ProblemExists(p) =>
                          ProblemExists(p)' /\ languages'[p] = languages[p]
                    /\ ProblemExists(p)' =>
                          problem'[p] \in Contents /\ languages'[p] # {}
  OBVIOUS
<1>1. ProblemExists(p) => problem[p] \in Contents /\ languages[p] # {}
  BY DEF ProblemsOfOneRequest, SupportedLanguages
<1>2. CASE problem'[p] = problem[p] /\ languages'[p] = languages[p]
  BY <1>1, <1>2 DEF ProblemExists
<1>3. ASSUME NEW h \in Handlers, CommitProblem(h)
      PROVE  \/ problem'[p] = problem[p] /\ languages'[p] = languages[p]
             \/ /\ problem'[p] \in Contents /\ languages'[p] # {}
                /\ ProblemExists(p) => languages'[p] = languages[p]
  <2>1. PICK q \in Problems, c \in Contents, L \in (SUBSET Languages) \ {{}} :
           /\ problem' = [problem EXCEPT ![q] = c]
           /\ languages' = [languages EXCEPT ![q] = L]
           /\ ProblemExists(q) => L = languages[q]
    BY <1>3, Committed
  <2>2. CASE p = q
    <3>1. problem'[p] = c /\ languages'[p] = L
      BY <2>1, <2>2 DEF TypeOK
    <3>2. ProblemExists(p) => languages'[p] = languages[p]
      BY <2>1, <2>2, <3>1 DEF ProblemExists
    <3>3. L # {}
      OBVIOUS
    <3> QED
      BY <3>1, <3>2, <3>3
  <2>3. CASE p # q
    BY <2>1, <2>3 DEF TypeOK
  <2> QED
    BY <2>2, <2>3
<1>4. CASE \E h \in Handlers : CommitProblem(h)
  BY <1>2, <1>3, <1>4, Existing DEF ProblemExists
<1> QED
  BY <1>2, <1>4, Writers

-------------------------------------------------------------------------------
(* Types                                                                   *)

\* The problems that the query returns are there, new to the event and no more
\* than the entry wants.
LEMMA Found ==
    ASSUME CatalogAssumption, TypeOK, NEW n \in Entries,
           NEW f \in [Entries -> SUBSET Problems],
           NEW S \in RandomOf(Matching(Wanted[n].difficulty)
                                \ AssignedProblems(f), Wanted[n].count)
    PROVE  /\ S \in SUBSET Problems
           /\ Cardinality(S) <= Wanted[n].count
           /\ \A p \in S : ProblemExists(p)
           /\ \A m \in Entries : S \cap f[m] = {}
<1> DEFINE found == Matching(Wanted[n].difficulty) \ AssignedProblems(f)
           count == Wanted[n].count
<1>1. S \subseteq found
  BY DEF RandomOf
<1>2. /\ found \subseteq Problems
      /\ \A p \in found : ProblemExists(p)
  BY DEF Matching
<1>3. \A m \in Entries : found \cap f[m] = {}
  BY DEF AssignedProblems
<1>4. Wanted[n].count \in Nat
  <2> DEFINE E == [difficulty : 1..3, count : Nat \ {0}]
  <2>1. Wanted \in Seq(E)
    BY DEF CatalogAssumption
  <2>2. Wanted[n] \in E
    <3> HIDE DEF E
    <3> QED
      BY <2>1 DEF Entries
  <2> QED
    BY <2>2
<1>5. Cardinality(S) <= count
  <2> HIDE DEF found, count
  <2>1. S \in RandomOf(found, count)
    BY DEF found, count
  <2>2. count \in Nat
    BY <1>4 DEF count
  <2>3. CASE S = found /\ Cardinality(found) <= count
    BY <2>3
  <2>4. CASE Cardinality(S) = count
    BY <2>2, <2>4
  <2> QED
    BY <2>1, <2>3, <2>4 DEF RandomOf
<1> QED
  BY <1>1, <1>2, <1>3, <1>5

\* Jobs are kept for the handlers only.
LEMMA JobsOfHandlers ==
    ASSUME TypeOK, [Next]_vars
    PROVE  job' = [k \in Handlers |-> job'[k]]
<1>1. job = [k \in Handlers |-> job[k]]
  BY DEF TypeOK
<1>2. CASE job' = job
  BY <1>1, <1>2
<1>3. ASSUME NEW h \in Handlers, NEW j, Goto(h, j)
      PROVE  job' = [k \in Handlers |-> job'[k]]
  BY <1>1, <1>3 DEF Goto
<1>4. ASSUME NEW h \in Handlers, HandlerStart(h) \/ HandlerStep(h)
      PROVE  \E j : Goto(h, j)
  BY <1>4 DEF HandlerStart, HandlerStep, CreateTagHandler, DeleteTagHandler,
     UpdateTagHandler, CreateProblem, FindProblem, AssignCodeProblemsToEvent,
     SubmitHandler, CreateTag, UpdateTag, DeleteTag, UpdateCodeProblem,
     CreateCodeProblemTag, CommitProblem, DeleteCodeProblem, UpdateSubmission,
     GetRandomCodeProblems, CommitAssignment, Abandon, Done
<1> QED
  BY <1>2, <1>3, <1>4 DEF Next, vars, SubmitCodeSolution

LEMMA JobsNext ==
    ASSUME CatalogAssumption, TypeOK, LookedUp, ProblemsOfOneRequest, [Next]_vars
    PROVE  job' \in [Handlers -> Jobs]
<1> SUFFICES ASSUME NEW k \in Handlers, job'[k] # job[k]
             PROVE  job'[k] \in Jobs
  BY JobsOfHandlers DEF TypeOK
<1>1. ASSUME NEW p \in Problems, NEW c \in Contents, NEW L \in SUBSET Languages,
             CreateProblem(k, p, c, L)
      PROVE  job'[k] \in Jobs
  <2>1. job'[k] = [at |-> "link", problem |-> p, content |-> c, languages |-> L,
                   deleted |-> {}, linked |-> {}]
    BY <1>1, Moved DEF CreateProblem
  <2>2. L \in (SUBSET Languages) \ {{}}
    BY <1>1 DEF CreateProblem, Valid
  <2> QED
    BY <2>1, <2>2 DEF Jobs
<1>2. CASE UpdateCodeProblem(k)
  <2> DEFINE p == job[k].problem
             deleted == problem[p].tags
  <2>1. p \in Problems /\ job[k].content \in Contents
    BY <1>2, JobFields DEF UpdateCodeProblem
  <2>2. languages[p] \in (SUBSET Languages) \ {{}}
    BY <1>2, <2>1 DEF UpdateCodeProblem, LookedUp, ProblemsOfOneRequest,
       SupportedLanguages, TypeOK
  <2>3. deleted \in SUBSET Tags
    BY <2>1 DEF TypeOK
  <2>4. job'[k] = [at |-> "link", problem |-> p, content |-> job[k].content,
                   languages |-> languages[p], deleted |-> deleted,
                   linked |-> {}]
    BY <1>2, Moved DEF UpdateCodeProblem
  <2> HIDE DEF deleted
  <2> QED
    BY <2>1, <2>2, <2>3, <2>4 DEF Jobs
<1>3. CASE CreateCodeProblemTag(k)
  <2>1. At(k, "link")
    BY <1>3 DEF CreateCodeProblemTag
  <2>2. PICK t \in job[k].content.tags :
           Goto(k, [job[k] EXCEPT !.linked = @ \cup {t}])
    BY <1>3 DEF CreateCodeProblemTag
  <2>3. job'[k] = [at |-> "link", problem |-> job[k].problem,
                   content |-> job[k].content, languages |-> job[k].languages,
                   deleted |-> job[k].deleted, linked |-> job[k].linked \cup {t}]
    BY <2>1, <2>2, Moved, LinkedJob
  <2>4. job[k] \in [at : {"link"}, problem : Problems, content : Contents,
                    languages : (SUBSET Languages) \ {{}},
                    deleted : SUBSET Tags, linked : SUBSET Tags]
    BY <2>1, JobFields
  <2>5. job[k].linked \cup {t} \in SUBSET Tags
    BY <2>4, Existing
  <2> QED
    BY <2>3, <2>4, <2>5 DEF Jobs
<1>4. ASSUME NEW s \in Submissions, NEW p \in Problems, NEW l \in Languages,
             SubmitHandler(k, s, p, l)
      PROVE  job'[k] \in Jobs
  <2>1. job'[k] = [at |-> "judge", submission |-> s, tests |-> languages[p]]
    BY <1>4, Moved DEF SubmitHandler, GetTestCasesByProblem
  <2>2. languages[p] \in SUBSET Languages
    BY DEF TypeOK
  <2> QED
    BY <2>1, <2>2 DEF Jobs
<1>5. CASE AssignCodeProblemsToEvent(k)
  <2>1. job'[k] = [at |-> "assign", entry |-> 1, chosen |-> [n \in Entries |-> {}]]
    BY <1>5, Moved DEF AssignCodeProblemsToEvent
  <2> QED
    BY <2>1 DEF Jobs
<1>6. CASE GetRandomCodeProblems(k)
  <2> DEFINE n == job[k].entry
             f == job[k].chosen
  <2>1. n \in Nat /\ f \in [Entries -> SUBSET Problems]
    BY <1>6, JobFields DEF GetRandomCodeProblems
  <2>2. n \in Entries
    BY <1>6 DEF GetRandomCodeProblems
  <2>3. PICK S \in RandomOf(Matching(Wanted[n].difficulty) \ AssignedProblems(f),
                            Wanted[n].count) :
           Goto(k, [at |-> "assign", entry |-> n + 1, chosen |-> [f EXCEPT ![n] = S]])
    BY <1>6 DEF GetRandomCodeProblems
  <2> HIDE DEF n, f
  <2>4. S \in SUBSET Problems
    BY <2>1, <2>2, Found
  <2>5. job'[k] = [at |-> "assign", entry |-> n + 1, chosen |-> [f EXCEPT ![n] = S]]
    BY <2>3, Moved
  <2>6. n + 1 \in Nat /\ [f EXCEPT ![n] = S] \in [Entries -> SUBSET Problems]
    BY <2>1, <2>2, <2>4
  <2> QED
    BY <2>5, <2>6 DEF Jobs
<1>7. CASE \/ job'[k] = Idle
           \/ \E n \in Names : job'[k] = [at |-> "createTag", name |-> n]
           \/ \E t \in Tags : job'[k] = [at |-> "deleteTag", tag |-> t]
           \/ \E t \in Tags, n \in Names :
                 job'[k] = [at |-> "updateTag", tag |-> t, name |-> n]
  <2>1. Idle \in Jobs
    BY DEF Jobs
  <2>2. \A n \in Names : [at |-> "createTag", name |-> n] \in Jobs
    BY DEF Jobs
  <2>3. \A t \in Tags : [at |-> "deleteTag", tag |-> t] \in Jobs
    BY DEF Jobs
  <2>4. \A t \in Tags, n \in Names :
           [at |-> "updateTag", tag |-> t, name |-> n] \in Jobs
    BY DEF Jobs
  <2> QED
    BY <1>7, <2>1, <2>2, <2>3, <2>4
<1>8. CASE \E p \in Problems, c \in Contents,
              s \in {"updateProblem", "deleteProblem"} :
              /\ ProblemExists(p)
              /\ job'[k] = [at |-> s, problem |-> p, content |-> c]
  BY <1>8 DEF Jobs
<1>9. CASE \E p \in Problems, c \in Contents, L \in SUBSET Languages :
              CreateProblem(k, p, c, L)
  BY <1>1, <1>9
<1>10. CASE \E s \in Submissions, p \in Problems, l \in Languages :
               SubmitHandler(k, s, p, l)
  BY <1>4, <1>10
<1>11. \/ job'[k] = Idle
       \/ \E n \in Names : job'[k] = [at |-> "createTag", name |-> n]
       \/ \E t \in Tags : job'[k] = [at |-> "deleteTag", tag |-> t]
       \/ \E t \in Tags, n \in Names :
             job'[k] = [at |-> "updateTag", tag |-> t, name |-> n]
       \/ \E p \in Problems, c \in Contents,
             s \in {"updateProblem", "deleteProblem"} :
             /\ ProblemExists(p)
             /\ job'[k] = [at |-> s, problem |-> p, content |-> c]
       \/ \E p \in Problems, c \in Contents, L \in SUBSET Languages :
             CreateProblem(k, p, c, L)
       \/ UpdateCodeProblem(k)
       \/ CreateCodeProblemTag(k)
       \/ \E s \in Submissions, p \in Problems, l \in Languages :
             SubmitHandler(k, s, p, l)
       \/ AssignCodeProblemsToEvent(k)
       \/ GetRandomCodeProblems(k)
  BY NewJobs
<1> QED
  BY <1>2, <1>3, <1>5, <1>6, <1>7, <1>8, <1>9, <1>10, <1>11
\* What happens to a tag: it gets a name that no other has, or is deleted when
\* no problem refers to it; and no open transaction refers to it.
LEMMA TagWritten ==
    ASSUME CatalogAssumption, TypeOK, NEW h \in Handlers,
           CreateTag(h) \/ UpdateTag(h) \/ DeleteTag(h)
    PROVE  /\ \E t \in Tags, v \in Names \cup {"deleted"} :
                 /\ tagName' = [tagName EXCEPT ![t] = v]
                 /\ TagExists(t) => Unlocked(t)
                 /\ \/ v \in Names /\ IndexAllows(v, t)
                    \/ v = "deleted" /\ Unused(t)
           /\ UNCHANGED <<problem, languages, submission>>
           /\ Done(h)
<1>1. CASE CreateTag(h)
  <2>1. job[h].name \in Names
    BY <1>1, JobFields DEF CreateTag
  <2>2. PICK t \in Tags : /\ tagName[t] = "new"
                          /\ IndexAllows(job[h].name, t)
                          /\ tagName' = [tagName EXCEPT ![t] = job[h].name]
    BY <1>1 DEF CreateTag, InsertTag
  <2>3. ~ TagExists(t)
    BY <2>2 DEF TagExists, CatalogAssumption
  <2> QED
    BY <1>1, <2>1, <2>2, <2>3 DEF CreateTag
<1>2. CASE UpdateTag(h)
  <2>1. job[h].tag \in Tags /\ job[h].name \in Names
    BY <1>2, JobFields DEF UpdateTag
  <2> QED
    BY <1>2, <2>1 DEF UpdateTag, RenameTag
<1>3. CASE DeleteTag(h)
  <2>1. job[h].tag \in Tags
    BY <1>3, JobFields DEF DeleteTag
  <2> QED
    BY <1>3, <2>1 DEF DeleteTag, RemoveTag
<1> QED
  BY <1>1, <1>2, <1>3

\* What happens to a submission: it is stored as pending, or judged.
LEMMA SubmissionWritten ==
    ASSUME TypeOK, JudgesKnow, NEW h \in Handlers, UpdateSubmission(h)
    PROVE  \E s \in Submissions, v \in {"accepted", "failed"} :
              /\ submission[s] # NoSubmission
              /\ submission' = [submission EXCEPT ![s] =
                    [status |-> v, problem |-> submission[s].problem,
                     language |-> submission[s].language,
                     tests |-> languages[submission[s].problem]]]
              /\ submission[s].language \in languages[submission[s].problem]
              /\ At(h, "judge") /\ job[h].submission = s
<1> DEFINE s == job[h].submission
           r == submission[s]
<1>1. At(h, "judge") /\ s \in Submissions
  BY JobFields DEF UpdateSubmission
<1>2. /\ r # NoSubmission
      /\ r.language \in languages[r.problem]
      /\ job[h].tests = languages[r.problem]
  BY <1>1 DEF JudgesKnow
<1>3. PICK v \in {"accepted", "failed"} :
         submission' = [submission EXCEPT ![s] =
                          [status |-> v, problem |-> r.problem,
                           language |-> r.language, tests |-> job[h].tests]]
  BY <1>1 DEF UpdateSubmission, StoreVerdict, TypeOK
<1> QED
  BY <1>1, <1>2, <1>3

LEMMA TablesNext ==
    ASSUME CatalogAssumption, TypeOK, LookedUp, WritersKnow, JudgesKnow,
           ProblemsOfOneRequest, [Next]_vars
    PROVE  /\ tagName' \in [Tags -> Names \cup {"new", "deleted"}]
           /\ problem' \in [Problems -> [difficulty : 0..3, tags : SUBSET Tags]]
           /\ languages' \in [Problems -> SUBSET Languages]
           /\ eventProblems' \in [Entries -> SUBSET Problems]
           /\ assigned' \in BOOLEAN
           /\ submission' \in [Submissions -> {NoSubmission} \cup
                 [status : {"pending", "accepted", "failed"}, problem : Problems,
                  language : Languages, tests : SUBSET Languages]]
<1>1. ASSUME NEW h \in Handlers, CreateTag(h) \/ UpdateTag(h) \/ DeleteTag(h)
      PROVE  tagName' \in [Tags -> Names \cup {"new", "deleted"}]
  BY <1>1, TagWritten DEF TypeOK
<1>2. ASSUME NEW h \in Handlers, CommitProblem(h)
      PROVE  /\ problem' \in [Problems -> [difficulty : 0..3, tags : SUBSET Tags]]
             /\ languages' \in [Problems -> SUBSET Languages]
  <2>1. PICK p \in Problems, c \in Contents, L \in (SUBSET Languages) \ {{}} :
           /\ problem' = [problem EXCEPT ![p] = c]
           /\ languages' = [languages EXCEPT ![p] = L]
    BY <1>2, Committed
  <2>2. c \in [difficulty : 0..3, tags : SUBSET Tags]
    BY Existing
  <2> QED
    BY <2>1, <2>2 DEF TypeOK
<1>3. ASSUME NEW h \in Handlers, CommitAssignment(h)
      PROVE  /\ eventProblems' \in [Entries -> SUBSET Problems]
             /\ assigned' \in BOOLEAN
  <2>1. job[h].chosen \in [Entries -> SUBSET Problems]
    BY <1>3, JobFields DEF CommitAssignment
  <2> QED
    BY <1>3, <2>1 DEF CommitAssignment, CreateEventCodeProblems
<1>4. ASSUME NEW h \in Handlers, UpdateSubmission(h)
      PROVE  submission' \in [Submissions -> {NoSubmission} \cup
                 [status : {"pending", "accepted", "failed"}, problem : Problems,
                  language : Languages, tests : SUBSET Languages]]
  <2>1. PICK s \in Submissions, v \in {"accepted", "failed"} :
           /\ submission[s] # NoSubmission
           /\ submission' = [submission EXCEPT ![s] =
                 [status |-> v, problem |-> submission[s].problem,
                  language |-> submission[s].language,
                  tests |-> languages[submission[s].problem]]]
    BY <1>4, SubmissionWritten
  <2>2. /\ submission[s].problem \in Problems
        /\ submission[s].language \in Languages
    BY <2>1 DEF TypeOK
  <2>3. languages[submission[s].problem] \in SUBSET Languages
    BY <2>2 DEF TypeOK
  <2> QED
    BY <2>1, <2>2, <2>3 DEF TypeOK
<1>5. ASSUME NEW s \in Submissions, NEW p \in Problems, NEW l \in Languages,
             CreateSubmission(s, p, l)
      PROVE  submission' \in [Submissions -> {NoSubmission} \cup
                 [status : {"pending", "accepted", "failed"}, problem : Problems,
                  language : Languages, tests : SUBSET Languages]]
  BY <1>5 DEF CreateSubmission, TypeOK
<1> QED
  BY <1>1, <1>2, <1>3, <1>4, <1>5, Writers DEF TypeOK

LEMMA TypeNext ==
    ASSUME CatalogAssumption, TypeOK, LookedUp, WritersKnow, JudgesKnow,
           ProblemsOfOneRequest, [Next]_vars
    PROVE  TypeOK'
BY TablesNext, JobsNext DEF TypeOK, Entries
-------------------------------------------------------------------------------
(* What handlers know stays true                                           *)

\* What made the handler go where it is, by what it does next.
LEMMA Arrived ==
    ASSUME CatalogAssumption, TypeOK, [Next]_vars, NEW k \in Handlers,
           job'[k] # job[k]
    PROVE  /\ job'[k].at \in {"updateProblem", "deleteProblem"} =>
                 job'[k].problem \in Problems /\ ProblemExists(job'[k].problem)
           /\ job'[k].at = "link" =>
                 \/ \E p \in Problems, c \in Contents, L \in SUBSET Languages :
                       CreateProblem(k, p, c, L)
                 \/ UpdateCodeProblem(k)
                 \/ CreateCodeProblemTag(k)
           /\ job'[k].at = "judge" =>
                 \E s \in Submissions, p \in Problems, l \in Languages :
                     SubmitHandler(k, s, p, l)
           /\ job'[k].at = "assign" =>
                 AssignCodeProblemsToEvent(k) \/ GetRandomCodeProblems(k)
<1> DEFINE Linking ==
              \/ \E p \in Problems, c \in Contents, L \in SUBSET Languages :
                    CreateProblem(k, p, c, L)
              \/ UpdateCodeProblem(k)
              \/ CreateCodeProblemTag(k)
           Judging == \E s \in Submissions, p \in Problems, l \in Languages :
                         SubmitHandler(k, s, p, l)
           Assigning == AssignCodeProblemsToEvent(k) \/ GetRandomCodeProblems(k)
<1>1. Linking => job'[k].at = "link"
  <2>1. ASSUME NEW p \in Problems, NEW c \in Contents, NEW L \in SUBSET Languages,
               CreateProblem(k, p, c, L)
        PROVE  job'[k].at = "link"
    BY <2>1, Moved DEF CreateProblem
  <2>2. ASSUME UpdateCodeProblem(k)
        PROVE  job'[k].at = "link"
    BY <2>2, Moved DEF UpdateCodeProblem
  <2>3. ASSUME CreateCodeProblemTag(k)
        PROVE  job'[k].at = "link"
    BY <2>3, TagLinked
  <2> QED
    BY <2>1, <2>2, <2>3
<1>2. Judging => job'[k].at = "judge"
  BY Moved DEF SubmitHandler
<1>3. Assigning => job'[k].at = "assign"
  <2>1. AssignCodeProblemsToEvent(k) => job'[k].at = "assign"
    BY Moved DEF AssignCodeProblemsToEvent
  <2>2. GetRandomCodeProblems(k) => job'[k].at = "assign"
    <3> SUFFICES ASSUME NEW n, NEW f,
                        Goto(k, [at |-> "assign", entry |-> n, chosen |-> f])
                 PROVE  job'[k].at = "assign"
      BY DEF GetRandomCodeProblems
    <3> QED
      BY Moved
  <2> QED
    BY <2>1, <2>2
<1> DEFINE Naming ==
              \/ job'[k] = Idle
              \/ \E n \in Names : job'[k] = [at |-> "createTag", name |-> n]
              \/ \E t \in Tags : job'[k] = [at |-> "deleteTag", tag |-> t]
              \/ \E t \in Tags, n \in Names :
                    job'[k] = [at |-> "updateTag", tag |-> t, name |-> n]
           Finding ==
              \E p \in Problems, c \in Contents,
                 s \in {"updateProblem", "deleteProblem"} :
                 /\ ProblemExists(p)
                 /\ job'[k] = [at |-> s, problem |-> p, content |-> c]
<1>4. Naming \/ Finding \/ Linking \/ Judging \/ Assigning
  BY NewJobs
<1>5. Naming => job'[k].at \in {"idle", "createTag", "deleteTag", "updateTag"}
  <2>1. Idle.at = "idle"
    BY DEF Idle
  <2>2. \A n \in Names : [at |-> "createTag", name |-> n].at = "createTag"
    OBVIOUS
  <2>3. \A t \in Tags : [at |-> "deleteTag", tag |-> t].at = "deleteTag"
    OBVIOUS
  <2>4. \A t \in Tags, n \in Names :
           [at |-> "updateTag", tag |-> t, name |-> n].at = "updateTag"
    OBVIOUS
  <2>5. ASSUME Naming
        PROVE  job'[k].at \in {"idle", "createTag", "deleteTag", "updateTag"}
    BY <2>1, <2>2, <2>3, <2>4, <2>5
  <2> QED
    BY <2>5
<1>6. Finding => /\ job'[k].at \in {"updateProblem", "deleteProblem"}
                 /\ job'[k].problem \in Problems /\ ProblemExists(job'[k].problem)
  OBVIOUS
<1> HIDE DEF Naming, Finding, Linking, Judging, Assigning
<1>7. /\ job'[k].at = "link" => Linking
      /\ job'[k].at = "judge" => Judging
      /\ job'[k].at = "assign" => Assigning
      /\ job'[k].at \in {"updateProblem", "deleteProblem"} =>
            job'[k].problem \in Problems /\ ProblemExists(job'[k].problem)
  BY <1>1, <1>2, <1>3, <1>4, <1>5, <1>6
<1> QED
  BY <1>7 DEF Linking, Judging, Assigning

LEMMA LookedUpNext ==
    ASSUME CatalogAssumption, TypeOK, LookedUp, WritersKnow,
           ProblemsOfOneRequest, [Next]_vars
    PROVE  LookedUp'
<1> SUFFICES ASSUME NEW k \in Handlers,
                    job'[k].at \in {"updateProblem", "deleteProblem"}
             PROVE  ProblemExists(job[k].problem)'
  BY DEF LookedUp, At
<1>1. job'[k].problem \in Problems /\ ProblemExists(job'[k].problem)
  <2>1. CASE job'[k] = job[k]
    BY <2>1, JobFields DEF LookedUp, At
  <2>2. CASE job'[k] # job[k]
    BY <2>2, Arrived
  <2> QED
    BY <2>1, <2>2
<1> QED
  BY <1>1, ProblemsStay DEF ProblemExists

\* The handler whose job changes is the only one.
LEMMA OneMoves ==
    ASSUME TypeOK, NEW h \in Handlers, NEW j, Goto(h, j), NEW k \in Handlers,
           job'[k] # job[k]
    PROVE  k = h
BY Moved

\* Two transactions never write one problem.
LEMMA OneWriter ==
    ASSUME CatalogAssumption, TypeOK, WritersKnow, [Next]_vars,
           NEW h \in Handlers, NEW k \in Handlers,
           job'[h].at = "link", job'[k].at = "link",
           job'[h].problem = job'[k].problem
    PROVE  h = k
<1>1. ASSUME NEW m \in Handlers, NEW o \in Handlers, m # o,
             job'[m] # job[m], job'[o].at = "link", job'[m].at = "link",
             job'[m].problem = job'[o].problem
      PROVE  FALSE
  <2>0. \E j : Goto(m, j)
    BY <1>1, Arrived DEF CreateProblem, UpdateCodeProblem, CreateCodeProblemTag
  <2>1. job'[o] = job[o]
    BY <1>1, <2>0, Moved
  <2>2. Writing(o, job'[m].problem)
    BY <1>1, <2>1 DEF Writing, At
  <2>3. ASSUME NEW p \in Problems, NEW c \in Contents, NEW L \in SUBSET Languages,
               CreateProblem(m, p, c, L)
        PROVE  FALSE
    <3>1. job'[m].problem = p
      BY <2>3, Moved DEF CreateProblem
    <3> QED
      BY <2>2, <2>3, <3>1 DEF CreateProblem, NewProblem
  <2>4. CASE UpdateCodeProblem(m)
    <3>1. job'[m].problem = job[m].problem
      BY <2>4, Moved DEF UpdateCodeProblem
    <3> QED
      BY <2>2, <2>4, <3>1 DEF UpdateCodeProblem, RowFree
  <2>5. CASE CreateCodeProblemTag(m)
    <3>1. job'[m].problem = job[m].problem
      BY <2>5, TagLinked
    <3> QED
      BY <1>1, <2>2, <2>5, <3>1 DEF CreateCodeProblemTag, WritersKnow
  <2> QED
    BY <1>1, <2>3, <2>4, <2>5, Arrived
<1>2. CASE job'[h] = job[h] /\ job'[k] = job[k]
  BY <1>2 DEF WritersKnow, Writing, At
<1> QED
  BY <1>1, <1>2
\* While a transaction writes a problem nobody else changes the problem, its
\* languages or the tags that the transaction refers to.
LEMMA Undisturbed ==
    ASSUME CatalogAssumption, TypeOK, LookedUp, WritersKnow, JudgesKnow,
           ProblemsOfOneRequest, [Next]_vars, NEW k \in Handlers,
           At(k, "link"), job'[k] = job[k]
    PROVE  /\ problem'[job[k].problem] = problem[job[k].problem]
           /\ languages'[job[k].problem] = languages[job[k].problem]
           /\ \A t \in job[k].linked : TagExists(t)'
<1> DEFINE p == job[k].problem
<1>1. p \in Problems /\ job[k].linked \in SUBSET Tags
  BY JobFields
<1>2. ASSUME NEW h \in Handlers, CommitProblem(h)
      PROVE  problem'[p] = problem[p] /\ languages'[p] = languages[p]
  <2>1. PICK q \in Problems, c \in Contents, L \in (SUBSET Languages) \ {{}} :
           /\ Writing(h, q)
           /\ problem' = [problem EXCEPT ![q] = c]
           /\ languages' = [languages EXCEPT ![q] = L]
    BY <1>2, Committed
  <2>2. job'[h] = Idle
    BY <1>2, Moved DEF CommitProblem, Done
  <2>3. h # k
    BY <2>2 DEF At, Idle
  <2>4. q # p
    BY <2>1, <2>3 DEF WritersKnow
  <2> QED
    BY <1>1, <2>1, <2>4 DEF TypeOK
<1>3. problem'[p] = problem[p] /\ languages'[p] = languages[p]
  BY <1>2, Writers
<1>4. \A t \in job[k].linked : TagExists(t)
  BY DEF WritersKnow
<1>5. ASSUME NEW h \in Handlers, CreateTag(h) \/ UpdateTag(h) \/ DeleteTag(h),
             NEW t \in job[k].linked
      PROVE  TagExists(t)'
  <2>1. PICK u \in Tags, v \in Names \cup {"deleted"} :
           /\ tagName' = [tagName EXCEPT ![u] = v]
           /\ TagExists(u) => Unlocked(u)
    BY <1>5, TagWritten
  <2>2. t # u
    BY <1>4, <2>1 DEF Unlocked
  <2>3. tagName'[t] = tagName[t]
    BY <1>1, <2>1, <2>2 DEF TypeOK
  <2> QED
    BY <1>4, <2>3 DEF TagExists
<1>6. \A t \in job[k].linked : TagExists(t)'
  BY <1>4, <1>5, Writers DEF TagExists
<1> QED
  BY <1>3, <1>6

LEMMA WritersKnowNext ==
    ASSUME CatalogAssumption, TypeOK, LookedUp, WritersKnow, JudgesKnow,
           ProblemsOfOneRequest, [Next]_vars
    PROVE  WritersKnow'
<1> SUFFICES ASSUME NEW k \in Handlers, job'[k].at = "link"
             PROVE  /\ \A h \in Handlers :
                          job'[h].at = "link" /\ job'[h].problem = job'[k].problem
                             => h = k
                    /\ job'[k].deleted = problem'[job'[k].problem].tags
                    /\ problem'[job'[k].problem] # None =>
                          job'[k].languages = languages'[job'[k].problem]
                    /\ job'[k].linked \subseteq job'[k].content.tags
                    /\ \A t \in job'[k].linked : TagExists(t)'
  BY DEF WritersKnow, At, Writing, ProblemExists
<1>1. \A h \in Handlers :
          job'[h].at = "link" /\ job'[h].problem = job'[k].problem => h = k
  BY OneWriter
<1> DEFINE Knows == /\ job'[k].deleted = problem'[job'[k].problem].tags
                    /\ problem'[job'[k].problem] # None =>
                          job'[k].languages = languages'[job'[k].problem]
                    /\ job'[k].linked \subseteq job'[k].content.tags
                    /\ \A t \in job'[k].linked : TagExists(t)'
<1>2. ASSUME job'[k] = job[k]
      PROVE  Knows
  <2>1. At(k, "link")
    BY <1>2 DEF At
  <2> QED
    BY <1>2, <2>1, Undisturbed DEF WritersKnow, ProblemExists
<1>3. ASSUME NEW p \in Problems, NEW c \in Contents, NEW L \in SUBSET Languages,
             CreateProblem(k, p, c, L)
      PROVE  Knows
  <2>1. job'[k] = [at |-> "link", problem |-> p, content |-> c, languages |-> L,
                   deleted |-> {}, linked |-> {}]
    BY <1>3, Moved DEF CreateProblem
  <2>2. problem'[p] = None
    BY <1>3 DEF CreateProblem, NewProblem, ProblemExists, Stored
  <2> QED
    BY <2>1, <2>2 DEF None
<1>4. ASSUME UpdateCodeProblem(k)
      PROVE  Knows
  <2>1. job'[k] = [at |-> "link", problem |-> job[k].problem,
                   content |-> job[k].content,
                   languages |-> languages[job[k].problem],
                   deleted |-> problem[job[k].problem].tags, linked |-> {}]
    BY <1>4, Moved DEF UpdateCodeProblem
  <2>2. problem' = problem /\ languages' = languages
    BY <1>4 DEF UpdateCodeProblem, Stored
  <2> QED
    BY <2>1, <2>2
<1>5. ASSUME CreateCodeProblemTag(k)
      PROVE  Knows
  <2>1. PICK t \in job[k].content.tags :
           /\ TagExists(t)
           /\ job'[k] = [at |-> "link", problem |-> job[k].problem,
                         content |-> job[k].content,
                         languages |-> job[k].languages,
                         deleted |-> job[k].deleted,
                         linked |-> job[k].linked \cup {t}]
    BY <1>5, TagLinked
  <2>2. /\ At(k, "link")
        /\ problem' = problem /\ languages' = languages /\ tagName' = tagName
    BY <1>5, TagLinked DEF Stored
  <2>3. /\ job[k].deleted = problem[job[k].problem].tags
        /\ problem[job[k].problem] # None =>
              job[k].languages = languages[job[k].problem]
        /\ job[k].linked \subseteq job[k].content.tags
        /\ \A u \in job[k].linked : TagExists(u)
    BY <2>2 DEF WritersKnow, ProblemExists
  <2>4. \A u \in job[k].linked \cup {t} : TagExists(u)'
    BY <2>1, <2>2, <2>3 DEF TagExists
  <2> QED
    BY <2>1, <2>2, <2>3, <2>4
<1>6. Knows
  BY <1>2, <1>3, <1>4, <1>5, Arrived
<1> QED
  BY <1>1, <1>6
\* What is submitted stays so, for the same problem and in the same language,
\* and when it is judged, then by the test cases that the problem has.
LEMMA SubmissionsStay ==
    ASSUME CatalogAssumption, TypeOK, LookedUp, WritersKnow, JudgesKnow,
           ProblemsOfOneRequest, [Next]_vars, NEW s \in Submissions,
           submission[s] # NoSubmission
    PROVE  LET p == submission[s].problem IN
           /\ p \in Problems /\ ProblemExists(p)
           /\ languages'[p] = languages[p]
           /\ submission'[s] # NoSubmission
           /\ submission'[s].problem = p
           /\ submission'[s].language = submission[s].language
           /\ \/ submission'[s] = submission[s]
              \/ /\ submission[s].language \in languages[p]
                 /\ submission'[s].tests = languages[p]
<1> DEFINE p == submission[s].problem
           l == submission[s].language
           Stays == /\ submission'[s] # NoSubmission
                    /\ submission'[s].problem = p
                    /\ submission'[s].language = l
                    /\ \/ submission'[s] = submission[s]
                       \/ l \in languages[p] /\ submission'[s].tests = languages[p]
<1>1. p \in Problems /\ ProblemExists(p)
  BY DEF TypeOK, ProblemsOfOneRequest
<1>2. languages'[p] = languages[p]
  BY <1>1, ProblemsStay
<1>3. ASSUME submission'[s] = submission[s]
      PROVE  Stays
  BY <1>3
<1>4. ASSUME NEW h \in Handlers, UpdateSubmission(h)
      PROVE  Stays
  <2>1. PICK r \in Submissions, v \in {"accepted", "failed"} :
           /\ submission' = [submission EXCEPT ![r] =
                 [status |-> v, problem |-> submission[r].problem,
                  language |-> submission[r].language,
                  tests |-> languages[submission[r].problem]]]
           /\ submission[r].language \in languages[submission[r].problem]
    BY <1>4, SubmissionWritten
  <2>2. CASE r # s
    BY <1>3, <2>1, <2>2 DEF TypeOK
  <2>3. CASE r = s
    <3>1. submission'[s] = [status |-> v, problem |-> p, language |-> l,
                            tests |-> languages[p]]
      BY <2>1, <2>3 DEF TypeOK
    <3>2. l \in languages[p]
      BY <2>1, <2>3
    <3>3. submission'[s].status # NoSubmission.status
      BY <3>1 DEF NoSubmission
    <3>4. submission'[s] # NoSubmission
      BY <3>3
    <3>5. /\ submission'[s].problem = p /\ submission'[s].language = l
          /\ submission'[s].tests = languages[p]
      BY <3>1
    <3> QED
      BY <3>2, <3>4, <3>5
  <2> QED
    BY <2>2, <2>3
<1>5. ASSUME NEW r \in Submissions, NEW q, NEW m, CreateSubmission(r, q, m)
      PROVE  Stays
  <2>1. r # s
    BY <1>5 DEF CreateSubmission
  <2> QED
    BY <1>3, <1>5, <2>1 DEF CreateSubmission, TypeOK
<1>6. Stays
  BY <1>3, <1>4, <1>5, Writers
<1> QED
  BY <1>1, <1>2, <1>6

LEMMA JudgesKnowNext ==
    ASSUME CatalogAssumption, TypeOK, LookedUp, WritersKnow, JudgesKnow,
           ProblemsOfOneRequest, [Next]_vars
    PROVE  JudgesKnow'
<1> SUFFICES ASSUME NEW k \in Handlers, job'[k].at = "judge"
             PROVE  LET s == submission'[job'[k].submission] IN
                    /\ s # NoSubmission
                    /\ s.language \in languages'[s.problem]
                    /\ job'[k].tests = languages'[s.problem]
  BY DEF JudgesKnow, At
<1>1. CASE job'[k] = job[k]
  <2> DEFINE s == job[k].submission
  <2>1. At(k, "judge")
    BY <1>1 DEF At
  <2>2. s \in Submissions
    BY <2>1, JobFields
  <2>3. /\ submission[s] # NoSubmission
        /\ submission[s].language \in languages[submission[s].problem]
        /\ job[k].tests = languages[submission[s].problem]
    BY <2>1 DEF JudgesKnow
  <2> HIDE DEF s
  <2>4. /\ submission'[s] # NoSubmission
        /\ submission'[s].problem = submission[s].problem
        /\ submission'[s].language = submission[s].language
        /\ languages'[submission[s].problem] = languages[submission[s].problem]
    BY <2>2, <2>3, SubmissionsStay
  <2> QED
    BY <1>1, <2>3, <2>4 DEF s
<1>2. ASSUME NEW s \in Submissions, NEW p \in Problems, NEW l \in Languages,
             SubmitHandler(k, s, p, l)
      PROVE  LET r == submission'[job'[k].submission] IN
             /\ r # NoSubmission
             /\ r.language \in languages'[r.problem]
             /\ job'[k].tests = languages'[r.problem]
  <2>1. job'[k] = [at |-> "judge", submission |-> s, tests |-> languages[p]]
    BY <1>2, Moved DEF SubmitHandler, GetTestCasesByProblem
  <2>2. submission'[s] = [status |-> "pending", problem |-> p, language |-> l,
                          tests |-> {}]
    BY <1>2 DEF SubmitHandler, CreateSubmission, TypeOK
  <2>3. languages' = languages /\ l \in languages[p]
    BY <1>2 DEF SubmitHandler, SupportedLanguages
  <2>4. submission'[s].status # NoSubmission.status
    BY <2>2 DEF NoSubmission
  <2>5. job'[k].submission = s /\ job'[k].tests = languages[p]
    BY <2>1
  <2>6. submission'[s].language = l /\ submission'[s].problem = p
    BY <2>2
  <2> QED
    BY <2>3, <2>4, <2>5, <2>6
<1> QED
  BY <1>1, <1>2, Arrived

LEMMA ProblemsOfOneRequestNext ==
    ASSUME CatalogAssumption, TypeOK, LookedUp, WritersKnow, JudgesKnow,
           ProblemsOfOneRequest, [Next]_vars
    PROVE  ProblemsOfOneRequest'
<1>1. \A p \in Problems : ProblemExists(p)' =>
          problem'[p] \in Contents /\ languages'[p] # {}
  BY ProblemsStay
<1>2. ASSUME NEW s \in Submissions, submission'[s] # NoSubmission
      PROVE  /\ problem'[submission'[s].problem] # None
             /\ submission'[s].status # "pending" =>
                   /\ submission'[s].language \in languages'[submission'[s].problem]
                   /\ submission'[s].tests = languages'[submission'[s].problem]
  <2>1. CASE submission[s] # NoSubmission
    <3>1. /\ submission[s].problem \in Problems
          /\ ProblemExists(submission[s].problem)
          /\ languages'[submission[s].problem] = languages[submission[s].problem]
          /\ submission'[s].problem = submission[s].problem
          /\ submission'[s].language = submission[s].language
          /\ \/ submission'[s] = submission[s]
             \/ /\ submission[s].language \in languages[submission[s].problem]
                /\ submission'[s].tests = languages[submission[s].problem]
      BY <2>1, SubmissionsStay
    <3>2. problem'[submission[s].problem] # None
      BY <3>1, ProblemsStay DEF ProblemExists
    <3>3. submission[s].status # "pending" =>
             /\ submission[s].language \in languages[submission[s].problem]
             /\ submission[s].tests = languages[submission[s].problem]
      BY <2>1 DEF ProblemsOfOneRequest, SupportedLanguages, GetTestCasesByProblem
    <3> QED
      BY <3>1, <3>2, <3>3
  <2>2. CASE submission[s] = NoSubmission
    <3>1. ~ \E h \in Handlers : UpdateSubmission(h)
      <4> SUFFICES ASSUME NEW h \in Handlers, UpdateSubmission(h)
                   PROVE  FALSE
        OBVIOUS
      <4>1. PICK r \in Submissions, v \in {"accepted", "failed"} :
               /\ submission[r] # NoSubmission
               /\ submission' = [submission EXCEPT ![r] =
                     [status |-> v, problem |-> submission[r].problem,
                      language |-> submission[r].language,
                      tests |-> languages[submission[r].problem]]]
        BY SubmissionWritten
      <4>2. submission'[s] = submission[s]
        BY <2>2, <4>1 DEF TypeOK
      <4> QED
        BY <1>2, <2>2, <4>2
    <3>2. PICK r \in Submissions, p \in Problems, m \in Languages :
             CreateSubmission(r, p, m)
      BY <1>2, <2>2, <3>1, Writers
    <3>3. submission'[s] = [status |-> "pending", problem |-> p, language |-> m,
                            tests |-> {}]
      BY <1>2, <2>2, <3>2 DEF CreateSubmission, TypeOK
    <3>4. problem'[p] # None
      BY <3>2, ProblemsStay DEF CreateSubmission, ProblemExists
    <3>5. submission'[s].problem = p /\ submission'[s].status = "pending"
      BY <3>3
    <3> QED
      BY <3>4, <3>5
  <2> QED
    BY <2>1, <2>2
<1> QED
  BY <1>1, <1>2 DEF ProblemsOfOneRequest, SupportedLanguages,
     GetTestCasesByProblem, ProblemExists
-------------------------------------------------------------------------------
(* Tags                                                                    *)

LEMMA TagsConsistentNext ==
    ASSUME CatalogAssumption, TypeOK, LookedUp, WritersKnow,
           ProblemsOfOneRequest, TagsConsistent, [Next]_vars
    PROVE  TagsConsistent'
<1> DEFINE Known == \A p \in Problems : \A t \in problem'[p].tags :
                        tagName'[t] \in Names
           Unique == \A t, u \in Tags :
                        tagName'[t] \in Names /\ tagName'[t] = tagName'[u] => t = u
<1>1. \A p \in Problems : problem[p].tags \subseteq Tags
  BY DEF TypeOK
<1>2. ASSUME NEW h \in Handlers, CreateTag(h) \/ UpdateTag(h) \/ DeleteTag(h)
      PROVE  Known /\ Unique
  <2>1. PICK t \in Tags, v \in Names \cup {"deleted"} :
           /\ tagName' = [tagName EXCEPT ![t] = v]
           /\ \/ v \in Names /\ IndexAllows(v, t)
              \/ v = "deleted" /\ Unused(t)
    BY <1>2, TagWritten
  <2>2. \A u \in Tags : tagName'[u] = IF u = t THEN v ELSE tagName[u]
    BY <2>1 DEF TypeOK
  <2>3. problem' = problem
    BY <1>2, TagWritten
  <2>4. "deleted" \notin Names
    BY DEF CatalogAssumption
  <2>5. Unique
    <3>1. \A u, w \in Tags : tagName[u] \in Names /\ tagName[u] = tagName[w] => u = w
      BY DEF TagsConsistent, TagExists
    <3>2. v \in Names => \A u \in Tags : tagName[u] = v => u = t
      BY <2>1, <2>4 DEF IndexAllows, Named
    <3> QED
      BY <2>1, <2>2, <2>4, <3>1, <3>2
  <2>6. Known
    <3>1. \A p \in Problems : \A u \in problem[p].tags : tagName[u] \in Names
      BY DEF TagsConsistent, TagExists
    <3>2. v = "deleted" => \A p \in Problems : t \notin problem[p].tags
      BY <2>1, <2>4 DEF Unused
    <3> QED
      BY <1>1, <2>2, <2>3, <3>1, <3>2
  <2> QED
    BY <2>5, <2>6
<1>3. ASSUME tagName' = tagName
      PROVE  Unique
  BY <1>3 DEF TagsConsistent, TagExists
<1>4. ASSUME tagName' = tagName
      PROVE  Known
  <2>1. \A p \in Problems : \A u \in problem[p].tags : tagName[u] \in Names
    BY DEF TagsConsistent, TagExists
  <2>2. ASSUME NEW h \in Handlers, CommitProblem(h)
        PROVE  Known
    <3>1. PICK p \in Problems, c \in Contents :
             /\ problem' = [problem EXCEPT ![p] = c]
             /\ \A t \in c.tags : TagExists(t)
      BY <2>2, Committed
    <3>2. \A q \in Problems : problem'[q] = IF q = p THEN c ELSE problem[q]
      BY <3>1 DEF TypeOK
    <3> QED
      BY <1>4, <2>1, <3>1, <3>2 DEF TagExists
  <2> QED
    BY <1>4, <2>1, <2>2, Writers
<1>5. Known /\ Unique
  BY <1>2, <1>3, <1>4, Writers
<1> QED
  BY <1>5 DEF TagsConsistent, TagExists

-------------------------------------------------------------------------------
(* The problems of the event                                               *)

LEMMA ChoicesFitNext ==
    ASSUME CatalogAssumption, TypeOK, LookedUp, WritersKnow,
           ProblemsOfOneRequest, ChoicesFit, [Next]_vars
    PROVE  ChoicesFit'
<1> SUFFICES ASSUME NEW k \in Handlers, job'[k].at = "assign"
             PROVE  /\ \A n \in Entries :
                          /\ Cardinality(job'[k].chosen[n]) <= Wanted[n].count
                          /\ \A p \in job'[k].chosen[n] : problem'[p] # None
                    /\ \A n, m \in Entries : n # m =>
                          job'[k].chosen[n] \cap job'[k].chosen[m] = {}
  BY DEF ChoicesFit, At, Entries, ProblemExists
<1> DEFINE Fit(f) == /\ \A n \in Entries :
                           /\ Cardinality(f[n]) <= Wanted[n].count
                           /\ \A p \in f[n] : ProblemExists(p)
                     /\ \A n, m \in Entries : n # m => f[n] \cap f[m] = {}
<1>1. job'[k].chosen \in [Entries -> SUBSET Problems] /\ Fit(job'[k].chosen)
  <2>1. CASE job'[k] = job[k]
    <3>1. At(k, "assign")
      BY <2>1 DEF At
    <3> QED
      BY <2>1, <3>1, JobFields DEF ChoicesFit
  <2>2. CASE AssignCodeProblemsToEvent(k)
    <3>1. job'[k] = [at |-> "assign", entry |-> 1,
                     chosen |-> [n \in Entries |-> {}]]
      BY <2>2, Moved DEF AssignCodeProblemsToEvent
    <3>2. job'[k].chosen = [n \in Entries |-> {}]
      BY <3>1
    <3>3. \A n \in Entries : Wanted[n].count \in Nat
      <4> DEFINE E == [difficulty : 1..3, count : Nat \ {0}]
      <4>1. Wanted \in Seq(E)
        BY DEF CatalogAssumption
      <4>2. \A n \in Entries : Wanted[n] \in E
        <5> HIDE DEF E
        <5> QED
          BY <4>1 DEF Entries
      <4> QED
        BY <4>2
    <3>4. \A n \in Entries : Cardinality({}) <= Wanted[n].count
      BY <3>3, FS_EmptySet
    <3> QED
      BY <3>2, <3>4
  <2>3. CASE GetRandomCodeProblems(k)
    <3> DEFINE n == job[k].entry
               f == job[k].chosen
    <3>1. f \in [Entries -> SUBSET Problems]
      BY <2>3, JobFields DEF GetRandomCodeProblems
    <3>2. n \in Entries
      BY <2>3 DEF GetRandomCodeProblems
    <3>3. Fit(f)
      BY <2>3 DEF GetRandomCodeProblems, ChoicesFit
    <3>4. PICK S \in RandomOf(Matching(Wanted[n].difficulty)
                                \ AssignedProblems(f), Wanted[n].count) :
             Goto(k, [at |-> "assign", entry |-> n + 1,
                      chosen |-> [f EXCEPT ![n] = S]])
      BY <2>3 DEF GetRandomCodeProblems
    <3> HIDE DEF n, f
    <3>5. /\ S \in SUBSET Problems
          /\ Cardinality(S) <= Wanted[n].count
          /\ \A p \in S : ProblemExists(p)
          /\ \A m \in Entries : S \cap f[m] = {}
      BY <3>1, <3>2, <3>4, Found
    <3>6. job'[k].chosen = [f EXCEPT ![n] = S]
      <4>1. job'[k] = [at |-> "assign", entry |-> n + 1,
                       chosen |-> [f EXCEPT ![n] = S]]
        BY <3>4, Moved
      <4> QED
        BY <4>1
    <3>7. \A m \in Entries : job'[k].chosen[m] = IF m = n THEN S ELSE f[m]
      BY <3>1, <3>6
    <3>8. job'[k].chosen \in [Entries -> SUBSET Problems]
      BY <3>1, <3>2, <3>5, <3>6
    <3> QED
      BY <3>3, <3>5, <3>7, <3>8
  <2> QED
    BY <2>1, <2>2, <2>3, Arrived
<1>2. \A n \in Entries : \A p \in job'[k].chosen[n] : problem'[p] # None
  BY <1>1, ProblemsStay DEF ProblemExists
<1> QED
  BY <1>1, <1>2

\* The problems of the event are there.
LEMMA EventProblemsExist ==
    ASSUME EventProblemsFit, NEW n \in Entries, NEW p \in eventProblems[n]
    PROVE  ProblemExists(p)
BY DEF EventProblemsFit, GetEventProblems

LEMMA EventProblemsFitNext ==
    ASSUME CatalogAssumption, TypeOK, LookedUp, WritersKnow, JudgesKnow,
           ProblemsOfOneRequest, ChoicesFit, EventProblemsFit, [Next]_vars
    PROVE  EventProblemsFit'
<1>1. /\ \A n \in Entries :
            /\ Cardinality(eventProblems'[n]) <= Wanted[n].count
            /\ \A p \in eventProblems'[n] : ProblemExists(p)
      /\ \A n, m \in Entries : n # m => eventProblems'[n] \cap eventProblems'[m] = {}
  <2>1. ASSUME NEW h \in Handlers, CommitAssignment(h)
        PROVE  At(h, "assign") /\ eventProblems' = job[h].chosen
    BY <2>1 DEF CommitAssignment, CreateEventCodeProblems
  <2>2. CASE eventProblems' = eventProblems
    BY <2>2, EventProblemsExist DEF EventProblemsFit
  <2> QED
    BY <2>1, <2>2, Writers DEF ChoicesFit
<1>2. TypeOK'
  BY TypeNext
<1>3. ASSUME NEW n \in Entries, NEW p \in eventProblems'[n]
      PROVE  \E L \in (SUBSET Languages) \ {{}} : <<p, L>> \in GetEventProblems(n)'
  <2>1. p \in Problems
    BY <1>2 DEF TypeOK, Entries
  <2>2. problem'[p] # None /\ languages'[p] # {}
    BY <1>1, <2>1, ProblemsStay DEF ProblemExists
  <2>3. languages'[p] \in (SUBSET Languages) \ {{}}
    BY <1>2, <2>1, <2>2 DEF TypeOK
  <2>4. <<p, languages'[p]>> \in GetEventProblems(n)'
    BY <2>2 DEF GetEventProblems, SupportedLanguages, ProblemExists
  <2> QED
    BY <2>3, <2>4
<1> QED
  BY <1>1, <1>3 DEF EventProblemsFit, Entries
-------------------------------------------------------------------------------
(* Theorems                                                                *)

LEMMA InvariantInit ==
    ASSUME CatalogAssumption, Init
    PROVE  IInv
<1> USE DEF Init
<1>1. TypeOK
  <2>1. problem \in [Problems -> [difficulty : 0..3, tags : SUBSET Tags]]
    BY DEF None
  <2>2. job \in [Handlers -> Jobs]
    BY DEF Jobs
  <2> QED
    BY <2>1, <2>2 DEF TypeOK
<1>2. LookedUp /\ WritersKnow /\ JudgesKnow /\ ChoicesFit
  BY DEF LookedUp, WritersKnow, JudgesKnow, ChoicesFit, At, Idle
<1>3. TagsConsistent
  BY DEF TagsConsistent, TagExists, None, CatalogAssumption
<1>4. ProblemsOfOneRequest
  BY DEF ProblemsOfOneRequest, ProblemExists
<1>5. EventProblemsFit
  <2> DEFINE E == [difficulty : 1..3, count : Nat \ {0}]
  <2>1. Wanted \in Seq(E)
    BY DEF CatalogAssumption
  <2>2. \A n \in Entries : Wanted[n] \in E
    <3> HIDE DEF E
    <3> QED
      BY <2>1 DEF Entries
  <2>3. \A n \in Entries : Cardinality(eventProblems[n]) <= Wanted[n].count
    BY <2>2, FS_EmptySet
  <2> QED
    BY <2>3 DEF EventProblemsFit
<1> QED
  BY <1>1, <1>2, <1>3, <1>4, <1>5 DEF IInv

LEMMA InvariantNext ==
    ASSUME CatalogAssumption, IInv, [Next]_vars
    PROVE  IInv'
BY TypeNext, LookedUpNext, WritersKnowNext, JudgesKnowNext, ChoicesFitNext,
   TagsConsistentNext, ProblemsOfOneRequestNext, EventProblemsFitNext DEF IInv

\* What handlers have looked up stays, open transactions have the rows they
\* write for themselves and refer only to tags that exist, and verdicts are by
\* the test cases of the problem.
THEOREM Invariant == Spec => []IInv
BY CatalogAssumption, InvariantInit, InvariantNext, PTL DEF Spec

\* Every variable has its type: no step stores what the schema would refuse.
THEOREM TypeCorrect == Spec => []TypeOK
<1>1. IInv => TypeOK
  BY DEF IInv
<1> QED
  BY <1>1, Invariant, PTL

\* Names are unique and the tags of a problem exist, whatever administrators
\* do at once: the index and the locks of the foreign keys decide, not the
\* lookups of the handlers.
THEOREM TagsStayConsistent == Spec => []TagsConsistent
<1>1. IInv => TagsConsistent
  BY DEF IInv
<1> QED
  BY <1>1, Invariant, PTL

\* A problem is what one request said of it, and what has been submitted was
\* judged by all the test cases of its problem.
THEOREM ProblemsStayWhole == Spec => []ProblemsOfOneRequest
<1>1. IInv => ProblemsOfOneRequest
  BY DEF IInv
<1> QED
  BY <1>1, Invariant, PTL

\* An event never gets a problem for two entries, nor more than it wants, and
\* all it gets can be shown and solved.
THEOREM EventProblemsStayFit == Spec => []EventProblemsFit
<1>1. IInv => EventProblemsFit
  BY DEF IInv
<1> QED
  BY <1>1, Invariant, PTL
===============================================================================
