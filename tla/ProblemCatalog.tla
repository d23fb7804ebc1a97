---------------------------- MODULE ProblemCatalog ----------------------------
(***************************************************************************)
(* Tags, problems, the problems of an event, and the solutions submitted   *)
(* outside the rooms: what administrators change while others do the same, *)
(* players practise and the cron request chooses problems.                 *)
(*                                                                         *)
(* Handlers look before they write, and nothing keeps what they saw.  What *)
(* does is the database: the unique index on tags.name, the foreign keys,  *)
(* whose checks lock the row that is referred to until the transaction     *)
(* ends, and the lock of a row that a transaction has updated.  A step is  *)
(* one statement under READ COMMITTED, or a commit.  Ids are never used    *)
(* again.                                                                  *)
(***************************************************************************)
EXTENDS Naturals, Sequences, FiniteSets

CONSTANTS
    Tags,      \* bound: the tags that can ever be made
    Names,     \* the names of tags
    Problems,  \* bound: the problems that can ever be made
    Contents,  \* what requests say of a problem: its difficulty and its tags
    Languages,
    Submissions, \* bound: the submissions outside rooms that can ever be made
    Handlers,  \* bound: the requests that are served at once
    Wanted,    \* how many problems of which difficulty the event is to have
    Topics     \* the tags the event is about, none for all

ASSUME CatalogAssumption ==
    /\ Contents \subseteq [difficulty : 1..3, tags : SUBSET Tags]
    /\ Wanted \in Seq([difficulty : 1..3, count : Nat \ {0}])
    /\ Topics \subseteq Tags
    /\ IsFiniteSet(Problems)
    /\ Names \cap {"new", "deleted"} = {}

VARIABLES
    tagName,   \* tags.name, "new" before there is a row, "deleted" after
    problem,   \* code_problems with their tags, None without a row
    languages, \* code_problem_language_details, and the test cases with them
    eventProblems, \* event_code_problems, for each entry of Wanted
    assigned,  \* the event is active
    submission, \* submissions, with (as a history) the languages for which
                \* the test cases that judged them were written
    job        \* what each handler does and what it has read

eventVars == <<eventProblems, assigned>>
vars == <<tagName, problem, languages, eventVars, submission, job>>

NoSubmission == [status |-> "none"]
None == [difficulty |-> 0, tags |-> {}]
Idle == [at |-> "idle"]
Entries == DOMAIN Wanted

Jobs ==
    {Idle}
    \cup [at : {"createTag"}, name : Names]
    \cup [at : {"updateTag"}, tag : Tags, name : Names]
    \cup [at : {"deleteTag"}, tag : Tags]
    \cup [at : {"updateProblem", "deleteProblem"}, problem : Problems,
          content : Contents]
    \cup [at : {"link"}, problem : Problems, content : Contents,
          languages : (SUBSET Languages) \ {{}}, deleted : SUBSET Tags,
          linked : SUBSET Tags]
    \cup [at : {"judge"}, submission : Submissions, tests : SUBSET Languages]
    \cup [at : {"assign"}, entry : Nat, chosen : [Entries -> SUBSET Problems]]

Init ==
    /\ tagName = [t \in Tags |-> "new"]
    /\ problem = [p \in Problems |-> None]
    /\ languages = [p \in Problems |-> {}]
    /\ eventProblems = [n \in Entries |-> {}]
    /\ assigned = FALSE
    /\ submission = [s \in Submissions |-> NoSubmission]
    /\ job = [h \in Handlers |-> Idle]

Goto(h, j) == job' = [job EXCEPT ![h] = j]
Done(h) == Goto(h, Idle)
At(h, s) == job[h].at = s
Stored == <<tagName, problem, languages, eventVars, submission>>

TagExists(t) == tagName[t] \in Names
Named(n) == {t \in Tags : tagName[t] = n}
ProblemExists(p) == problem[p] # None
Writing(h, p) == At(h, "link") /\ job[h].problem = p

\* A statement fails, or the instance dies: the transaction is rolled back.
Abandon(h) ==
    /\ ~ At(h, "idle")
    /\ Done(h)
    /\ UNCHANGED Stored

-------------------------------------------------------------------------------
(* Tags                                                                    *)

\* Mutant: tags.name has no unique index.
NoIndex(n, t) == TRUE

\* The unique index lets t have the name n.
IndexAllows(n, t) == Named(n) \subseteq {t}

\* The foreign keys of committed problems, and of those being written.
Unused(t) == \A p \in Problems : t \notin problem[p].tags

\* Mutant: a row that others refer to is not locked.
NotLocked(t) == TRUE

\* No open transaction refers to t: if one does, whoever changes the key of t
\* or deletes it waits.
Unlocked(t) == \A h \in Handlers : At(h, "link") => t \notin job[h].linked

\* GetTagByName finds nothing.
CreateTagHandler(h, n) ==
    /\ At(h, "idle")
    /\ Named(n) = {}
    /\ Goto(h, [at |-> "createTag", name |-> n])
    /\ UNCHANGED Stored

\* INSERT INTO tags
InsertTag(n) ==
    \E t \in Tags :
        /\ tagName[t] = "new"
        /\ IndexAllows(n, t)
        /\ tagName' = [tagName EXCEPT ![t] = n]

CreateTag(h) ==
    /\ At(h, "createTag")
    /\ InsertTag(job[h].name)
    /\ Done(h)
    /\ UNCHANGED <<problem, languages, eventVars, submission>>

\* The tag exists, and no other tag has the name.
UpdateTagHandler(h, t, n) ==
    /\ At(h, "idle")
    /\ TagExists(t)
    /\ Named(n) \subseteq {t}
    /\ Goto(h, [at |-> "updateTag", tag |-> t, name |-> n])
    /\ UNCHANGED Stored

\* UPDATE tags SET name = n
RenameTag(t, n) ==
    /\ TagExists(t)
    /\ IndexAllows(n, t)
    /\ Unlocked(t)
    /\ tagName' = [tagName EXCEPT ![t] = n]

UpdateTag(h) ==
    /\ At(h, "updateTag")
    /\ RenameTag(job[h].tag, job[h].name)
    /\ Done(h)
    /\ UNCHANGED <<problem, languages, eventVars, submission>>

DeleteTagHandler(h, t) ==
    /\ At(h, "idle")
    /\ TagExists(t)
    /\ Goto(h, [at |-> "deleteTag", tag |-> t])
    /\ UNCHANGED Stored

\* DELETE FROM tags
RemoveTag(t) ==
    /\ Unlocked(t)
    /\ Unused(t)
    /\ tagName' = [tagName EXCEPT ![t] = "deleted"]

DeleteTag(h) ==
    /\ At(h, "deleteTag")
    /\ RemoveTag(job[h].tag)
    /\ Done(h)
    /\ UNCHANGED <<problem, languages, eventVars, submission>>

-------------------------------------------------------------------------------
(* Problems                                                                *)

\* Mutant: the validation forgets the languages.
ValidStatement(c, L) == c.difficulty \in 1..3

\* validateCreateProblemRequest: a difficulty of 1 to 3, and test cases and a
\* solution in at least one language.
Valid(c, L) == c.difficulty \in 1..3 /\ L # {}

\* INSERT INTO code_problems makes a row that no other transaction has.
NewProblem(p) == ~ ProblemExists(p) /\ \A k \in Handlers : ~ Writing(k, p)

\* The request is valid, the solutions have passed, and the transaction has
\* made the problem, which nobody else can see yet.
CreateProblem(h, p, c, L) ==
    /\ At(h, "idle")
    /\ Valid(c, L)
    /\ NewProblem(p)
    /\ Goto(h, [at |-> "link", problem |-> p, content |-> c, languages |-> L,
                deleted |-> {}, linked |-> {}])
    /\ UNCHANGED Stored

\* The problem exists; its update and its removal begin alike.
FindProblem(h, p, c, s) ==
    /\ At(h, "idle")
    /\ ProblemExists(p)
    /\ Goto(h, [at |-> s, problem |-> p, content |-> c])
    /\ UNCHANGED Stored

\* Mutant: the update does not hold the row of the problem.
NoRowLock(p) == TRUE

\* No open transaction has updated the row of p.
RowFree(p) == \A h \in Handlers : ~ Writing(h, p)

\* The transaction updates the problem and deletes the tags it sees.
UpdateCodeProblem(h) ==
    LET p == job[h].problem IN
    /\ At(h, "updateProblem")
    /\ RowFree(p)
    /\ Goto(h, [at |-> "link", problem |-> p, content |-> job[h].content,
                languages |-> languages[p], deleted |-> problem[p].tags,
                linked |-> {}])
    /\ UNCHANGED Stored

\* One row of code_problem_tags: the foreign key wants the tag to exist.
CreateCodeProblemTag(h) ==
    /\ At(h, "link")
    /\ \E t \in job[h].content.tags \ job[h].linked :
          /\ TagExists(t)
          /\ Goto(h, [job[h] EXCEPT !.linked = @ \cup {t}])
    /\ UNCHANGED Stored

\* INSERT INTO code_problem_language_details, for each of the languages.
CreateLanguageDetails(p, L) == languages' = [languages EXCEPT ![p] = L]

\* Language details and test cases are inserted, and all is committed.
CommitProblem(h) ==
    LET j == job[h]
        p == j.problem IN
    /\ At(h, "link")
    /\ j.linked = j.content.tags
    /\ problem' = [problem EXCEPT ![p] =
                     [difficulty |-> j.content.difficulty,
                      tags |-> (@.tags \ j.deleted) \cup j.linked]]
    /\ CreateLanguageDetails(p, j.languages)
    /\ Done(h)
    /\ UNCHANGED <<tagName, eventVars, submission>>

\* Mutant: whatever refers to the problem is ignored.
Unconditionally(p) == TRUE

\* Nothing refers to the problem any more: no language details, tags, events,
\* submissions.
Deletable(p) ==
    /\ languages[p] = {}
    /\ problem[p].tags = {}
    /\ \A n \in Entries : p \notin eventProblems[n]
    /\ \A s \in Submissions :
          submission[s] # NoSubmission => submission[s].problem # p

\* DELETE FROM code_problems: the foreign keys refuse it, since a valid
\* problem has language details and the handler deletes none of them.
DeleteCodeProblem(h) ==
    /\ At(h, "deleteProblem")
    /\ IF Deletable(job[h].problem)
       THEN problem' = [problem EXCEPT ![job[h].problem] = None]
       ELSE UNCHANGED problem
    /\ Done(h)
    /\ UNCHANGED <<tagName, languages, eventVars, submission>>

-------------------------------------------------------------------------------
(* Solutions submitted outside the rooms                                   *)

\* The languages in which p has details.
SupportedLanguages(p) == languages[p]

\* The test cases of p: their rows do not say which language they were
\* written for, so there are those of every language.
GetTestCasesByProblem(p) == languages[p]

\* INSERT INTO submissions: the foreign key wants the problem to exist.
CreateSubmission(s, p, l) ==
    /\ submission[s] = NoSubmission
    /\ ProblemExists(p)
    /\ submission' = [submission EXCEPT ![s] =
                        [status |-> "pending", problem |-> p, language |-> l,
                         tests |-> {}]]

\* The handler has found the details of the language and the test cases, which
\* nobody changes, and stores the submission.
SubmitHandler(h, s, p, l) ==
    /\ At(h, "idle")
    /\ l \in SupportedLanguages(p)
    /\ CreateSubmission(s, p, l)
    /\ Goto(h, [at |-> "judge", submission |-> s,
                tests |-> GetTestCasesByProblem(p)])
    /\ UNCHANGED <<tagName, problem, languages, eventVars>>

\* UPDATE submissions SET status = v
StoreVerdict(s, v, tests) ==
    submission' = [submission EXCEPT ![s] =
                     [status |-> v, problem |-> @.problem,
                      language |-> @.language, tests |-> tests]]

\* The executor has answered.  If it has not within 15 seconds of the request,
\* the context of the update is over (Abandon): the row stays pending.
UpdateSubmission(h) ==
    /\ At(h, "judge")
    /\ \E v \in {"accepted", "failed"} :
          StoreVerdict(job[h].submission, v, job[h].tests)
    /\ Done(h)
    /\ UNCHANGED <<tagName, problem, languages, eventVars>>

\* The gRPC call stores what it is told, and nobody judges it.
SubmitCodeSolution(s, p, l) ==
    /\ CreateSubmission(s, p, l)
    /\ UNCHANGED <<tagName, problem, languages, eventVars, job>>

-------------------------------------------------------------------------------
(* The problems of an event                                                *)

\* The transaction of an assignment, which holds the row of the event.
AssignCodeProblemsToEvent(h) ==
    /\ At(h, "idle")
    /\ ~ assigned
    /\ \A k \in Handlers : ~ At(k, "assign")
    /\ Goto(h, [at |-> "assign", entry |-> 1,
                chosen |-> [n \in Entries |-> {}]])
    /\ UNCHANGED Stored

\* The join with code_problem_tags: a problem without tags is never found,
\* not even when the event has no topics.
Matching(d) ==
    {p \in Problems :
        /\ ProblemExists(p)
        /\ problem[p].difficulty = d
        /\ problem[p].tags # {}
        /\ Topics = {} \/ problem[p].tags \cap Topics # {}}

\* assignedProblemIDs.
AssignedProblems(f) == UNION {f[n] : n \in Entries}

\* Mutant: the query has no LIMIT.
AllOf(found, count) == {found}

\* ORDER BY RANDOM() LIMIT count.
RandomOf(found, count) ==
    IF Cardinality(found) <= count THEN {found}
    ELSE {S \in SUBSET found : Cardinality(S) = count}

GetRandomCodeProblems(h) ==
    LET n == job[h].entry
        f == job[h].chosen
        found == Matching(Wanted[n].difficulty) \ AssignedProblems(f) IN
    /\ At(h, "assign")
    /\ n \in Entries
    /\ \E S \in RandomOf(found, Wanted[n].count) :
          Goto(h, [at |-> "assign", entry |-> n + 1,
                   chosen |-> [f EXCEPT ![n] = S]])
    /\ UNCHANGED Stored

\* INSERT INTO event_code_problems, for each problem of each entry.
CreateEventCodeProblems(f) == eventProblems' = f

CommitAssignment(h) ==
    /\ At(h, "assign")
    /\ job[h].entry \notin Entries
    /\ CreateEventCodeProblems(job[h].chosen)
    /\ assigned' = TRUE
    /\ Done(h)
    /\ UNCHANGED <<tagName, problem, languages, submission>>

\* GetEventProblemsHandler: the problems of the event and their languages.
GetEventProblems(n) ==
    {<<p, SupportedLanguages(p)>> : p \in {q \in eventProblems[n] :
                                                ProblemExists(q)}}

-------------------------------------------------------------------------------
HandlerStart(h) ==
    \/ \E n \in Names : CreateTagHandler(h, n)
    \/ \E t \in Tags : DeleteTagHandler(h, t)
    \/ \E t \in Tags, n \in Names : UpdateTagHandler(h, t, n)
    \/ \E p \in Problems, c \in Contents :
          \/ \E L \in SUBSET Languages : CreateProblem(h, p, c, L)
          \/ FindProblem(h, p, c, "updateProblem")
          \/ FindProblem(h, p, c, "deleteProblem")
    \/ AssignCodeProblemsToEvent(h)
    \/ \E s \in Submissions, p \in Problems, l \in Languages :
          SubmitHandler(h, s, p, l)

HandlerStep(h) ==
    \/ CreateTag(h)
    \/ UpdateTag(h)
    \/ DeleteTag(h)
    \/ UpdateCodeProblem(h)
    \/ CreateCodeProblemTag(h)
    \/ CommitProblem(h)
    \/ DeleteCodeProblem(h)
    \/ UpdateSubmission(h)
    \/ GetRandomCodeProblems(h)
    \/ CommitAssignment(h)
    \/ Abandon(h)

Next ==
    \/ \E h \in Handlers : HandlerStart(h) \/ HandlerStep(h)
    \/ \E s \in Submissions, p \in Problems, l \in Languages :
          SubmitCodeSolution(s, p, l)

Spec == Init /\ [][Next]_vars

-------------------------------------------------------------------------------
(* Properties                                                              *)

TypeOK ==
    /\ tagName \in [Tags -> Names \cup {"new", "deleted"}]
    /\ problem \in [Problems -> [difficulty : 0..3, tags : SUBSET Tags]]
    /\ languages \in [Problems -> SUBSET Languages]
    /\ eventProblems \in [Entries -> SUBSET Problems]
    /\ assigned \in BOOLEAN
    /\ submission \in [Submissions -> {NoSubmission} \cup
          [status : {"pending", "accepted", "failed"}, problem : Problems,
           language : Languages, tests : SUBSET Languages]]
    /\ job \in [Handlers -> Jobs]

\* "tag with this name already exists" holds although the handlers check it
\* too early, and the tags of a problem exist although tags are deleted while
\* it is written.
TagsConsistent ==
    /\ \A t, u \in Tags : TagExists(t) /\ tagName[t] = tagName[u] => t = u
    /\ \A p \in Problems : \A t \in problem[p].tags : TagExists(t)

\* A problem is what one request said of it: two updates at once, each of
\* which replaces the tags, never mix, and it can be solved in a language.
\* What is submitted is for such a problem, also after later changes, and has
\* been judged, if at all, in a language it has and by all its test cases.
ProblemsOfOneRequest ==
    /\ \A p \in Problems : ProblemExists(p) =>
          problem[p] \in Contents /\ SupportedLanguages(p) # {}
    /\ \A s \in Submissions : submission[s] # NoSubmission =>
          LET p == submission[s].problem IN
          /\ ProblemExists(p)
          /\ submission[s].status # "pending" =>
                /\ submission[s].language \in SupportedLanguages(p)
                /\ submission[s].tests = GetTestCasesByProblem(p)

\* "Track all assigned problem IDs to avoid duplicates across distributions":
\* although difficulties change between two of its queries, no problem of the
\* event counts for two entries, none is more than was asked for, and each of
\* them is shown, with a language to solve it in.
EventProblemsFit ==
    /\ \A n \in Entries :
          /\ Cardinality(eventProblems[n]) <= Wanted[n].count
          /\ \A p \in eventProblems[n] :
                \E L \in (SUBSET Languages) \ {{}} :
                    <<p, L>> \in GetEventProblems(n)
    /\ \A n, m \in Entries : n # m => eventProblems[n] \cap eventProblems[m] = {}

\* The problem that a handler has looked up is still there.
LookedUp ==
    \A h \in Handlers : At(h, "updateProblem") \/ At(h, "deleteProblem") =>
        ProblemExists(job[h].problem)

\* A transaction has the row of its problem for itself: what it has read of it
\* is still so, and the tags it refers to exist.
WritersKnow ==
    \A h \in Handlers : At(h, "link") =>
        LET j == job[h] IN
        /\ \A k \in Handlers : Writing(k, j.problem) => k = h
        /\ j.deleted = problem[j.problem].tags
        /\ ProblemExists(j.problem) => j.languages = languages[j.problem]
        /\ j.linked \subseteq j.content.tags
        /\ \A t \in j.linked : TagExists(t)

\* A submission is being judged by the test cases of its problem.
JudgesKnow ==
    \A h \in Handlers : At(h, "judge") =>
        LET s == submission[job[h].submission] IN
        /\ s # NoSubmission
        /\ s.language \in languages[s.problem]
        /\ job[h].tests = languages[s.problem]

\* What an assignment has chosen so far could be the problems of the event.
ChoicesFit ==
    \A h \in Handlers : At(h, "assign") =>
        LET f == job[h].chosen IN
        /\ \A n \in Entries :
              /\ Cardinality(f[n]) <= Wanted[n].count
              /\ \A p \in f[n] : ProblemExists(p)
        /\ \A n, m \in Entries : n # m => f[n] \cap f[m] = {}

\* What every step preserves.
IInv ==
    /\ TypeOK
    /\ LookedUp
    /\ WritersKnow
    /\ JudgesKnow
    /\ ChoicesFit
    /\ TagsConsistent
    /\ ProblemsOfOneRequest
    /\ EventProblemsFit
===============================================================================
