---------------------------- MODULE PullRequests ----------------------------
(***************************************************************************)
(* How an incident becomes a pull request: the incident handler of runWatch *)
(* (cmd/meshmedic/main.go), Client.Open, do and doOnce (pkg/gitops), and    *)
(* the GitHub repository on the other side, which is external and modelled  *)
(* by the answers the code tells apart.                                     *)
(*                                                                          *)
(* The detector is reduced to what it does with the handler's answer: an    *)
(* episode is due until the handler takes it or the signal clears, and a    *)
(* tick hands the due ones over one by one.  Any request may fail before or *)
(* after it took effect.  A content is 0 (no file) or the key whose patch   *)
(* it is; the blob sha GitHub asks for is the content itself.  Time is the  *)
(* second in which the last Open began: nothing else of it is used.         *)
(***************************************************************************)
EXTENDS Naturals, FiniteSets

CONSTANTS
    NumKeys,       \* (target, scenario) pairs, in the order of a tick
    ScenarioOf,    \* per key, its scenario
    PathOf,        \* per key, the file its patch goes to
    Unrenderable,  \* keys whose patch or path template does not render
    BaseGiven,     \* does the config name the base branch
    MaxEpisodes,   \* bound: episodes that begin, over all keys
    MaxFaults      \* bound: requests that go wrong

Key == 1..NumKeys
Path == {PathOf[k] : k \in Key}
Content == 0..NumKeys
Files == [Path -> Content]
Branches == {ScenarioOf[k] : k \in Key} \X Nat

ASSUME PullRequestsAssumption ==
    /\ NumKeys \in Nat \ {0}
    /\ DOMAIN ScenarioOf = Key
    /\ DOMAIN PathOf = Key
    /\ Unrenderable \subseteq Key
    /\ BaseGiven \in BOOLEAN
    /\ MaxEpisodes \in Nat
    /\ MaxFaults \in Nat

Requests == {"default", "base", "branch", "look", "put", "pull"}
MaxAttempts == 3

VARIABLES
    second,   \* when the last Open began
    episode,  \* per key: "quiet", "due" or "reported"
    queue,    \* due keys this tick has still to hand over
    request,  \* the request Open is at, "none" between two handler calls
    attempt,  \* failed attempts of that request
    branch,   \* the branch of the running Open
    tip,      \* the files of the base when Open resolved it
    sha,      \* the content Open found at its path
    main,     \* GitHub: the files of the base branch
    heads,    \* GitHub: the branches, with the files they were cut from
    pulls,    \* GitHub: the pull requests
    begun,    \* history: episodes so far
    faults,   \* history: requests that went wrong so far
    opened,   \* history: pull requests of the running episode
    unheard,  \* history: those of them whose creation was not confirmed
    trouble   \* history: what the running Open has met

openVars == <<request, attempt, branch, tip, sha>>
github == <<main, heads, pulls>>
vars == <<second, episode, queue, openVars, github,
          begun, faults, opened, unheard, trouble>>

NoTrouble == [transient |-> 0, fatal |-> FALSE, taken |-> FALSE]

Least(k, S) == k \in S /\ \A j \in S : k <= j

\* The key whose incident is being handled.
Current == CHOOSE k \in Key : Least(k, queue)

-----------------------------------------------------------------------------
(* GitHub                                                                  *)

Changed(b) == {p \in Path : heads[b].files[p] # heads[b].base[p]}

\* Would GitHub accept the request: a branch name is free, the sha is the one
\* of the file, the branch has a commit and no pull request of its own yet.
Accepts ==
    CASE request = "branch" -> branch \notin DOMAIN heads
      [] request = "put"    -> heads[branch].files[PathOf[Current]] = sha
      [] request = "pull"   -> /\ heads[branch].ahead
                               /\ \A pr \in pulls : pr.head # branch
      [] OTHER              -> TRUE

\* What an accepted request changes.
Effect ==
    CASE request = "branch" ->
            /\ heads' = [b \in DOMAIN heads \cup {branch} |->
                            IF b = branch THEN [base |-> tip, files |-> tip, ahead |-> FALSE]
                            ELSE heads[b]]
            /\ UNCHANGED <<main, pulls, opened>>
      [] request = "put" ->
            /\ heads' = [heads EXCEPT ![branch].files[PathOf[Current]] = Current,
                                      ![branch].ahead = TRUE]
            /\ UNCHANGED <<main, pulls, opened>>
      [] request = "pull" ->
            /\ pulls' = pulls \cup {[head |-> branch, key |-> Current, merged |-> FALSE]}
            /\ opened' = [opened EXCEPT ![Current] = @ + 1]
            /\ UNCHANGED <<main, heads>>
      [] OTHER -> UNCHANGED <<github, opened>>

NoEffect == UNCHANGED <<github, opened>>

\* A reviewer merges a pull request that does not conflict with the base.
Merge(pr) ==
    /\ ~pr.merged
    /\ \A p \in Changed(pr.head) : main[p] = heads[pr.head].base[p]
    /\ main' = [p \in Path |-> IF p \in Changed(pr.head)
                               THEN heads[pr.head].files[p] ELSE main[p]]
    /\ pulls' = (pulls \ {pr}) \cup {[pr EXCEPT !.merged = TRUE]}
    /\ UNCHANGED <<second, episode, queue, openVars, heads,
                   begun, faults, opened, unheard, trouble>>

-----------------------------------------------------------------------------
(* The detector, as far as the handler sees it                             *)

\* Fault: what is due is handed over on the tick that opens it and never again.
DueOnce(ep) == {k \in Key : ep[k] = "due" /\ episode[k] = "quiet"}

\* An episode is due on every tick until the handler takes it.
DueIn(ep) == {k \in Key : ep[k] = "due"}

\* A tick: quiet signals end their episodes, breaching ones open or keep
\* theirs, and what is due goes to the handler.
Tick(breaching) ==
    LET new == {k \in breaching : episode[k] = "quiet"}
    IN  /\ queue = {}
        /\ begun + Cardinality(new) <= MaxEpisodes
        /\ begun' = begun + Cardinality(new)
        /\ episode' = [k \in Key |-> IF k \notin breaching THEN "quiet"
                                     ELSE IF k \in new THEN "due" ELSE episode[k]]
        /\ opened' = [k \in Key |-> IF k \in breaching THEN opened[k] ELSE 0]
        /\ unheard' = [k \in Key |-> IF k \in breaching THEN unheard[k] ELSE 0]
        /\ queue' = DueIn(episode')
        /\ trouble' = NoTrouble
        /\ UNCHANGED <<second, openVars, github, faults>>

\* A tick on which every signal is as it was.
SteadyTick == Tick({k \in Key : episode[k] # "quiet"})

\* Fault: the error of Open is logged and not returned.
AnsweredAlways(k, taken) ==
    /\ queue' = queue \ {k}
    /\ episode' = [episode EXCEPT ![k] = "reported"]

\* The handler returns: nil reports the episode, an error keeps it due.
Answered(k, taken) ==
    /\ queue' = queue \ {k}
    /\ episode' = IF taken THEN [episode EXCEPT ![k] = "reported"] ELSE episode

-----------------------------------------------------------------------------
(* The handler and Open                                                    *)

\* BranchFor: the scenario and the second in which the handler ran.
BranchFor(k, now) == <<ScenarioOf[k], now>>

\* The patch or the path does not render: there is nothing to open, and the
\* handler returns nil.
SkipPullRequest(k) ==
    /\ request = "none"
    /\ Least(k, queue)
    /\ k \in Unrenderable
    /\ Answered(k, TRUE)
    /\ UNCHANGED <<second, openVars, github, begun, faults, opened, unheard, trouble>>

\* The handler calls Open.  Two incidents may be handled within the same second:
\* those of one tick, and those of two, since after a tick that overran the ticker
\* fires at once.  Seconds are counted by their branches: one that has none is not told
\* from the next.
BeginOpen(k) ==
    /\ request = "none"
    /\ Least(k, queue)
    /\ k \notin Unrenderable
    /\ second' \in {second, second + 1}
    /\ second' > second => \E b \in DOMAIN heads : b[2] = second
    /\ request' = IF BaseGiven THEN "base" ELSE "default"
    /\ attempt' = 0
    /\ branch' = BranchFor(k, second')
    /\ trouble' = NoTrouble
    /\ UNCHANGED <<episode, queue, tip, sha, github, begun, faults, opened, unheard>>

\* Open returns.  Its locals are dropped.
Return(taken) ==
    /\ request' = "none"
    /\ attempt' = 0
    /\ branch' = <<ScenarioOf[1], 0>>
    /\ tip' = [p \in Path |-> 0]
    /\ sha' = 0
    /\ Answered(Current, taken)

Following == [default |-> "base", base |-> "branch", branch |-> "look",
              look |-> "put", put |-> "pull"]

\* Fault: the sha of an existing file is not sent.
FoundNothing == 0

\* The contents request, asked of the new branch: a 404 means a new file.
Found == heads[branch].files[PathOf[Current]]

\* The request is answered with a success.
Succeed ==
    /\ request # "none"
    /\ Accepts
    /\ Effect
    /\ IF request = "pull"
       THEN Return(TRUE)
       ELSE /\ request' = Following[request]
            /\ attempt' = 0
            /\ tip' = IF request = "base" THEN main ELSE tip
            /\ sha' = IF request = "look" THEN Found ELSE sha
            /\ UNCHANGED <<branch, episode, queue>>
    /\ UNCHANGED <<second, begun, faults, unheard, trouble>>

\* Fault: a branch that exists already is as good as a new one.
RejectNotBranch ==
    /\ request \in {"branch", "put", "pull"}
    /\ ~Accepts
    /\ IF request = "branch"
       THEN /\ request' = "look"
            /\ attempt' = 0
            /\ UNCHANGED <<branch, tip, sha, episode, queue>>
       ELSE Return(FALSE)
    /\ trouble' = IF request = "branch" THEN [trouble EXCEPT !.taken = TRUE] ELSE trouble
    /\ UNCHANGED <<second, github, begun, faults, opened, unheard>>

\* The request is answered with a 4xx, which is not retried.
Reject ==
    /\ request # "none"
    /\ ~Accepts
    /\ Return(FALSE)
    /\ trouble' = IF request = "branch" /\ trouble.transient = 0
                  THEN [trouble EXCEPT !.taken = TRUE] ELSE trouble
    /\ UNCHANGED <<second, github, begun, faults, opened, unheard>>

\* History: the request went wrong, with its effect or without.
GoesWrong ==
    /\ request # "none"
    /\ faults < MaxFaults
    /\ faults' = faults + 1
    /\ \/ NoEffect /\ UNCHANGED unheard
       \/ /\ Accepts
          /\ Effect
          /\ unheard' = IF request = "pull" THEN [unheard EXCEPT ![Current] = @ + 1]
                        ELSE unheard

\* Fault: the request is tried once more than it should be.
FailTransientlyOnceMore ==
    /\ GoesWrong
    /\ trouble' = [trouble EXCEPT !.transient = @ + 1]
    /\ IF attempt < MaxAttempts
       THEN attempt' = attempt + 1 /\ UNCHANGED <<request, branch, tip, sha, episode, queue>>
       ELSE Return(FALSE)
    /\ UNCHANGED <<second, begun>>

\* A 5xx or a broken connection: tried three times in all.
FailTransiently ==
    /\ GoesWrong
    /\ trouble' = [trouble EXCEPT !.transient = @ + 1]
    /\ IF attempt + 1 < MaxAttempts
       THEN attempt' = attempt + 1 /\ UNCHANGED <<request, branch, tip, sha, episode, queue>>
       ELSE Return(FALSE)
    /\ UNCHANGED <<second, begun>>

\* A timeout, a cancelled context, an unreadable answer or a 4xx that is not
\* about the request: not retried.
FailForGood ==
    /\ GoesWrong
    /\ trouble' = [trouble EXCEPT !.fatal = TRUE]
    /\ Return(FALSE)
    /\ UNCHANGED <<second, begun>>

-----------------------------------------------------------------------------

Init ==
    /\ second = 0
    /\ episode = [k \in Key |-> "quiet"]
    /\ queue = {}
    /\ request = "none"
    /\ attempt = 0
    /\ branch = <<ScenarioOf[1], 0>>
    /\ tip = [p \in Path |-> 0]
    /\ sha = 0
    /\ main = [p \in Path |-> 0]
    /\ heads = [b \in {} |-> 0]
    /\ pulls = {}
    /\ begun = 0
    /\ faults = 0
    /\ opened = [k \in Key |-> 0]
    /\ unheard = [k \in Key |-> 0]
    /\ trouble = NoTrouble

Handle == \E k \in Key : SkipPullRequest(k) \/ BeginOpen(k)

Answer == Succeed \/ Reject \/ FailTransiently \/ FailForGood

Next ==
    \/ \E breaching \in SUBSET Key : Tick(breaching)
    \/ Handle
    \/ Answer
    \/ \E pr \in pulls : Merge(pr)

Spec == Init /\ [][Next]_vars

\* Time passes: no second holds call after call of Open for ever.
OpenLater == \E k \in Key : BeginOpen(k) /\ second' > second

\* Run's ticker keeps firing, also when no signal ever changes again; the
\* handler runs, and every request ends: the HTTP client has a timeout.
FairSpec ==
    /\ Spec
    /\ WF_vars(SteadyTick) /\ WF_vars(Handle) /\ WF_vars(Answer)
    /\ SF_vars(OpenLater)

-----------------------------------------------------------------------------
(* Properties                                                              *)

TypeOK ==
    /\ second \in Nat
    /\ episode \in [Key -> {"quiet", "due", "reported"}]
    /\ queue \in SUBSET Key
    /\ request \in Requests \cup {"none"}
    /\ attempt \in 0..(MaxAttempts - 1)
    /\ branch \in Branches
    /\ tip \in Files /\ sha \in Content /\ main \in Files
    /\ DOMAIN heads \subseteq Branches
    /\ \A b \in DOMAIN heads : heads[b] \in [base : Files, files : Files, ahead : BOOLEAN]
    /\ \A pr \in pulls : pr.head \in DOMAIN heads /\ pr.key \in Key /\ pr.merged \in BOOLEAN
    /\ opened \in [Key -> Nat] /\ unheard \in [Key -> Nat]
    /\ trouble \in [transient : Nat, fatal : BOOLEAN, taken : BOOLEAN]

\* The call under way, whether it has opened a pull request, what is reported, and the
\* pull requests with what they would merge.
Asked == IF request = "none" THEN {} ELSE {Current}
Given == request = "pull" /\ \E pr \in pulls : pr.head = branch
Taken == {k \in Key : episode[k] = "reported"}
Booked(pr) == [head |-> pr.head, key |-> pr.key, merged |-> pr.merged,
               base |-> heads[pr.head].base, files |-> heads[pr.head].files]
Book == {Booked(pr) : pr \in pulls}

Promise == INSTANCE OpenPromise
               WITH Incident <- Key, FileOf <- PathOf, asked <- Asked, given <- Given,
                    taken <- Taken, book <- Book

\* A call of Open opens at most one pull request, and it proposes the incident's change:
\* its branch is the base it was cut from with the incident's file put in, is nobody
\* else's, and stays that, even when two targets breach the same scenario in the same
\* second, whatever is retried, and whatever is merged meanwhile (client.go:59-133).  The
\* handler takes an incident in opening its pull request, or because it renders none.
OpensAsPromised == Promise!PromiseSpec

\* One episode, one pull request: whatever went wrong and was retried, the
\* handler takes an incident whose patch renders only when Open has opened
\* something for it (main.go:310-340), and a second pull request is opened only
\* if the creation of the first was never confirmed to Open.
EpisodeHasPullRequest ==
    \A k \in Key :
        /\ k \notin Unrenderable /\ episode[k] = "reported" => opened[k] > 0
        /\ opened[k] <= unheard[k] + 1

\* Open fails only for a cause outside it: a request that went wrong, or a
\* branch of that name opened in the same second.  In particular a file that
\* an earlier merged remediation left at the path is no obstacle
\* (client.go:92-103).
OpenFails == request # "none" /\ request' = "none" /\ episode' = episode

FailureHasCause ==
    [][OpenFails => trouble'.transient > 0 \/ trouble'.fatal \/ trouble'.taken]_vars

\* client.go:167-170 and TestOpenRetriesTransient5xx: one network error or
\* 5xx does not fail an Open, because the request is tried three times.
OneFaultIsRetried ==
    [][OpenFails => ~(trouble'.transient = 1 /\ ~trouble'.fatal /\ ~trouble'.taken)]_vars

\* Losing a pull request to an outage is not acceptable (client.go:167-169,
\* main.go:330-335): while the signal breaches, the incident of a due episode
\* is eventually taken.
IncidentIsTaken ==
    \A k \in Key \ Unrenderable : (episode[k] = "due") ~> (episode[k] # "due")

=============================================================================
