------------------------- MODULE PullRequestsProofs -------------------------
(***************************************************************************)
(* Proofs about PullRequests: what a pull request proposes, how many an     *)
(* episode gets, and why an Open fails, for every number of targets, every  *)
(* naming of files and scenarios, and any number of requests that go wrong. *)
(***************************************************************************)
EXTENDS PullRequests, TLAPS

Pull == [head : Branches, key : Key, merged : BOOLEAN]
Head == [base : Files, files : Files, ahead : BOOLEAN]

-----------------------------------------------------------------------------
(* The inductive invariant                                                   *)

\* What GitHub holds, and the pull requests counted.
HubInv ==
    /\ main \in Files
    /\ DOMAIN heads \subseteq Branches
    /\ \A b \in DOMAIN heads : heads[b] \in Head
    /\ pulls \subseteq Pull
    /\ \A pr \in pulls : pr.head \in DOMAIN heads
    /\ opened \in [Key -> Nat]

\* What the handler keeps: the queue holds what is due, an Open runs for its
\* least element.
HandlerInv ==
    /\ request \in Requests \cup {"none"}
    /\ attempt \in 0..(MaxAttempts - 1)
    /\ branch \in Branches
    /\ tip \in Files /\ sha \in Content
    /\ episode \in [Key -> {"quiet", "due", "reported"}]
    /\ queue \in SUBSET Key
    /\ \A k \in queue : episode[k] = "due"
    /\ request # "none" => \E k \in Key : Least(k, queue)

RestInv ==
    /\ second \in Nat
    /\ unheard \in [Key -> Nat]
    /\ trouble \in [transient : Nat, fatal : BOOLEAN, taken : BOOLEAN]

\* The branch of an Open is there from its creation on.
Created == request \in {"look", "put", "pull"} => branch \in DOMAIN heads

TypeInv == HubInv /\ HandlerInv /\ RestInv /\ Created

Proposes(pr) ==
    /\ heads[pr.head].files[PathOf[pr.key]] = pr.key
    /\ Changed(pr.head) \subseteq {PathOf[pr.key]}

\* The branch of the running Open is its own: nothing on it but its change, no
\* pull request from it but its own.
ChangeInv ==
    /\ \A pr \in pulls : Proposes(pr)
    /\ request \in {"look", "put", "pull"} => Changed(branch) \subseteq {PathOf[Current]}
    /\ request \in {"look", "put"} => \A pr \in pulls : pr.head # branch
    /\ request = "pull" => heads[branch].files[PathOf[Current]] = Current
    /\ request = "pull" => \A pr \in pulls : pr.head = branch => pr.key = Current

\* What an episode has that the handler has not taken was opened unheard.
EpisodeInv ==
    /\ EpisodeHasPullRequest
    /\ \A k \in Key : episode[k] # "reported" => opened[k] <= unheard[k]

\* While nothing went wrong, what Open asks next is acceptable.
CauseInv ==
    /\ request = "put" /\ trouble.transient = 0 => heads[branch].files[PathOf[Current]] = sha
    /\ request = "pull" /\ trouble.transient = 0 =>
         heads[branch].ahead /\ \A pr \in pulls : pr.head # branch

-----------------------------------------------------------------------------
(* Constants and helpers                                                     *)

LEMMA KeyTypes ==
    /\ Key \subseteq Nat /\ 1 \in Key
    /\ \A k \in Key : PathOf[k] \in Path /\ k \in Content /\ ScenarioOf[k] \in {ScenarioOf[j] : j \in Key}
    /\ 0 \in Content
BY PullRequestsAssumption DEF Key, Path, Content

LEMMA FollowingIs ==
    /\ Following["default"] = "base" /\ Following["base"] = "branch"
    /\ Following["branch"] = "look" /\ Following["look"] = "put" /\ Following["put"] = "pull"
BY DEF Following

LEMMA CurrentIsLeast ==
    ASSUME HandlerInv, request # "none"
    PROVE  Current \in Key /\ Current \in queue /\ episode[Current] = "due"
<1>1. \E k \in Key : Least(k, queue)
  BY DEF HandlerInv
<1>2. Current \in Key /\ Least(Current, queue)
  BY <1>1 DEF Current
<1> QED
  BY <1>2 DEF Least, HandlerInv

LEMMA NoFiles == [p \in Path |-> 0] \in Files
BY KeyTypes DEF Files

-----------------------------------------------------------------------------
(* Types                                                                     *)

\* What an accepted request changes is well typed.
LEMMA EffectTypes ==
    ASSUME TypeInv, request # "none", Accepts, Effect
    PROVE  HubInv' /\ DOMAIN heads \subseteq DOMAIN heads'
           /\ (request = "branch" => branch \in DOMAIN heads')
<1>0. Current \in Key /\ PathOf[Current] \in Path /\ Current \in Content
  BY CurrentIsLeast, KeyTypes DEF TypeInv
<1>1. CASE request = "branch"
  <2> DEFINE new == [base |-> tip, files |-> tip, ahead |-> FALSE]
  <2>1. new \in Head /\ branch \in Branches
    BY DEF Head, TypeInv, HandlerInv
  <2>2. /\ heads' = [b \in DOMAIN heads \cup {branch} |-> IF b = branch THEN new ELSE heads[b]]
        /\ UNCHANGED <<main, pulls, opened>>
    BY <1>1 DEF Effect
  <2> HIDE DEF new
  <2>3. DOMAIN heads' = DOMAIN heads \cup {branch}
    BY <2>2
  <2> QED
    BY <2>1, <2>2, <2>3 DEF TypeInv, HubInv
<1>2. CASE request = "put"
  <2> DEFINE h == heads[branch]
             put == [h EXCEPT !.files = [h.files EXCEPT ![PathOf[Current]] = Current],
                              !.ahead = TRUE]
  <2>1. branch \in DOMAIN heads /\ h \in Head
    BY <1>2 DEF TypeInv, Created, HubInv
  <2>2. heads' = [heads EXCEPT ![branch] = put]
    BY <1>2 DEF Effect
  <2>3. UNCHANGED <<main, pulls, opened>>
    BY <1>2 DEF Effect
  <2> HIDE DEF h
  <2>4. [h.files EXCEPT ![PathOf[Current]] = Current] \in Files
    BY <1>0, <2>1 DEF Head, Files
  <2>5. put \in Head
    BY <2>1, <2>4 DEF Head
  <2> HIDE DEF put
  <2> QED
    BY <1>2, <2>1, <2>2, <2>3, <2>5 DEF TypeInv, HubInv
<1>3. CASE request = "pull"
  <2>1. branch \in DOMAIN heads /\ branch \in Branches
    BY <1>3 DEF TypeInv, Created, HandlerInv
  <2>2. pulls' = pulls \cup {[head |-> branch, key |-> Current, merged |-> FALSE]}
        /\ opened' = [opened EXCEPT ![Current] = opened[Current] + 1]
        /\ UNCHANGED <<main, heads>>
    BY <1>3 DEF Effect
  <2>3. opened[Current] + 1 \in Nat
    BY <1>0 DEF TypeInv, HubInv
  <2>4. opened' \in [Key -> Nat]
    BY <1>0, <2>2, <2>3 DEF TypeInv, HubInv
  <2>5. [head |-> branch, key |-> Current, merged |-> FALSE] \in Pull
    BY <1>0, <2>1 DEF Pull
  <2>6. pulls' \subseteq Pull
    BY <2>2, <2>5 DEF TypeInv, HubInv
  <2>7. \A pr \in pulls' : pr.head \in DOMAIN heads'
    BY <2>1, <2>2 DEF TypeInv, HubInv
  <2> QED
    BY <1>3, <2>2, <2>4, <2>6, <2>7 DEF TypeInv, HubInv
<1>4. CASE request \notin {"branch", "put", "pull"}
  BY <1>4 DEF Effect, github, TypeInv, HubInv
<1> QED
  BY <1>1, <1>2, <1>3, <1>4

LEMMA NoEffectTypes == TypeInv /\ NoEffect => HubInv' /\ DOMAIN heads \subseteq DOMAIN heads'
BY DEF NoEffect, github, TypeInv, HubInv

\* The handler returns: one key less in the queue, the locals dropped.
LEMMA ReturnTypes ==
    ASSUME TypeInv, request # "none", NEW taken \in BOOLEAN, Return(taken)
    PROVE  HandlerInv' /\ request' = "none"
<1>1. /\ request' = "none" /\ attempt' = 0 /\ branch' = <<ScenarioOf[1], 0>>
      /\ tip' = [p \in Path |-> 0] /\ sha' = 0
      /\ queue' = queue \ {Current}
      /\ episode' = (IF taken THEN [episode EXCEPT ![Current] = "reported"] ELSE episode)
  BY DEF Return, Answered
<1>2. attempt' \in 0..(MaxAttempts - 1)
  BY <1>1 DEF MaxAttempts
<1>3. branch' \in Branches
  BY <1>1, KeyTypes DEF Branches
<1>4. tip' \in Files /\ sha' \in Content
  BY <1>1, NoFiles, KeyTypes
<1>5. episode' \in [Key -> {"quiet", "due", "reported"}]
  BY <1>1 DEF TypeInv, HandlerInv
<1>6. queue' \in SUBSET Key /\ \A k \in queue' : episode'[k] = "due"
  BY <1>1 DEF TypeInv, HandlerInv
<1> QED
  BY <1>1, <1>2, <1>3, <1>4, <1>5, <1>6 DEF HandlerInv

\* What goes wrong may have had its effect.
LEMMA GoesWrongTypes ==
    ASSUME TypeInv, GoesWrong
    PROVE  /\ request # "none" /\ HubInv' /\ DOMAIN heads \subseteq DOMAIN heads'
           /\ unheard' \in [Key -> Nat]
<1>1. request # "none"
  BY DEF GoesWrong
<1>2. Current \in Key
  BY <1>1, CurrentIsLeast DEF TypeInv
<1>3. unheard' = unheard \/ unheard' = [unheard EXCEPT ![Current] = unheard[Current] + 1]
  BY DEF GoesWrong
<1>4. unheard[Current] + 1 \in Nat
  BY <1>2 DEF TypeInv, RestInv
<1>5. unheard' \in [Key -> Nat]
  BY <1>2, <1>3, <1>4 DEF TypeInv, RestInv
<1>6. NoEffect \/ (Accepts /\ Effect)
  BY DEF GoesWrong
<1> QED
  BY <1>1, <1>5, <1>6, NoEffectTypes, EffectTypes

LEMMA TypeInit == Init => TypeInv
<1> SUFFICES ASSUME Init PROVE TypeInv
  OBVIOUS
<1>1. HubInv
  BY NoFiles DEF Init, HubInv
<1>2. HandlerInv
  BY NoFiles, KeyTypes DEF Init, HandlerInv, Branches, MaxAttempts
<1>3. RestInv
  BY DEF Init, RestInv, NoTrouble
<1>4. Created
  BY DEF Init, Created
<1> QED
  BY <1>1, <1>2, <1>3, <1>4 DEF TypeInv

LEMMA TroubleTypes ==
    ASSUME RestInv
    PROVE  /\ trouble.transient \in Nat /\ trouble.fatal \in BOOLEAN /\ trouble.taken \in BOOLEAN
           /\ [trouble EXCEPT !.transient = @ + 1]
                \in [transient : Nat, fatal : BOOLEAN, taken : BOOLEAN]
           /\ [trouble EXCEPT !.transient = @ + 1].transient > 0
           /\ [trouble EXCEPT !.fatal = TRUE]
                \in [transient : Nat, fatal : BOOLEAN, taken : BOOLEAN]
           /\ [trouble EXCEPT !.fatal = TRUE].fatal
           /\ [trouble EXCEPT !.taken = TRUE]
                \in [transient : Nat, fatal : BOOLEAN, taken : BOOLEAN]
           /\ [trouble EXCEPT !.taken = TRUE].taken
<1>1. trouble \in [transient : Nat, fatal : BOOLEAN, taken : BOOLEAN]
  BY DEF RestInv
<1> DEFINE t == trouble.transient + 1
<1>2. t \in Nat /\ t > 0
  BY <1>1
<1>3. [trouble EXCEPT !.transient = @ + 1] = [trouble EXCEPT !.transient = t]
  OBVIOUS
<1> HIDE DEF t
<1> QED
  BY <1>1, <1>2, <1>3

LEMMA TypeTick ==
    ASSUME TypeInv, NEW breaching \in SUBSET Key, Tick(breaching)
    PROVE  TypeInv'
<1>1. request = "none"
  BY DEF Tick, TypeInv, HandlerInv, Least
<1>2. episode' \in [Key -> {"quiet", "due", "reported"}]
  BY DEF Tick, TypeInv, HandlerInv
<1>3. queue' \in SUBSET Key /\ \A k \in queue' : episode'[k] = "due"
  BY DEF Tick, DueIn
<1>4. opened' \in [Key -> Nat] /\ unheard' \in [Key -> Nat]
  BY DEF Tick, TypeInv, HubInv, RestInv
<1>5. UNCHANGED <<second, request, attempt, branch, tip, sha, main, heads, pulls>>
      /\ trouble' = NoTrouble
  BY DEF Tick, openVars, github
<1>6. trouble' \in [transient : Nat, fatal : BOOLEAN, taken : BOOLEAN]
  BY <1>5 DEF NoTrouble
<1> QED
  BY <1>1, <1>2, <1>3, <1>4, <1>5, <1>6 DEF TypeInv, HubInv, HandlerInv, RestInv, Created

LEMMA TypeSkip ==
    ASSUME TypeInv, NEW k \in Key, SkipPullRequest(k)
    PROVE  TypeInv'
<1>1. /\ request = "none" /\ queue' = queue \ {k}
      /\ episode' = [episode EXCEPT ![k] = "reported"]
      /\ UNCHANGED <<second, request, attempt, branch, tip, sha, main, heads, pulls,
                     opened, unheard, trouble>>
  BY DEF SkipPullRequest, Answered, openVars, github
<1>2. episode' \in [Key -> {"quiet", "due", "reported"}]
  BY <1>1 DEF TypeInv, HandlerInv
<1>3. queue' \in SUBSET Key /\ \A j \in queue' : episode'[j] = "due"
  BY <1>1 DEF TypeInv, HandlerInv
<1> QED
  BY <1>1, <1>2, <1>3 DEF TypeInv, HubInv, HandlerInv, RestInv, Created

LEMMA TypeBegin ==
    ASSUME TypeInv, NEW k \in Key, BeginOpen(k)
    PROVE  TypeInv'
<1>1. /\ Least(k, queue) /\ request' \in {"base", "default"} /\ attempt' = 0
      /\ trouble' = NoTrouble
      /\ branch' = <<ScenarioOf[k], second'>>
      /\ UNCHANGED <<episode, queue, tip, sha, main, heads, pulls, opened, unheard>>
  BY DEF BeginOpen, BranchFor, github
<1>2. second' \in Nat
  BY DEF BeginOpen, TypeInv, RestInv
<1>3. branch' \in Branches
  BY <1>1, <1>2, KeyTypes DEF Branches
<1>4. trouble' \in [transient : Nat, fatal : BOOLEAN, taken : BOOLEAN]
  BY <1>1 DEF NoTrouble
<1>5. attempt' \in 0..(MaxAttempts - 1) /\ request' \in Requests
  BY <1>1 DEF MaxAttempts, Requests
<1>6. \E j \in Key : Least(j, queue')
  BY <1>1
<1> QED
  BY <1>1, <1>2, <1>3, <1>4, <1>5, <1>6
     DEF TypeInv, HubInv, HandlerInv, RestInv, Created

LEMMA TypeSucceed ==
    ASSUME TypeInv, Succeed
    PROVE  TypeInv'
<1>1. /\ request # "none" /\ Accepts /\ Effect
      /\ UNCHANGED <<second, unheard, trouble>>
  BY DEF Succeed
<1>2. HubInv' /\ DOMAIN heads \subseteq DOMAIN heads'
      /\ (request = "branch" => branch \in DOMAIN heads')
  BY <1>1, EffectTypes
<1>3. RestInv'
  BY <1>1 DEF TypeInv, RestInv
<1>4. CASE request = "pull"
  BY <1>1, <1>2, <1>3, <1>4, ReturnTypes DEF Succeed, TypeInv, Created
<1>5. CASE request # "pull"
  <2>1. /\ request' = Following[request] /\ attempt' = 0
        /\ tip' = (IF request = "base" THEN main ELSE tip)
        /\ sha' = (IF request = "look" THEN Found ELSE sha)
        /\ UNCHANGED <<branch, episode, queue>>
    BY <1>5 DEF Succeed
  <2>2. request \in {"default", "base", "branch", "look", "put"}
    BY <1>1, <1>5 DEF TypeInv, HandlerInv, Requests
  <2>3. /\ request' \in Requests
        /\ request' = "look" => request = "branch"
        /\ request' = "put" => request = "look"
        /\ request' = "pull" => request = "put"
    BY <2>1, <2>2 DEF Following, Requests
  <2>4. tip' \in Files
    BY <2>1 DEF TypeInv, HubInv, HandlerInv
  <2>5. sha' \in Content
    <3>1. CASE request = "look"
      <4>1. heads[branch] \in Head /\ PathOf[Current] \in Path
        BY <1>1, <3>1, CurrentIsLeast, KeyTypes DEF TypeInv, HubInv, Created
      <4> QED
        BY <2>1, <3>1, <4>1 DEF Found, Head, Files
    <3>2. CASE request # "look"
      BY <2>1, <3>2 DEF TypeInv, HandlerInv
    <3> QED
      BY <3>1, <3>2
  <2>6. attempt' \in 0..(MaxAttempts - 1)
    BY <2>1 DEF MaxAttempts
  <2>7. HandlerInv'
    BY <1>1, <2>1, <2>3, <2>4, <2>5, <2>6 DEF TypeInv, HandlerInv
  <2>8. Created'
    BY <1>2, <2>1, <2>3 DEF TypeInv, Created
  <2> QED
    BY <1>2, <1>3, <2>7, <2>8 DEF TypeInv
<1> QED
  BY <1>4, <1>5

LEMMA TypeReject ==
    ASSUME TypeInv, Reject
    PROVE  TypeInv'
<1>1. HandlerInv' /\ request' = "none"
  BY ReturnTypes DEF Reject
<1>2. trouble' = trouble \/ trouble' = [trouble EXCEPT !.taken = TRUE]
  BY DEF Reject
<1>3. RestInv'
  BY <1>2, TroubleTypes DEF Reject, TypeInv, RestInv
<1>4. HubInv'
  BY DEF Reject, github, TypeInv, HubInv
<1> QED
  BY <1>1, <1>3, <1>4 DEF TypeInv, Created

LEMMA TypeFailTransiently ==
    ASSUME TypeInv, FailTransiently
    PROVE  TypeInv'
<1>1. /\ request # "none" /\ HubInv' /\ DOMAIN heads \subseteq DOMAIN heads'
      /\ unheard' \in [Key -> Nat]
  BY GoesWrongTypes DEF FailTransiently
<1>2. RestInv'
  BY <1>1, TroubleTypes DEF FailTransiently, TypeInv, RestInv
<1>3. CASE attempt + 1 < MaxAttempts
  <2>1. /\ attempt' = attempt + 1
        /\ UNCHANGED <<request, branch, tip, sha, episode, queue>>
    BY <1>3 DEF FailTransiently
  <2>2. attempt' \in 0..(MaxAttempts - 1)
    BY <1>3, <2>1 DEF MaxAttempts, TypeInv, HandlerInv
  <2>3. HandlerInv'
    BY <2>1, <2>2 DEF TypeInv, HandlerInv
  <2> QED
    BY <1>1, <1>2, <2>1, <2>3 DEF TypeInv, Created
<1>4. CASE ~(attempt + 1 < MaxAttempts)
  <2>1. HandlerInv' /\ request' = "none"
    BY <1>1, <1>4, ReturnTypes DEF FailTransiently
  <2> QED
    BY <1>1, <1>2, <2>1 DEF TypeInv, Created
<1> QED
  BY <1>3, <1>4

LEMMA TypeFailForGood ==
    ASSUME TypeInv, FailForGood
    PROVE  TypeInv'
<1>1. request # "none" /\ HubInv' /\ unheard' \in [Key -> Nat]
  BY GoesWrongTypes DEF FailForGood
<1>2. RestInv'
  BY <1>1, TroubleTypes DEF FailForGood, TypeInv, RestInv
<1>3. HandlerInv' /\ request' = "none"
  BY <1>1, ReturnTypes DEF FailForGood
<1> QED
  BY <1>1, <1>2, <1>3 DEF TypeInv, Created

\* A merge moves the base and marks the pull request; it names what it named.
LEMMA MergeShape ==
    ASSUME TypeInv, NEW pr \in pulls, Merge(pr)
    PROVE  /\ UNCHANGED <<second, episode, queue, openVars, heads,
                          opened, unheard, trouble>>
           /\ main' \in Files
           /\ pulls' \subseteq Pull
           /\ \A q \in pulls' : \E o \in pulls : q.head = o.head /\ q.key = o.key
<1>1. pr \in Pull /\ pr.head \in DOMAIN heads /\ heads[pr.head] \in Head /\ main \in Files
  BY DEF TypeInv, HubInv
<1>2. main' \in Files
  BY <1>1 DEF Merge, Head, Files
<1> DEFINE done == [pr EXCEPT !.merged = TRUE]
<1>3. done \in Pull /\ done.head = pr.head /\ done.key = pr.key
  BY <1>1 DEF Pull
<1>4. pulls' = (pulls \ {pr}) \cup {done}
  BY DEF Merge
<1> HIDE DEF done
<1>5. pulls' \subseteq Pull
  BY <1>3, <1>4 DEF TypeInv, HubInv
<1>6. \A q \in pulls' : \E o \in pulls : q.head = o.head /\ q.key = o.key
  BY <1>3, <1>4
<1> QED
  BY <1>2, <1>5, <1>6 DEF Merge

LEMMA TypeMerge ==
    ASSUME TypeInv, NEW pr \in pulls, Merge(pr)
    PROVE  TypeInv'
<1>1. /\ UNCHANGED <<second, episode, queue, openVars, heads, opened, unheard, trouble>>
      /\ main' \in Files /\ pulls' \subseteq Pull
      /\ \A q \in pulls' : \E o \in pulls : q.head = o.head /\ q.key = o.key
  BY MergeShape
<1>2. \A q \in pulls' : q.head \in DOMAIN heads
  BY <1>1 DEF TypeInv, HubInv
<1> QED
  BY <1>1, <1>2 DEF openVars, TypeInv, HubInv, HandlerInv, RestInv, Created

LEMMA TypeStutter == TypeInv /\ UNCHANGED vars => TypeInv'
<1> SUFFICES ASSUME TypeInv, UNCHANGED vars PROVE TypeInv'
  OBVIOUS
<1>1. UNCHANGED <<second, episode, queue, request, attempt, branch, tip, sha,
                  main, heads, pulls, opened, unheard, trouble>>
  BY DEF vars, openVars, github
<1> QED
  BY <1>1 DEF TypeInv, HubInv, HandlerInv, RestInv, Created

LEMMA TypeStep == TypeInv /\ [Next]_vars => TypeInv'
BY TypeTick, TypeSkip, TypeBegin, TypeSucceed, TypeReject, TypeFailTransiently,
   TypeFailForGood, TypeMerge, TypeStutter DEF Next, Handle, Answer

-----------------------------------------------------------------------------
(* What a pull request proposes                                              *)

LEMMA ChangeInit == Init => ChangeInv
BY DEF Init, ChangeInv

\* A branch cut anew differs from its base in nothing; a commit changes the
\* incident's file on the branch of the running Open and no other; a pull
\* request is opened from that branch.
LEMMA EffectChange ==
    ASSUME TypeInv, ChangeInv, request # "none", Accepts, Effect
    PROVE  /\ \A pr \in pulls' : Proposes(pr)'
           /\ request \in {"branch", "look", "put", "pull"} =>
                \A p \in Path \ {PathOf[Current]} :
                    heads'[branch].files[p] = heads'[branch].base[p]
           /\ request \in {"branch", "look", "put"} => \A pr \in pulls' : pr.head # branch
           /\ request \in {"put", "pull"} => heads'[branch].files[PathOf[Current]] = Current
           /\ request = "pull" => \A pr \in pulls' : pr.head = branch => pr.key = Current
<1>0. Current \in Key /\ PathOf[Current] \in Path /\ Current \in Content
  BY CurrentIsLeast, KeyTypes DEF TypeInv
<1>1. CASE request = "branch"
  <2> DEFINE new == [base |-> tip, files |-> tip, ahead |-> FALSE]
  <2>1. /\ heads' = [b \in DOMAIN heads \cup {branch} |-> IF b = branch THEN new ELSE heads[b]]
        /\ UNCHANGED pulls
    BY <1>1 DEF Effect
  <2>2. branch \notin DOMAIN heads
    BY <1>1 DEF Accepts
  <2>3. new.base = tip /\ new.files = tip
    OBVIOUS
  <2> HIDE DEF new
  <2>4. heads'[branch] = new /\ \A b \in DOMAIN heads : heads'[b] = heads[b]
    BY <2>1, <2>2
  <2>5. \A pr \in pulls : pr.head # branch /\ heads'[pr.head] = heads[pr.head]
    BY <2>2, <2>4 DEF TypeInv, HubInv
  <2>6. \A pr \in pulls' : Proposes(pr)'
    <3>1. \A pr \in pulls : Proposes(pr)
      BY DEF ChangeInv
    <3>2. \A pr \in pulls : Proposes(pr)'
      BY <2>5, <3>1 DEF Proposes, Changed
    <3> QED
      BY <2>1, <3>2
  <2>7. \A p \in Path : heads'[branch].files[p] = heads'[branch].base[p]
    BY <2>3, <2>4
  <2> QED
    BY <1>1, <2>1, <2>5, <2>6, <2>7
<1>2. CASE request = "put"
  <2> DEFINE h == heads[branch]
             put == [h EXCEPT !.files = [h.files EXCEPT ![PathOf[Current]] = Current],
                              !.ahead = TRUE]
  <2>1. branch \in DOMAIN heads /\ h \in Head
    BY <1>2 DEF TypeInv, Created, HubInv
  <2>2. heads' = [heads EXCEPT ![branch] = put] /\ UNCHANGED pulls
    BY <1>2 DEF Effect
  <2>3. Changed(branch) \subseteq {PathOf[Current]} /\ \A pr \in pulls : pr.head # branch
    BY <1>2 DEF ChangeInv
  <2>4. put.base = h.base /\ put.files = [h.files EXCEPT ![PathOf[Current]] = Current]
    BY <2>1 DEF Head
  <2>5. /\ put.files[PathOf[Current]] = Current
        /\ \A p \in Path \ {PathOf[Current]} : put.files[p] = h.files[p]
    BY <1>0, <2>1, <2>4 DEF Head, Files
  <2> HIDE DEF put, h
  <2>6. heads'[branch] = put /\ \A b \in DOMAIN heads \ {branch} : heads'[b] = heads[b]
    BY <2>1, <2>2
  <2>7. \A pr \in pulls' : Proposes(pr)'
    <3>1. \A pr \in pulls : heads'[pr.head] = heads[pr.head]
      BY <2>3, <2>6 DEF TypeInv, HubInv
    <3> QED
      BY <2>2, <3>1 DEF ChangeInv, Proposes, Changed
  <2>8. \A p \in Path \ {PathOf[Current]} : heads'[branch].files[p] = heads'[branch].base[p]
    <3>1. \A p \in Path \ {PathOf[Current]} : h.files[p] = h.base[p]
      BY <2>3 DEF Changed, h
    <3> QED
      BY <2>4, <2>5, <2>6, <3>1
  <2> QED
    BY <1>2, <2>2, <2>3, <2>5, <2>6, <2>7, <2>8
<1>3. CASE request = "pull"
  <2> DEFINE own == [head |-> branch, key |-> Current, merged |-> FALSE]
  <2>1. /\ pulls' = pulls \cup {own}
        /\ UNCHANGED heads
    BY <1>3 DEF Effect
  <2>2. own.head = branch /\ own.key = Current
    OBVIOUS
  <2> HIDE DEF own
  <2>3. /\ Changed(branch) \subseteq {PathOf[Current]}
        /\ heads[branch].files[PathOf[Current]] = Current
    BY <1>3 DEF ChangeInv
  <2>4. \A pr \in pulls' : Proposes(pr)
    BY <2>1, <2>2, <2>3 DEF ChangeInv, Proposes
  <2>5. \A pr \in pulls' : Proposes(pr)'
    BY <2>1, <2>4 DEF Proposes, Changed
  <2>6. \A pr \in pulls' : pr.head = branch => pr.key = Current
    BY <1>3, <2>1, <2>2 DEF ChangeInv
  <2> QED
    BY <1>3, <2>1, <2>3, <2>5, <2>6 DEF Changed
<1>4. CASE request \notin {"branch", "put", "pull"}
  <2>1. UNCHANGED <<heads, pulls>>
    BY <1>4 DEF Effect, github
  <2> QED
    BY <1>4, <2>1 DEF ChangeInv, Proposes, Changed
<1> QED
  BY <1>1, <1>2, <1>3, <1>4

\* While the handler's queue stands, it handles the same key.
LEMMA SameCurrent == UNCHANGED queue => Current' = Current
BY DEF Current, Least

\* After a step that leaves GitHub alone and no Open running.
LEMMA ChangeIdle ==
    ASSUME ChangeInv, UNCHANGED <<heads, pulls>>, request' \notin {"look", "put", "pull"}
    PROVE  ChangeInv'
BY DEF ChangeInv, Proposes, Changed

LEMMA ChangeSucceed ==
    ASSUME TypeInv, ChangeInv, Succeed
    PROVE  ChangeInv'
<1>1. request # "none" /\ Accepts /\ Effect
  BY DEF Succeed
<1>2. CASE request = "pull"
  <2>1. request' = "none"
    BY <1>2 DEF Succeed, Return
  <2> QED
    BY <1>1, <2>1, EffectChange DEF ChangeInv
<1>3. CASE request # "pull"
  <2>1. request' = Following[request] /\ UNCHANGED <<branch, queue>>
    BY <1>3 DEF Succeed
  <2>2. request \in {"default", "base", "branch", "look", "put"}
    BY <1>1, <1>3 DEF TypeInv, HandlerInv, Requests
  <2>3. /\ request' = "look" => request = "branch"
        /\ request' = "put" => request = "look"
        /\ request' = "pull" => request = "put"
    BY <2>1, <2>2 DEF Following
  <2>4. Current' = Current /\ branch' = branch
    BY <2>1, SameCurrent
  <2>5. request' = "pull" => \A pr \in pulls' : pr.head # branch
    BY <1>1, <2>3, EffectChange
  <2> QED
    BY <1>1, <2>3, <2>4, <2>5, EffectChange DEF ChangeInv, Changed
<1> QED
  BY <1>2, <1>3

LEMMA ChangeFailTransiently ==
    ASSUME TypeInv, ChangeInv, FailTransiently
    PROVE  ChangeInv'
<1>1. /\ request # "none"
      /\ (UNCHANGED <<heads, pulls>>) \/ (Accepts /\ Effect)
  BY DEF FailTransiently, GoesWrong, NoEffect, github
<1>2. CASE attempt + 1 < MaxAttempts
  <2>1. UNCHANGED <<request, branch, queue>>
    BY <1>2 DEF FailTransiently
  <2>2. Current' = Current
    BY <2>1, SameCurrent
  <2>3. CASE UNCHANGED <<heads, pulls>>
    BY <2>1, <2>2, <2>3 DEF ChangeInv, Proposes, Changed
  <2>4. CASE Accepts /\ Effect
    BY <1>1, <2>1, <2>2, <2>4, EffectChange DEF ChangeInv, Changed
  <2> QED
    BY <1>1, <2>3, <2>4
<1>3. CASE ~(attempt + 1 < MaxAttempts)
  <2>1. request' = "none"
    BY <1>3 DEF FailTransiently, Return
  <2>2. CASE UNCHANGED <<heads, pulls>>
    BY <2>1, <2>2, ChangeIdle
  <2>3. CASE Accepts /\ Effect
    BY <1>1, <2>1, <2>3, EffectChange DEF ChangeInv
  <2> QED
    BY <1>1, <2>2, <2>3
<1> QED
  BY <1>2, <1>3

LEMMA ChangeFailForGood ==
    ASSUME TypeInv, ChangeInv, FailForGood
    PROVE  ChangeInv'
<1>1. /\ request # "none" /\ request' = "none"
      /\ (UNCHANGED <<heads, pulls>>) \/ (Accepts /\ Effect)
  BY DEF FailForGood, GoesWrong, NoEffect, github, Return
<1>2. CASE UNCHANGED <<heads, pulls>>
  BY <1>1, <1>2, ChangeIdle
<1>3. CASE Accepts /\ Effect
  BY <1>1, <1>3, EffectChange DEF ChangeInv
<1> QED
  BY <1>1, <1>2, <1>3

LEMMA ChangeMerge ==
    ASSUME TypeInv, ChangeInv, NEW pr \in pulls, Merge(pr)
    PROVE  ChangeInv'
<1>1. /\ UNCHANGED <<request, branch, queue, heads>>
      /\ \A q \in pulls' : \E o \in pulls : q.head = o.head /\ q.key = o.key
  BY MergeShape DEF openVars
<1>2. Current' = Current
  BY <1>1, SameCurrent
<1>3. \A q \in pulls' : Proposes(q)'
  BY <1>1 DEF ChangeInv, Proposes, Changed
<1> QED
  BY <1>1, <1>2, <1>3 DEF ChangeInv, Changed

LEMMA ChangeStep == TypeInv /\ ChangeInv /\ [Next]_vars => ChangeInv'
<1> SUFFICES ASSUME TypeInv, ChangeInv, [Next]_vars PROVE ChangeInv'
  OBVIOUS
<1>1. ASSUME NEW breaching \in SUBSET Key, Tick(breaching) PROVE ChangeInv'
  <2>1. request = "none"
    BY <1>1 DEF Tick, TypeInv, HandlerInv, Least
  <2>2. UNCHANGED <<request, heads, pulls>>
    BY <1>1 DEF Tick, openVars, github
  <2> QED
    BY <2>1, <2>2, ChangeIdle
<1>2. ASSUME NEW k \in Key, SkipPullRequest(k) PROVE ChangeInv'
  BY <1>2, ChangeIdle DEF SkipPullRequest, openVars, github
<1>3. ASSUME NEW k \in Key, BeginOpen(k) PROVE ChangeInv'
  BY <1>3, ChangeIdle DEF BeginOpen, github
<1>4. CASE Reject
  BY <1>4, ChangeIdle DEF Reject, Return, github
<1>5. CASE UNCHANGED vars
  <2>1. UNCHANGED <<request, branch, queue, heads, pulls>>
    BY <1>5 DEF vars, openVars, github
  <2> QED
    BY <2>1, SameCurrent DEF ChangeInv, Proposes, Changed
<1> QED
  BY <1>1, <1>2, <1>3, <1>4, <1>5, ChangeSucceed, ChangeFailTransiently, ChangeFailForGood,
     ChangeMerge DEF Next, Handle, Answer

-----------------------------------------------------------------------------
(* How many an episode gets                                                  *)

LEMMA EpisodeInit == Init => EpisodeInv
BY DEF Init, EpisodeInv, EpisodeHasPullRequest

\* Only the request for a pull request opens one, for the key handled.
LEMMA EffectOpens ==
    ASSUME TypeInv, request # "none", Effect
    PROVE  opened' = (IF request = "pull" THEN [opened EXCEPT ![Current] = opened[Current] + 1]
                      ELSE opened)
<1>1. CASE request = "pull"
  BY <1>1 DEF Effect
<1>2. CASE request # "pull"
  BY <1>2 DEF Effect, github
<1> QED
  BY <1>1, <1>2

LEMMA EpisodeStutter ==
    ASSUME EpisodeInv, UNCHANGED <<episode, opened, unheard>>
    PROVE  EpisodeInv'
BY DEF EpisodeInv, EpisodeHasPullRequest

LEMMA EpisodeTick ==
    ASSUME TypeInv, EpisodeInv, NEW breaching \in SUBSET Key, Tick(breaching)
    PROVE  EpisodeInv'
<1> SUFFICES ASSUME NEW k \in Key
             PROVE  /\ k \notin Unrenderable /\ episode'[k] = "reported" => opened'[k] > 0
                    /\ opened'[k] <= unheard'[k] + 1
                    /\ episode'[k] # "reported" => opened'[k] <= unheard'[k]
  BY DEF EpisodeInv, EpisodeHasPullRequest
<1>1. /\ episode'[k] = (IF k \notin breaching THEN "quiet"
                        ELSE IF episode[k] = "quiet" THEN "due" ELSE episode[k])
      /\ opened'[k] = (IF k \in breaching THEN opened[k] ELSE 0)
      /\ unheard'[k] = (IF k \in breaching THEN unheard[k] ELSE 0)
  BY DEF Tick
<1> QED
  BY <1>1 DEF EpisodeInv, EpisodeHasPullRequest

\* What went wrong is counted where it was opened; the episode goes on.
LEMMA EpisodeGoesWrong ==
    ASSUME TypeInv, EpisodeInv, GoesWrong, UNCHANGED episode
    PROVE  EpisodeInv'
<1>1. request # "none" /\ Current \in Key /\ episode[Current] = "due"
  BY CurrentIsLeast DEF GoesWrong, TypeInv
<1>2. CASE UNCHANGED <<opened, unheard>>
  BY <1>2, EpisodeStutter
<1>3. CASE Effect /\ unheard' = IF request = "pull" THEN [unheard EXCEPT ![Current] = @ + 1]
                                ELSE unheard
  <2>1. CASE request = "pull"
    <3>1. /\ opened' = [opened EXCEPT ![Current] = opened[Current] + 1]
          /\ unheard' = [unheard EXCEPT ![Current] = unheard[Current] + 1]
      BY <1>1, <1>3, <2>1, EffectOpens
    <3> SUFFICES ASSUME NEW k \in Key
                 PROVE  /\ k \notin Unrenderable /\ episode[k] = "reported" => opened'[k] > 0
                        /\ opened'[k] <= unheard'[k] + 1
                        /\ episode[k] # "reported" => opened'[k] <= unheard'[k]
      BY DEF EpisodeInv, EpisodeHasPullRequest
    <3>2. opened[k] \in Nat /\ unheard[k] \in Nat
      BY DEF TypeInv, HubInv, RestInv
    <3>3. /\ opened'[k] = (IF k = Current THEN opened[k] + 1 ELSE opened[k])
          /\ unheard'[k] = (IF k = Current THEN unheard[k] + 1 ELSE unheard[k])
      BY <3>1 DEF TypeInv, HubInv, RestInv
    <3> QED
      BY <3>2, <3>3 DEF EpisodeInv, EpisodeHasPullRequest
  <2>2. CASE request # "pull"
    BY <1>1, <1>3, <2>2, EffectOpens, EpisodeStutter
  <2> QED
    BY <2>1, <2>2
<1> QED
  BY <1>2, <1>3 DEF GoesWrong, NoEffect

LEMMA EpisodeSucceed ==
    ASSUME TypeInv, EpisodeInv, Succeed
    PROVE  EpisodeInv'
<1>1. /\ request # "none" /\ Effect /\ UNCHANGED unheard
      /\ Current \in Key /\ episode[Current] = "due"
  BY CurrentIsLeast DEF Succeed, TypeInv
<1>2. CASE request = "pull"
  <2>1. /\ opened' = [opened EXCEPT ![Current] = opened[Current] + 1]
        /\ episode' = [episode EXCEPT ![Current] = "reported"]
    BY <1>1, <1>2, EffectOpens DEF Succeed, Return, Answered
  <2> SUFFICES ASSUME NEW k \in Key
               PROVE  /\ k \notin Unrenderable /\ episode'[k] = "reported" => opened'[k] > 0
                      /\ opened'[k] <= unheard[k] + 1
                      /\ episode'[k] # "reported" => opened'[k] <= unheard[k]
    BY <1>1 DEF EpisodeInv, EpisodeHasPullRequest
  <2>2. opened[k] \in Nat /\ unheard[k] \in Nat
    BY DEF TypeInv, HubInv, RestInv
  <2>3. /\ opened'[k] = (IF k = Current THEN opened[k] + 1 ELSE opened[k])
        /\ episode'[k] = (IF k = Current THEN "reported" ELSE episode[k])
    BY <2>1 DEF TypeInv, HubInv, HandlerInv
  <2> QED
    BY <1>1, <2>2, <2>3 DEF EpisodeInv, EpisodeHasPullRequest
<1>3. CASE request # "pull"
  BY <1>1, <1>3, EffectOpens, EpisodeStutter DEF Succeed
<1> QED
  BY <1>2, <1>3

LEMMA EpisodeSkip ==
    ASSUME TypeInv, EpisodeInv, NEW k \in Key, SkipPullRequest(k)
    PROVE  EpisodeInv'
<1>1. /\ k \in Unrenderable /\ UNCHANGED <<opened, unheard>>
      /\ episode' = [episode EXCEPT ![k] = "reported"]
  BY DEF SkipPullRequest, Answered
<1>2. \A j \in Key : episode'[j] = (IF j = k THEN "reported" ELSE episode[j])
  BY <1>1 DEF TypeInv, HandlerInv
<1> QED
  BY <1>1, <1>2 DEF EpisodeInv, EpisodeHasPullRequest

LEMMA EpisodeStep == TypeInv /\ EpisodeInv /\ [Next]_vars => EpisodeInv'
<1> SUFFICES ASSUME TypeInv, EpisodeInv, [Next]_vars PROVE EpisodeInv'
  OBVIOUS
<1>1. ASSUME NEW k \in Key, BeginOpen(k) PROVE EpisodeInv'
  BY <1>1, EpisodeStutter DEF BeginOpen
<1>2. CASE Reject
  BY <1>2, EpisodeStutter DEF Reject, Return, Answered
<1>3. CASE FailTransiently
  <2>1. GoesWrong /\ UNCHANGED episode
    BY <1>3 DEF FailTransiently, Return, Answered
  <2> QED
    BY <2>1, EpisodeGoesWrong
<1>4. CASE FailForGood
  BY <1>4, EpisodeGoesWrong DEF FailForGood, Return, Answered
<1>5. ASSUME NEW pr \in pulls, Merge(pr) PROVE EpisodeInv'
  BY <1>5, EpisodeStutter DEF Merge
<1>6. CASE UNCHANGED vars
  BY <1>6, EpisodeStutter DEF vars
<1> QED
  BY <1>1, <1>2, <1>3, <1>4, <1>5, <1>6, EpisodeTick, EpisodeSkip, EpisodeSucceed
     DEF Next, Handle, Answer

-----------------------------------------------------------------------------
(* Why an Open fails                                                         *)

LEMMA CauseInit == Init => CauseInv
BY DEF Init, CauseInv

LEMMA CauseIdle ==
    ASSUME request' \notin {"put", "pull"}
    PROVE  CauseInv'
BY DEF CauseInv

\* A request that went wrong is remembered for the rest of the Open.
LEMMA CauseTrouble ==
    ASSUME RestInv, GoesWrong, trouble' = [trouble EXCEPT !.transient = @ + 1]
    PROVE  CauseInv'
BY TroubleTypes DEF CauseInv

LEMMA CauseSucceed ==
    ASSUME TypeInv, ChangeInv, CauseInv, Succeed
    PROVE  CauseInv'
<1>1. request # "none" /\ Accepts /\ Effect /\ UNCHANGED trouble
  BY DEF Succeed
<1>2. CASE request = "look"
  <2>1. /\ request' = "put" /\ sha' = Found /\ UNCHANGED <<branch, queue, heads>>
    BY <1>1, <1>2 DEF Succeed, Following, Effect, github
  <2>2. Current' = Current
    BY <2>1, SameCurrent
  <2> QED
    BY <2>1, <2>2 DEF CauseInv, Found
<1>3. CASE request = "put"
  <2>1. /\ request' = "pull" /\ UNCHANGED <<branch, pulls>>
        /\ heads' = [heads EXCEPT ![branch].files[PathOf[Current]] = Current,
                                  ![branch].ahead = TRUE]
    BY <1>1, <1>3 DEF Succeed, Following, Effect
  <2>2. branch \in DOMAIN heads /\ heads[branch] \in Head
    BY <1>3 DEF TypeInv, Created, HubInv
  <2>3. heads'[branch].ahead
    BY <2>1, <2>2 DEF Head
  <2>4. \A pr \in pulls : pr.head # branch
    BY <1>3 DEF ChangeInv
  <2> QED
    BY <2>1, <2>3, <2>4 DEF CauseInv
<1>4. CASE request \notin {"look", "put"}
  <2>1. request \in {"default", "base", "branch", "pull"}
    BY <1>1, <1>4 DEF TypeInv, HandlerInv, Requests
  <2>2. CASE request = "pull"
    BY <2>2, CauseIdle DEF Succeed, Return
  <2>3. CASE request # "pull"
    <3>1. request' = Following[request]
      BY <2>3 DEF Succeed
    <3> QED
      BY <2>1, <2>3, <3>1, FollowingIs, CauseIdle
  <2> QED
    BY <2>2, <2>3
<1> QED
  BY <1>2, <1>3, <1>4

LEMMA CauseStep == TypeInv /\ ChangeInv /\ CauseInv /\ [Next]_vars => CauseInv'
<1> SUFFICES ASSUME TypeInv, ChangeInv, CauseInv, [Next]_vars PROVE CauseInv'
  OBVIOUS
<1>1. ASSUME NEW breaching \in SUBSET Key, Tick(breaching) PROVE CauseInv'
  <2>1. request' = "none"
    BY <1>1 DEF Tick, openVars, TypeInv, HandlerInv, Least
  <2> QED
    BY <2>1, CauseIdle
<1>2. ASSUME NEW k \in Key, SkipPullRequest(k) PROVE CauseInv'
  BY <1>2, CauseIdle DEF SkipPullRequest, openVars
<1>3. ASSUME NEW k \in Key, BeginOpen(k) PROVE CauseInv'
  BY <1>3, CauseIdle DEF BeginOpen
<1>4. CASE Reject
  BY <1>4, CauseIdle DEF Reject, Return
<1>5. CASE FailTransiently
  BY <1>5, CauseTrouble DEF FailTransiently, TypeInv
<1>6. CASE FailForGood
  BY <1>6, CauseIdle DEF FailForGood, Return
<1>7. ASSUME NEW pr \in pulls, Merge(pr) PROVE CauseInv'
  <2>1. /\ UNCHANGED <<request, branch, sha, queue, heads, trouble>>
        /\ \A q \in pulls' : \E o \in pulls : q.head = o.head /\ q.key = o.key
    BY <1>7, MergeShape DEF openVars
  <2>2. Current' = Current
    BY <2>1, SameCurrent
  <2> QED
    BY <2>1, <2>2 DEF CauseInv
<1>8. CASE UNCHANGED vars
  <2>1. UNCHANGED <<request, branch, sha, queue, heads, pulls, trouble>>
    BY <1>8 DEF vars, openVars, github
  <2> QED
    BY <2>1, SameCurrent DEF CauseInv
<1> QED
  BY <1>1, <1>2, <1>3, <1>4, <1>5, <1>6, <1>7, <1>8, CauseSucceed DEF Next, Handle, Answer

HasCause == OpenFails => trouble'.transient > 0 \/ trouble'.fatal \/ trouble'.taken

LEMMA CauseFound == TypeInv /\ CauseInv /\ [Next]_vars => HasCause
<1> SUFFICES ASSUME TypeInv, CauseInv, [Next]_vars, OpenFails
             PROVE  trouble'.transient > 0 \/ trouble'.fatal \/ trouble'.taken
  BY DEF HasCause
<1>0. request # "none" /\ request' = "none" /\ episode' = episode
  BY DEF OpenFails
<1>1. ASSUME NEW breaching \in SUBSET Key, Tick(breaching) PROVE FALSE
  BY <1>0, <1>1 DEF Tick, openVars
<1>2. ASSUME NEW k \in Key, SkipPullRequest(k) \/ BeginOpen(k) PROVE FALSE
  BY <1>0, <1>2 DEF SkipPullRequest, BeginOpen
<1>3. CASE Succeed
  <2>1. request = "pull"
    <3> SUFFICES ASSUME request # "pull" PROVE FALSE
      OBVIOUS
    <3>1. request \in {"default", "base", "branch", "look", "put"}
      BY <1>0 DEF TypeInv, HandlerInv, Requests
    <3>2. request' = Following[request]
      BY <1>3 DEF Succeed
    <3> QED
      BY <1>0, <3>1, <3>2, FollowingIs
  <2>2. episode' = [episode EXCEPT ![Current] = "reported"]
    BY <1>3, <2>1 DEF Succeed, Return, Answered
  <2> QED
    BY <1>0, <2>2, CurrentIsLeast DEF TypeInv, HandlerInv
<1>4. CASE Reject
  <2>1. request \in {"branch", "put", "pull"} /\ ~Accepts
    BY <1>4 DEF Reject, Accepts
  <2>2. /\ trouble' = (IF request = "branch" /\ trouble.transient = 0
                       THEN [trouble EXCEPT !.taken = TRUE] ELSE trouble)
        /\ trouble.transient \in Nat
    BY <1>4, TroubleTypes DEF Reject, TypeInv
  <2>3. CASE trouble.transient = 0
    <3>1. request = "branch"
      BY <2>1, <2>3 DEF Accepts, CauseInv
    <3> QED
      BY <2>2, <2>3, <3>1, TroubleTypes DEF TypeInv
  <2>4. CASE trouble.transient # 0
    BY <2>2, <2>4
  <2> QED
    BY <2>3, <2>4
<1>5. CASE FailTransiently
  BY <1>5, TroubleTypes DEF FailTransiently, TypeInv
<1>6. CASE FailForGood
  BY <1>6, TroubleTypes DEF FailForGood, TypeInv
<1>7. ASSUME NEW pr \in pulls, Merge(pr) PROVE FALSE
  BY <1>0, <1>7 DEF Merge, openVars
<1>8. CASE UNCHANGED vars
  BY <1>0, <1>8 DEF vars, openVars
<1> QED
  BY <1>1, <1>2, <1>3, <1>4, <1>5, <1>6, <1>7, <1>8 DEF Next, Handle, Answer

-----------------------------------------------------------------------------
(* Open keeps its promise                                                    *)

LEMMA BookedIs ==
    ASSUME NEW pr
    PROVE  /\ Booked(pr).head = pr.head /\ Booked(pr).key = pr.key
           /\ Booked(pr).merged = pr.merged
           /\ Booked(pr).base = heads[pr.head].base
           /\ Booked(pr).files = heads[pr.head].files
BY DEF Booked

\* The book is as it was when the branches of the pull requests in it are.
LEMMA BookStands ==
    ASSUME UNCHANGED pulls, \A pr \in pulls : heads'[pr.head] = heads[pr.head]
    PROVE  UNCHANGED Book
<1>1. \A pr \in pulls : Booked(pr)' = Booked(pr)
  BY DEF Booked
<1> QED
  BY <1>1 DEF Book

\* A branch that holds its incident's patch, and no other change, is its base with the
\* incident's file put in.
LEMMA OneFilePut ==
    ASSUME NEW base \in Files, NEW files \in Files, NEW k \in Key,
           files[PathOf[k]] = k, {p \in Path : files[p] # base[p]} \subseteq {PathOf[k]}
    PROVE  files = [base EXCEPT ![PathOf[k]] = k]
<1>1. PathOf[k] \in Path
  BY KeyTypes
<1>2. \A p \in Path : files[p] = IF p = PathOf[k] THEN k ELSE base[p]
  OBVIOUS
<1> QED
  BY <1>1, <1>2 DEF Files

\* Only the request for a pull request adds to the book, and what it adds is the
\* proposal asked for.
LEMMA EffectBooks ==
    ASSUME TypeInv, ChangeInv, request # "none", Accepts, Effect
    PROVE  /\ request # "pull" => UNCHANGED Book
           /\ request = "pull" =>
                /\ ~Given
                /\ \E pr \in pulls' : pr.head = branch
                /\ \E pr \in Book' : /\ Promise!Proposal(pr, Current)
                                     /\ Book' = Book \cup {pr}
<1>0. Current \in Key
  BY CurrentIsLeast DEF TypeInv
<1>1. CASE request = "branch"
  <2>1. UNCHANGED pulls /\ branch \notin DOMAIN heads
    BY <1>1 DEF Effect, Accepts
  <2>2. \A b \in DOMAIN heads : heads'[b] = heads[b]
    BY <1>1, <2>1 DEF Effect
  <2> QED
    BY <1>1, <2>1, <2>2, BookStands DEF TypeInv, HubInv
<1>2. CASE request = "put"
  <2>1. UNCHANGED pulls /\ \A b \in DOMAIN heads \ {branch} : heads'[b] = heads[b]
    BY <1>2 DEF Effect
  <2>2. \A pr \in pulls : pr.head # branch /\ pr.head \in DOMAIN heads
    BY <1>2 DEF ChangeInv, TypeInv, HubInv
  <2> QED
    BY <1>2, <2>1, <2>2, BookStands
<1>3. CASE request = "pull"
  <2> DEFINE own == [head |-> branch, key |-> Current, merged |-> FALSE]
  <2>1. pulls' = pulls \cup {own} /\ UNCHANGED heads
    BY <1>3 DEF Effect
  <2>2. \A pr \in pulls : pr.head # branch
    BY <1>3 DEF Accepts
  <2>3. own.head = branch /\ own.key = Current /\ own.merged = FALSE
    OBVIOUS
  <2> HIDE DEF own
  <2>4. /\ Booked(own).head = branch /\ Booked(own).key = Current /\ ~Booked(own).merged
        /\ Booked(own).base = heads[branch].base /\ Booked(own).files = heads[branch].files
    BY <2>3, BookedIs
  <2>5. Book' = Book \cup {Booked(own)}
    <3>1. \A pr : Booked(pr)' = Booked(pr)
      BY <2>1 DEF Booked
    <3>2. Book' = {Booked(pr) : pr \in pulls'}
      BY <3>1 DEF Book
    <3> QED
      BY <2>1, <3>2 DEF Book
  <2>6. heads[branch] \in Head
    BY <1>3 DEF TypeInv, Created, HubInv
  <2>7. Booked(own).files = [Booked(own).base EXCEPT ![PathOf[Current]] = Current]
    <3>1. /\ heads[branch].files[PathOf[Current]] = Current
          /\ Changed(branch) \subseteq {PathOf[Current]}
      BY <1>3 DEF ChangeInv
    <3>2. heads[branch].files \in Files /\ heads[branch].base \in Files
      BY <2>6 DEF Head
    <3>3. heads[branch].files = [heads[branch].base EXCEPT ![PathOf[Current]] = Current]
      BY <1>0, <3>1, <3>2, OneFilePut DEF Changed
    <3> QED
      BY <2>4, <3>3
  <2>8. \A other \in Book : other.head # Booked(own).head
    <3>1. \A pr \in pulls : Booked(pr).head # branch
      BY <2>2, BookedIs
    <3> QED
      BY <2>4, <3>1 DEF Book
  <2>9. Promise!Proposal(Booked(own), Current)
    BY <2>4, <2>7, <2>8 DEF Promise!Proposal
  <2>10. ~Given
    BY <2>2 DEF Given
  <2> QED
    BY <1>3, <2>1, <2>3, <2>5, <2>9, <2>10
<1>4. CASE request \notin {"branch", "put", "pull"}
  <2>1. UNCHANGED <<heads, pulls>>
    BY <1>4 DEF Effect, github
  <2> QED
    BY <1>4, <2>1, BookStands
<1> QED
  BY <1>1, <1>2, <1>3, <1>4

\* What the handler's return means to the detector.
LEMMA ReturnTakes ==
    ASSUME TypeInv, request # "none", NEW taken \in BOOLEAN, Return(taken)
    PROVE  /\ Asked = {Current} /\ Asked' = {} /\ ~Given'
           /\ Taken' = IF taken THEN Taken \cup {Current} ELSE Taken
<1>1. Current \in Key
  BY CurrentIsLeast DEF TypeInv
<1>2. request' = "none"
  BY DEF Return
<1>3. episode' = IF taken THEN [episode EXCEPT ![Current] = "reported"] ELSE episode
  BY DEF Return, Answered
<1>4. \A k \in Key : episode'[k] = IF taken /\ k = Current THEN "reported" ELSE episode[k]
  BY <1>3 DEF TypeInv, HandlerInv
<1>5. Taken' = IF taken THEN Taken \cup {Current} ELSE Taken
  BY <1>1, <1>4 DEF Taken
<1> QED
  BY <1>2, <1>5 DEF Asked, Given

\* A request that went wrong and ends the call: the pull request was opened or not.
LEMMA WrongEnds ==
    ASSUME TypeInv, ChangeInv, GoesWrong, Return(FALSE)
    PROVE  Promise!Move
<1>1. request # "none" /\ Current \in Key
  BY CurrentIsLeast DEF GoesWrong, TypeInv
<1>2. Asked = {Current} /\ Asked' = {} /\ ~Given' /\ Taken' = Taken
  BY <1>1, ReturnTakes
<1>3. CASE Accepts /\ Effect /\ request = "pull"
  <2>1. Promise!Open(Current)
    BY <1>1, <1>2, <1>3, EffectBooks DEF Promise!Open
  <2> QED
    BY <1>1, <2>1 DEF Promise!Move
<1>4. CASE NoEffect \/ (Accepts /\ Effect /\ request # "pull")
  <2>1. NoEffect => UNCHANGED Book
    BY BookStands DEF NoEffect, github
  <2>2. UNCHANGED Book
    BY <1>1, <1>4, <2>1, EffectBooks
  <2>3. Promise!Fail
    BY <1>2, <2>2 DEF Promise!Fail
  <2> QED
    BY <2>3 DEF Promise!Move
<1> QED
  BY <1>3, <1>4 DEF GoesWrong

\* A request that went wrong and is tried again: likewise, and the call goes on.
LEMMA WrongGoesOn ==
    ASSUME TypeInv, ChangeInv, GoesWrong, UNCHANGED <<request, branch, episode, queue>>
    PROVE  Promise!Move \/ UNCHANGED Promise!promiseVars
<1>1. request # "none" /\ Current \in Key
  BY CurrentIsLeast DEF GoesWrong, TypeInv
<1>2. UNCHANGED <<Asked, Taken>> /\ Asked = {Current}
  BY <1>1, SameCurrent DEF Asked, Taken
<1>3. CASE Accepts /\ Effect /\ request = "pull"
  <2>1. Given'
    BY <1>1, <1>3, EffectBooks DEF Given
  <2>2. Promise!Open(Current)
    BY <1>1, <1>2, <1>3, <2>1, EffectBooks DEF Promise!Open
  <2> QED
    BY <1>1, <2>2 DEF Promise!Move
<1>4. CASE NoEffect
  <2>1. UNCHANGED Book
    BY <1>4, BookStands DEF NoEffect, github
  <2>2. UNCHANGED Given
    BY <1>4 DEF NoEffect, github, Given
  <2> QED
    BY <1>2, <2>1, <2>2 DEF Promise!promiseVars
<1>5. CASE Accepts /\ Effect /\ request # "pull"
  <2>1. UNCHANGED Book
    BY <1>1, <1>5, EffectBooks
  <2>2. UNCHANGED Given
    BY <1>5 DEF Given
  <2> QED
    BY <1>2, <2>1, <2>2 DEF Promise!promiseVars
<1> QED
  BY <1>3, <1>4, <1>5 DEF GoesWrong

LEMMA PromiseSucceed ==
    ASSUME TypeInv, ChangeInv, Succeed
    PROVE  Promise!Move \/ UNCHANGED Promise!promiseVars
<1>1. request # "none" /\ Accepts /\ Effect /\ Current \in Key
  BY CurrentIsLeast DEF Succeed, TypeInv
<1>2. CASE request = "pull"
  <2>1. Asked = {Current} /\ Asked' = {} /\ ~Given' /\ Taken' = Taken \cup {Current}
    BY <1>1, <1>2, ReturnTakes DEF Succeed
  <2>2. Promise!Open(Current)
    BY <1>1, <1>2, <2>1, EffectBooks DEF Promise!Open
  <2> QED
    BY <1>1, <2>2 DEF Promise!Move
<1>3. CASE request # "pull"
  <2>1. request' = Following[request] /\ UNCHANGED <<branch, episode, queue>>
    BY <1>3 DEF Succeed
  <2>2. request \in {"default", "base", "branch", "look", "put"}
    BY <1>1, <1>3 DEF TypeInv, HandlerInv, Requests
  <2>3. request' # "none" /\ (request' = "pull" => request = "put")
    BY <2>1, <2>2, FollowingIs
  <2>4. UNCHANGED <<Asked, Taken>>
    BY <1>1, <2>1, <2>3, SameCurrent DEF Asked, Taken
  <2>5. UNCHANGED Book
    BY <1>1, <1>3, EffectBooks
  <2>6. Given = FALSE /\ Given' = FALSE
    <3>1. request' = "pull" => \A pr \in pulls' : pr.head # branch'
      BY <1>1, <2>1, <2>3, EffectChange
    <3> QED
      BY <1>3, <3>1 DEF Given
  <2> QED
    BY <2>4, <2>5, <2>6 DEF Promise!promiseVars
<1> QED
  BY <1>2, <1>3

LEMMA PromiseReject ==
    ASSUME TypeInv, Reject
    PROVE  Promise!Move
<1>1. request # "none" /\ Return(FALSE) /\ UNCHANGED <<heads, pulls>>
  BY DEF Reject, github
<1>2. Asked = {Current} /\ Asked' = {} /\ ~Given' /\ Taken' = Taken
  BY <1>1, ReturnTakes
<1>3. UNCHANGED Book
  BY <1>1, BookStands
<1>4. Promise!Fail
  BY <1>2, <1>3 DEF Promise!Fail
<1> QED
  BY <1>4 DEF Promise!Move

\* Between two calls: nothing is asked, nothing given.
LEMMA NobodyAsks ==
    ASSUME request = "none"
    PROVE  Asked = {} /\ Given = FALSE
BY DEF Asked, Given

LEMMA PromiseTick ==
    ASSUME TypeInv, NEW breaching \in SUBSET Key, Tick(breaching)
    PROVE  Promise!Move
<1>1. request = "none"
  BY DEF Tick, TypeInv, HandlerInv, Least
<1>2. UNCHANGED <<request, branch, heads, pulls>>
  BY DEF Tick, openVars, github
<1>3. Asked = {} /\ UNCHANGED <<Asked, Given>>
  BY <1>1, <1>2, NobodyAsks DEF Asked, Given
<1>4. UNCHANGED Book
  BY <1>2, BookStands
<1>5. Taken' \subseteq Taken
  <2>1. \A k \in Key : episode'[k] = "reported" => episode[k] = "reported"
    BY DEF Tick
  <2> QED
    BY <2>1 DEF Taken
<1>6. Promise!Clear
  BY <1>3, <1>4, <1>5 DEF Promise!Clear
<1> QED
  BY <1>6 DEF Promise!Move

LEMMA PromiseSkip ==
    ASSUME TypeInv, NEW k \in Key, SkipPullRequest(k)
    PROVE  Promise!Move
<1>1. /\ request = "none" /\ k \in Unrenderable
      /\ episode' = [episode EXCEPT ![k] = "reported"]
      /\ UNCHANGED <<request, branch, heads, pulls>>
  BY DEF SkipPullRequest, Answered, openVars, github
<1>2. Asked = {} /\ UNCHANGED <<Asked, Given>>
  BY <1>1, NobodyAsks DEF Asked, Given
<1>3. UNCHANGED Book
  BY <1>1, BookStands
<1>4. \A j \in Key : episode'[j] = IF j = k THEN "reported" ELSE episode[j]
  BY <1>1 DEF TypeInv, HandlerInv
<1>5. Taken' = Taken \cup {k}
  BY <1>4 DEF Taken
<1>6. Promise!PassOver(k)
  BY <1>1, <1>2, <1>3, <1>5 DEF Promise!PassOver
<1> QED
  BY <1>6 DEF Promise!Move

LEMMA PromiseBegin ==
    ASSUME TypeInv, NEW k \in Key, BeginOpen(k)
    PROVE  Promise!Move
<1>1. /\ request = "none" /\ request' \in {"base", "default"} /\ k \notin Unrenderable
      /\ Least(k, queue) /\ UNCHANGED <<episode, queue, heads, pulls>>
  BY DEF BeginOpen, github
<1>2. Current = k
  <2>1. Current \in Key /\ Least(Current, queue)
    BY <1>1 DEF Current
  <2>2. Current <= k /\ k <= Current /\ Current \in Nat /\ k \in Nat
    BY <1>1, <2>1, KeyTypes DEF Least
  <2> QED
    BY <2>2
<1>3. Asked = {} /\ Asked' = {k}
  BY <1>1, <1>2, SameCurrent, NobodyAsks DEF Asked
<1>4. Given = FALSE /\ Given' = FALSE
  BY <1>1 DEF Given
<1>5. UNCHANGED <<Taken, Book>>
  BY <1>1, BookStands DEF Taken
<1>6. Promise!Ask(k)
  BY <1>1, <1>3, <1>4, <1>5 DEF Promise!Ask
<1> QED
  BY <1>6 DEF Promise!Move

LEMMA PromiseMerge ==
    ASSUME TypeInv, NEW pr \in pulls, Merge(pr)
    PROVE  Promise!Move
<1> DEFINE done == [pr EXCEPT !.merged = TRUE]
<1>1. /\ UNCHANGED <<request, branch, queue, episode, heads>>
      /\ pulls' = (pulls \ {pr}) \cup {done} /\ ~pr.merged
  BY DEF Merge, openVars
<1>2. pr \in Pull /\ done.head = pr.head /\ done.key = pr.key /\ done.merged = TRUE
  BY DEF TypeInv, HubInv, Pull
<1> HIDE DEF done
<1>3. Booked(done) = [Booked(pr) EXCEPT !.merged = TRUE]
  <2> DEFINE base == heads[pr.head].base
             files == heads[pr.head].files
             yes == TRUE
             before == [head |-> pr.head, key |-> pr.key, merged |-> pr.merged,
                        base |-> base, files |-> files]
             after == [head |-> pr.head, key |-> pr.key, merged |-> yes,
                       base |-> base, files |-> files]
  <2>1. [before EXCEPT !.merged = yes] = after
    <3> HIDE DEF yes, base, files
    <3> QED
      OBVIOUS
  <2>2. Booked(pr) = before /\ Booked(done) = after
    BY <1>2, Zenon DEF Booked
  <2> QED
    BY <2>1, <2>2, Zenon
<1>4. \A q \in pulls : Booked(q) = Booked(pr) => q = pr
  <2>1. \A q \in pulls : q \in Pull
    BY DEF TypeInv, HubInv
  <2> QED
    BY <1>2, <2>1, BookedIs DEF Pull
<1>5. Book' = (Book \ {Booked(pr)}) \cup {Booked(done)}
  <2>1. Book' = {Booked(q) : q \in pulls'}
    BY <1>1 DEF Book, Booked
  <2> QED
    BY <1>1, <1>4, <2>1 DEF Book
<1>6. UNCHANGED <<Asked, Given, Taken>>
  <2>1. (\E q \in pulls' : q.head = branch) <=> (\E q \in pulls : q.head = branch)
    BY <1>1, <1>2
  <2> QED
    BY <1>1, <2>1, SameCurrent DEF Asked, Given, Taken
<1>7. Booked(pr) \in Book /\ ~Booked(pr).merged
  BY <1>1, BookedIs DEF Book
<1>8. Promise!Merge(Booked(pr))
  BY <1>3, <1>5, <1>6, <1>7 DEF Promise!Merge
<1> QED
  BY <1>7, <1>8 DEF Promise!Move

LEMMA PromiseStep ==
    TypeInv /\ ChangeInv /\ [Next]_vars => [Promise!Move]_(Promise!promiseVars)
<1> SUFFICES ASSUME TypeInv, ChangeInv, [Next]_vars
             PROVE  [Promise!Move]_(Promise!promiseVars)
  OBVIOUS
<1>1. CASE FailTransiently
  <2>1. CASE attempt + 1 < MaxAttempts
    BY <1>1, <2>1, WrongGoesOn DEF FailTransiently
  <2>2. CASE ~(attempt + 1 < MaxAttempts)
    BY <1>1, <2>2, WrongEnds DEF FailTransiently
  <2> QED
    BY <2>1, <2>2
<1>2. CASE FailForGood
  BY <1>2, WrongEnds DEF FailForGood
<1>3. CASE UNCHANGED vars
  <2>1. UNCHANGED <<request, branch, queue, episode, heads, pulls>>
    BY <1>3 DEF vars, openVars, github
  <2>2. UNCHANGED <<Asked, Given, Taken>>
    BY <2>1, SameCurrent DEF Asked, Given, Taken
  <2>3. UNCHANGED Book
    BY <2>1, BookStands
  <2> QED
    BY <2>2, <2>3 DEF Promise!promiseVars
<1> QED
  BY <1>1, <1>2, <1>3, PromiseTick, PromiseSkip, PromiseBegin, PromiseSucceed, PromiseReject,
     PromiseMerge DEF Next, Handle, Answer

-----------------------------------------------------------------------------
(* The theorems                                                              *)

LEMMA TypeInvariant == Spec => []TypeInv
<1>1. Init => TypeInv
  BY TypeInit
<1>2. TypeInv /\ [Next]_vars => TypeInv'
  BY TypeStep
<1> QED
  BY <1>1, <1>2, PTL DEF Spec

LEMMA ChangeInvariant == Spec => []ChangeInv
<1>1. Init => ChangeInv
  BY ChangeInit
<1>2. TypeInv /\ ChangeInv /\ [Next]_vars => ChangeInv'
  BY ChangeStep
<1> QED
  BY <1>1, <1>2, TypeInvariant, PTL DEF Spec

LEMMA CauseInvariant == Spec => []CauseInv
<1>1. Init => CauseInv
  BY CauseInit
<1>2. TypeInv /\ ChangeInv /\ CauseInv /\ [Next]_vars => CauseInv'
  BY CauseStep
<1> QED
  BY <1>1, <1>2, TypeInvariant, ChangeInvariant, PTL DEF Spec

\* The state of the handler and of Open is well typed; in particular a request
\* is never tried more than three times (client.go:167-218), and every pull
\* request has its branch.
THEOREM TypeCorrect == Spec => []TypeOK
<1>1. TypeInv => TypeOK
  BY DEF TypeInv, HubInv, HandlerInv, RestInv, TypeOK, Pull, Head
<1> QED
  BY <1>1, TypeInvariant, PTL

\* A pull request proposes its incident's change and nothing else
\* (client.go:59-133), however many targets breach in the same second, whatever
\* fails in between, and in whatever order pull requests are merged.
THEOREM ProposesOneChange == Spec => [](\A pr \in pulls : Proposes(pr))
<1>1. ChangeInv => \A pr \in pulls : Proposes(pr)
  BY DEF ChangeInv
<1> QED
  BY <1>1, ChangeInvariant, PTL

\* The handler and Open keep OpenPromise (main.go:305-341, client.go:59-133): requests,
\* retries and lost answers are invisible but for the one step that opens a pull request,
\* a call has at most one such step, nothing is written to a branch after it, and what the
\* handler answers is decided in it.
THEOREM Refinement == Spec => OpensAsPromised
<1>1. Init => Promise!Begin
  BY DEF Init, Asked, Given, Taken, Book, Promise!Begin
<1> QED
  BY <1>1, PromiseStep, TypeInvariant, ChangeInvariant, PTL
  DEF Spec, OpensAsPromised, Promise!PromiseSpec

\* The handler takes a renderable incident only once something was opened for
\* it, and opens a second pull request in an episode only if the first one's
\* creation was never confirmed to it (main.go:310-340).
THEOREM OnePullRequestPerEpisode == Spec => []EpisodeHasPullRequest
<1>1. Init => EpisodeInv
  BY EpisodeInit
<1>2. TypeInv /\ EpisodeInv /\ [Next]_vars => EpisodeInv'
  BY EpisodeStep
<1>3. EpisodeInv => EpisodeHasPullRequest
  BY DEF EpisodeInv
<1> QED
  BY <1>1, <1>2, <1>3, TypeInvariant, PTL DEF Spec

\* Open returns an error only when a request of it went wrong or its branch
\* was taken by an Open of the same second (client.go:59-133, 92-103): the
\* order of its requests never makes one of them unacceptable.
THEOREM NoFailureWithoutCause == Spec => FailureHasCause
<1>1. TypeInv /\ CauseInv /\ [Next]_vars => [HasCause]_vars
  BY CauseFound
<1>2. Spec => [][HasCause]_vars
  BY <1>1, TypeInvariant, CauseInvariant, PTL DEF Spec
<1> QED
  BY <1>2 DEF FailureHasCause, HasCause

=============================================================================
