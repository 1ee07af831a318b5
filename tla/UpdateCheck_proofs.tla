-------------------------- MODULE UpdateCheck_proofs --------------------------
(***************************************************************************)
(* Proofs about UpdateCheck for every number of releases and of answers,   *)
(* every reading of their versions and every set of faults.                *)
(***************************************************************************)
EXTENDS UpdateCheck, TLAPS

-----------------------------------------------------------------------------
(* Types: what the helpers of the steps return and do.                     *)

CopiesTypeOK ==
    /\ for \in [Threads -> Purposes]
    /\ local \in [Threads -> Tags0]
    /\ myCfg \in [Threads -> Configs]
    /\ mySt \in [Threads -> States]
    /\ res \in [Threads -> Results]

\* A goroutine that notifies, or has just notified, has something to tell, and an
\* update has a tag.
TellsSomething ==
    \A t \in Threads :
      /\ pc[t] \in {"notify", "mark"} => res[t].tell # "nothing"
      /\ res[t].tell = "update" => res[t].tag # 0

LEMMA EmptyTypes ==
    /\ NoState \in States /\ NoConfig \in Configs /\ NoResult \in Results
    /\ 0 \in Tags0 /\ Tags \subseteq Tags0
  BY BoundsAssumption
  DEF NoState, NoConfig, NoResult, States, Configs, Results, Tags0, Tags, Tellings

LEMMA SkipType ==
    ASSUME NEW c \in Configs, NEW v \in Tags0
    PROVE  [c EXCEPT !.skip = v] \in Configs
  BY DEF Configs

LEMMA SnoozeType ==
    ASSUME NEW c \in Configs, NEW b \in BOOLEAN
    PROVE  [c EXCEPT !.snoozed = b] \in Configs
  BY DEF Configs

LEMMA NotFoundType ==
    ASSUME NEW s \in States, NEW b \in BOOLEAN
    PROVE  [s EXCEPT !.notFound = b] \in States
  BY DEF States

LEMMA DetectedType ==
    ASSUME TypeOK, NEW c \in Configs
    PROVE  Detected(c) \in Tags0
  BY DEF TypeOK, Detected, Configs

LEMMA FetchedType ==
    ASSUME TypeOK, NEW s \in States
    PROVE  Fetched(s) \in States
  <1>1. ghTag \in Tags0 /\ ghRev \in 0 .. MaxRev /\ SignedArchive \in Tags0
    BY BoundsAssumption DEF TypeOK, SignedArchive, Tags, Tags0
  <1>2. QED
    BY <1>1 DEF Fetched, Latest, States

LEMMA AnswerType ==
    ASSUME NEW v \in Tags0, NEW c \in Configs, NEW s \in States, NEW forced \in BOOLEAN
    PROVE  /\ Answer(v, c, s, forced) \in Results
           /\ Answer(v, c, s, forced).tell = "update" => Answer(v, c, s, forced).tag # 0
  <1>1. /\ Tell(v, c, s, forced) \in Tellings
        /\ Tell(v, c, s, forced) = "update" => s.tag # 0
    BY DEF Tell, Tellings, UpdateAvailable
  <1>2. QED
    BY <1>1 DEF Answer, Results, States

LEMMA FailureType ==
    ASSUME NEW s \in States
    PROVE  Failure(s) \in Results /\ Failure(s).tell # "update"
  BY DEF Failure, Results, States, Tellings

LEMMA MarkedType ==
    ASSUME NEW s \in States, NEW r \in Results
    PROVE  Marked(s, r) \in States
  BY DEF Marked, States, Results

LEMMA GotoType ==
    ASSUME TypeOK, NEW t \in Threads, NEW l \in PCs, Goto(t, l)
    PROVE  pc' \in [Threads -> PCs] /\ pc'[t] = l /\ \A u \in Threads \ {t} : pc'[u] = pc[u]
  BY DEF TypeOK, Goto

LEMMA ReturnType ==
    ASSUME TypeOK, NEW t \in Threads, Return(t)
    PROVE  pc' \in [Threads -> PCs] /\ CopiesTypeOK' /\ TellsSomething'
  <1>1. pc' \in [Threads -> PCs] /\ pc'[t] = "idle" /\ \A u \in Threads \ {t} : pc'[u] = pc[u]
    BY GotoType DEF Return, PCs
  <1>2. CopiesTypeOK'
    BY EmptyTypes DEF Return, TypeOK, CopiesTypeOK, Purposes
  <1>3. res'[t].tell = "nothing" /\ \A u \in Threads \ {t} : res'[u] = res[u]
    BY DEF Return, TypeOK, NoResult
  <1>4. QED
    BY <1>1, <1>2, <1>3 DEF TypeOK, TellsSomething

LEMMA BeginType ==
    ASSUME TypeOK, NEW t \in Threads, NEW why \in Purposes, Begin(t, why),
           UNCHANGED <<cfg, installed>>
    PROVE  pc' \in [Threads -> PCs] /\ CopiesTypeOK' /\ TellsSomething'
  <1>1. pc' \in [Threads -> PCs] /\ pc'[t] = "fetch" /\ \A u \in Threads \ {t} : pc'[u] = pc[u]
    BY GotoType DEF Begin, PCs
  <1>2. Detected(cfg') \in Tags0 /\ cfg' \in Configs
    BY DetectedType DEF TypeOK
  <1>3. CopiesTypeOK'
    BY <1>2, EmptyTypes DEF Begin, TypeOK, CopiesTypeOK
  <1>4. res'[t].tell = "nothing" /\ \A u \in Threads \ {t} : res'[u] = res[u]
    BY DEF Begin, TypeOK, NoResult
  <1>5. QED
    BY <1>1, <1>3, <1>4 DEF TypeOK, TellsSomething

LEMMA SetConfigType ==
    ASSUME TypeOK, NEW c \in Configs, SetConfig(c)
    PROVE  cfg' \in Configs /\ cfgFile' \in Configs
  BY DEF TypeOK, SetConfig

LEMMA SaveStateType ==
    ASSUME TypeOK, NEW t \in Threads, SaveState(t)
    PROVE  stFile' \in States
  BY DEF TypeOK, SaveState

LEMMA TypeInit == Init => TypeOK
  <1> SUFFICES ASSUME Init PROVE TypeOK
    OBVIOUS
  <1>1. PICK v \in Manual : cfgFile = [NoConfig EXCEPT !.current = v]
    BY DEF Init
  <1>2. v \in Tags0
    BY BoundsAssumption DEF Tags0
  <1>3. cfgFile \in Configs /\ cfg = cfgFile
    BY <1>1, <1>2, EmptyTypes DEF Init, Configs
  <1>4. ghTag \in Tags /\ ghRev \in 1 .. MaxRev /\ ghSigned \in BOOLEAN /\ installed \in Tags0
    BY BoundsAssumption DEF Init, Tags, Tags0
  <1>5. CopiesTypeOK /\ TellsSomething /\ pc \in [Threads -> PCs]
    BY EmptyTypes DEF Init, CopiesTypeOK, TellsSomething, NoResult, PCs, Purposes
  <1>6. QED
    BY <1>3, <1>4, <1>5, EmptyTypes DEF Init, TypeOK, CopiesTypeOK, TellsSomething

LEMMA TypeStep == TypeOK /\ [Next]_vars => TypeOK'
  <1> SUFFICES ASSUME TypeOK, [Next]_vars
               PROVE  TypeOK'
    OBVIOUS
  <1> USE DEF github, config, state, user
  <1>1. ASSUME NEW t \in Threads, NEW why \in Purposes, Poll(t, why) PROVE TypeOK'
    BY <1>1, BeginType DEF Poll, TypeOK, CopiesTypeOK, TellsSomething
  <1>2. ASSUME NEW t \in Threads, Fetch(t) PROVE TypeOK'
    <2>1. /\ pc' \in [Threads -> PCs] /\ pc'[t] = "store"
          /\ \A u \in Threads \ {t} : pc'[u] = pc[u]
      BY <1>2, GotoType DEF Fetch, PCs
    <2>2. /\ mySt' \in [Threads -> States]
          /\ \E r \in Results :
               res' = [res EXCEPT ![t] = r] /\ (r.tell = "update" => r.tag # 0)
      <3>1. CASE GetsAnswer(t)
        <4>1. /\ Fetched(mySt[t]) \in States /\ local[t] \in Tags0 /\ myCfg[t] \in Configs
              /\ (for[t] = "click") \in BOOLEAN
          BY FetchedType DEF TypeOK
        <4>2. mySt' \in [Threads -> States]
          BY <3>1, <4>1 DEF GetsAnswer, TypeOK
        <4>3. QED
          BY <3>1, <4>1, <4>2, AnswerType DEF GetsAnswer
      <3>2. CASE res' = [res EXCEPT ![t] = Failure(mySt[t])] /\ UNCHANGED mySt
        BY <3>2, FailureType DEF TypeOK
      <3>3. QED
        BY <1>2, <3>1, <3>2 DEF Fetch
    <2>3. local' \in [Threads -> Tags0] /\ myCfg' \in [Threads -> Configs]
      BY <1>2, EmptyTypes DEF Fetch, TypeOK
    <2>4. res' \in [Threads -> Results] /\ TellsSomething'
      BY <2>1, <2>2 DEF TypeOK, TellsSomething
    <2>5. QED
      BY <1>2, <2>1, <2>2, <2>3, <2>4 DEF Fetch, TypeOK, TellsSomething
  <1>3. ASSUME NEW t \in Threads, Store(t) PROVE TypeOK'
    <2>1. /\ pc' \in [Threads -> PCs] /\ pc'[t] = "save"
          /\ \A u \in Threads \ {t} : pc'[u] = pc[u]
      BY <1>3, GotoType DEF Store, PCs
    <2>2. st' \in States /\ last' \in Results
      BY <1>3 DEF Store, TypeOK
    <2>3. QED
      BY <1>3, <2>1, <2>2 DEF Store, copies, TypeOK
  <1>4. ASSUME NEW t \in Threads, Save(t) PROVE TypeOK'
    <2>1. stFile' \in States
      BY <1>4, SaveStateType DEF Save
    <2>2. CASE Return(t)
      BY <1>4, <2>1, <2>2, ReturnType DEF Save, TypeOK, CopiesTypeOK, TellsSomething
    <2>3. CASE AfterPoll(t) # "idle" /\ Goto(t, AfterPoll(t)) /\ UNCHANGED copies
      <3>1. /\ AfterPoll(t) \in PCs
            /\ AfterPoll(t) \in {"notify", "mark"} => res[t].tell # "nothing"
        BY DEF AfterPoll, PCs
      <3>2. /\ pc' \in [Threads -> PCs] /\ pc'[t] = AfterPoll(t)
            /\ \A u \in Threads \ {t} : pc'[u] = pc[u]
        BY <2>3, <3>1, GotoType
      <3>3. QED
        BY <1>4, <2>1, <2>3, <3>1, <3>2 DEF Save, copies, TypeOK
    <2>4. QED
      BY <1>4, <2>2, <2>3 DEF Save
  <1>5. ASSUME NEW t \in Threads, Toast(t) PROVE TypeOK'
    <2>1. CASE IsShown(t)
      <3>1. /\ pc' \in [Threads -> PCs] /\ pc'[t] = "mark"
            /\ \A u \in Threads \ {t} : pc'[u] = pc[u]
        BY <2>1, GotoType DEF IsShown, PCs
      <3>2. res[t].tell = "update" => res[t].tag \in Tags
        BY BoundsAssumption DEF TypeOK, Results, Tags, Tags0
      <3>3. told' \subseteq Tags /\ toldAgain' \subseteq told'
        BY <2>1, <3>2 DEF IsShown, TypeOK
      <3>4. res[t].tell # "nothing"
        BY <1>5 DEF Toast, TypeOK
      <3>5. QED
        BY <1>5, <2>1, <3>1, <3>3, <3>4 DEF Toast, IsShown, copies, TypeOK
    <2>2. CASE Return(t) /\ UNCHANGED user
      BY <1>5, <2>2, ReturnType DEF Toast, TypeOK, CopiesTypeOK, TellsSomething
    <2>3. QED
      BY <1>5, <2>1, <2>2 DEF Toast
  <1>6. ASSUME NEW t \in Threads, Mark(t) PROVE TypeOK'
    <2>1. /\ pc' \in [Threads -> PCs] /\ pc'[t] = "saveMark"
          /\ \A u \in Threads \ {t} : pc'[u] = pc[u]
      BY <1>6, GotoType DEF Mark, PCs
    <2>2. st' \in States
      BY <1>6, MarkedType DEF Mark, TypeOK
    <2>3. mySt' \in [Threads -> States]
      BY <1>6, <2>2 DEF Mark, TypeOK
    <2>4. QED
      BY <1>6, <2>1, <2>2, <2>3 DEF Mark, TypeOK
  <1>7. ASSUME NEW t \in Threads, SaveMark(t) PROVE TypeOK'
    <2>1. stFile' \in States
      BY <1>7, SaveStateType DEF SaveMark
    <2>2. QED
      BY <1>7, <2>1, ReturnType DEF SaveMark, TypeOK, CopiesTypeOK, TellsSomething
  <1>8. ASSUME NEW t \in Threads, Apply(t) PROVE TypeOK'
    <2>1. CASE /\ last.asset # 0 /\ installed' = last.asset
               /\ SetConfig(cfg) /\ Goto(t, "installed") /\ UNCHANGED copies
      <3>1. /\ pc' \in [Threads -> PCs] /\ pc'[t] = "installed"
            /\ \A u \in Threads \ {t} : pc'[u] = pc[u]
        BY <2>1, GotoType DEF PCs
      <3>2. installed' \in Tags0 /\ cfg' \in Configs /\ cfgFile' \in Configs
        BY <2>1, SetConfigType DEF TypeOK, Results
      <3>3. QED
        BY <1>8, <2>1, <3>1, <3>2 DEF Apply, copies, TypeOK
    <2>2. CASE Return(t) /\ UNCHANGED <<installed, config>>
      BY <1>8, <2>2, ReturnType DEF Apply, TypeOK, CopiesTypeOK, TellsSomething
    <2>3. QED
      BY <1>8, <2>1, <2>2 DEF Apply
  <1>9. ASSUME NEW t \in Threads, PollAgain(t) PROVE TypeOK'
    BY <1>9, BeginType DEF PollAgain, TypeOK, CopiesTypeOK, TellsSomething, Purposes
  <1>10. CASE Skip
    <2>1. [cfg EXCEPT !.skip = last.tag] \in Configs
      BY SkipType DEF TypeOK, Results
    <2>2. QED
      BY <1>10, <2>1, SetConfigType DEF Skip, copies, TypeOK
  <1>11. CASE Snooze
    <2>1. [cfg EXCEPT !.snoozed = TRUE] \in Configs
      BY SnoozeType DEF TypeOK
    <2>2. QED
      BY <1>11, <2>1, SetConfigType DEF Snooze, copies, TypeOK
  <1>12. CASE Publish
    <2>1. ghTag' \in Tags /\ ghRev' \in 1 .. MaxRev
      BY <1>12, BoundsAssumption DEF Publish, TypeOK, Tags
    <2>2. ghSigned' \in BOOLEAN
      BY <1>12 DEF Publish
    <2>3. QED
      BY <1>12, <2>1, <2>2 DEF Publish, copies, TypeOK
  <1>13. CASE Upload
    BY <1>13, BoundsAssumption DEF Upload, copies, TypeOK
  <1>14. CASE DayPasses
    <2>1. /\ cfg' \in Configs /\ cfgFile' \in Configs
          /\ st' \in States /\ stFile' \in States
      BY <1>14, SnoozeType, NotFoundType DEF DayPasses, TypeOK
    <2>2. myCfg' \in [Threads -> Configs] /\ mySt' \in [Threads -> States]
      BY <1>14, SnoozeType, NotFoundType DEF DayPasses, TypeOK
    <2>3. QED
      BY <1>14, <2>1, <2>2 DEF DayPasses, TypeOK
  <1>15. CASE Restart
    <2>1. CopiesTypeOK' /\ TellsSomething' /\ pc' \in [Threads -> PCs]
      BY <1>15, EmptyTypes DEF Restart, CopiesTypeOK, TellsSomething, NoResult, PCs, Purposes
    <2>2. QED
      BY <1>15, <2>1, EmptyTypes DEF Restart, TypeOK, CopiesTypeOK, TellsSomething
  <1>16. CASE UNCHANGED vars
    BY <1>16 DEF vars, copies, TypeOK
  <1>17. QED
    BY <1>1, <1>2, <1>3, <1>4, <1>5, <1>6, <1>7, <1>8, <1>9, <1>10, <1>11, <1>12, <1>13, <1>14, <1>15, <1>16 DEF Next, Step

\* The type invariant, for both goroutines and any fault.
THEOREM TypeCorrect == Spec => []TypeOK
  BY TypeInit, TypeStep, PTL DEF Spec

-----------------------------------------------------------------------------
(* The cache behind an ETag                                                *)

\* What is cached under the ETag of the latest answer is that answer.
Current(s) ==
    /\ s.etag <= ghRev
    /\ s.etag = ghRev => s.tag = ghTag /\ (ghSigned => s.asset = ghTag)

\* A copy of the state may be stored at any time, so every copy is current.
CacheInv == Current(st) /\ Current(stFile) /\ \A t \in Threads : Current(mySt[t])

LEMMA CacheInit == Init => CacheInv
  <1> SUFFICES ASSUME Init PROVE CacheInv
    OBVIOUS
  <1>1. Current(NoState)
    BY DEF Init, Current, NoState
  <1>2. st = NoState /\ stFile = NoState /\ \A t \in Threads : mySt[t] = NoState
    BY DEF Init
  <1>3. QED
    BY <1>1, <1>2 DEF CacheInv

LEMMA FetchedCurrent ==
    ASSUME TypeOK, NEW s \in States, Current(s)
    PROVE  Current(Fetched(s))
  <1>1. ghRev \in Nat /\ ghTag # 0
    BY DEF TypeOK, Tags
  <1>2. CASE s.etag = ghRev
    BY <1>2 DEF Fetched, Latest
  <1>3. CASE s.etag # ghRev
    <2>1. /\ Fetched(s).etag = ghRev /\ Fetched(s).tag = ghTag
          /\ ghSigned => Fetched(s).asset = ghTag
      BY <1>1, <1>3 DEF States, Fetched, Latest, SignedArchive
    <2>2. QED
      BY <1>1, <2>1 DEF Current
  <1>4. QED
    BY <1>2, <1>3

LEMMA NoStateCurrent == ASSUME TypeOK PROVE Current(NoState)
  BY DEF TypeOK, Current, NoState

\* Current looks at nothing that marking a notification or a day that passes
\* changes.
LEMMA MarkedCurrent ==
    ASSUME NEW s \in States, NEW r, NEW b, Current(s)
    PROVE  Current(Marked(s, r)) /\ Current([s EXCEPT !.notFound = b])
  BY DEF States, Current, Marked

LEMMA CacheStep == TypeOK /\ CacheInv /\ [Next]_vars => CacheInv'
  <1> SUFFICES ASSUME TypeOK, CacheInv, [Next]_vars
               PROVE  CacheInv'
    OBVIOUS
  <1> USE DEF github, config, state, user, CacheInv
  <1>a. ASSUME UNCHANGED github,
               Current(st'), Current(stFile'), \A t \in Threads : Current(mySt'[t])
        PROVE  CacheInv'
    BY <1>a DEF Current
  <1>b. ASSUME NEW t \in Threads, Return(t) PROVE \A u \in Threads : Current(mySt'[u])
    BY <1>b, NoStateCurrent DEF Return, TypeOK
  <1>c. ASSUME NEW t \in Threads, NEW why, Begin(t, why) PROVE \A u \in Threads : Current(mySt'[u])
    BY <1>c DEF Begin, TypeOK
  <1>1. ASSUME NEW t \in Threads, NEW why \in Purposes, Poll(t, why) PROVE CacheInv'
    BY <1>1, <1>a, <1>c DEF Poll
  <1>2. ASSUME NEW t \in Threads, Fetch(t) PROVE CacheInv'
    <2>1. Current(Fetched(mySt[t]))
      BY FetchedCurrent DEF TypeOK
    <2>2. \A u \in Threads : Current(mySt'[u])
      BY <1>2, <2>1 DEF Fetch, GetsAnswer, TypeOK
    <2>3. QED
      BY <1>2, <1>a, <2>2 DEF Fetch
  <1>3. ASSUME NEW t \in Threads, Store(t) PROVE CacheInv'
    BY <1>3, <1>a DEF Store, copies
  <1>4. ASSUME NEW t \in Threads, Save(t) PROVE CacheInv'
    <2>1. Current(stFile') /\ UNCHANGED <<github, st>>
      BY <1>4 DEF Save, SaveState
    <2>2. \A u \in Threads : Current(mySt'[u])
      BY <1>4, <1>b DEF Save, copies
    <2>3. QED
      BY <1>a, <2>1, <2>2
  <1>5. ASSUME NEW t \in Threads, Toast(t) PROVE CacheInv'
    <2>1. \A u \in Threads : Current(mySt'[u])
      BY <1>5, <1>b DEF Toast, IsShown, copies
    <2>2. QED
      BY <1>5, <1>a, <2>1 DEF Toast
  <1>6. ASSUME NEW t \in Threads, Mark(t) PROVE CacheInv'
    <2>1. Current(st')
      BY <1>6, MarkedCurrent DEF Mark, TypeOK
    <2>2. \A u \in Threads : Current(mySt'[u])
      BY <1>6, <2>1 DEF Mark, TypeOK
    <2>3. QED
      BY <1>6, <1>a, <2>1, <2>2 DEF Mark
  <1>7. ASSUME NEW t \in Threads, SaveMark(t) PROVE CacheInv'
    <2>1. Current(stFile')
      BY <1>7 DEF SaveMark, SaveState
    <2>2. QED
      BY <1>7, <1>a, <1>b, <2>1 DEF SaveMark
  <1>8. ASSUME NEW t \in Threads, Apply(t) PROVE CacheInv'
    <2>1. \A u \in Threads : Current(mySt'[u])
      BY <1>8, <1>b DEF Apply, copies
    <2>2. QED
      BY <1>8, <1>a, <2>1 DEF Apply
  <1>9. ASSUME NEW t \in Threads, PollAgain(t) PROVE CacheInv'
    BY <1>9, <1>a, <1>c DEF PollAgain
  <1>10. CASE Skip
    BY <1>10, <1>a DEF Skip, copies
  <1>11. CASE Snooze
    BY <1>11, <1>a DEF Snooze, copies
  <1>12. CASE Publish
    <2>1. \A s \in States : Current(s) => Current(s)'
      BY <1>12 DEF Publish, TypeOK, States, Current
    <2>2. QED
      BY <1>12, <2>1 DEF Publish, copies, TypeOK, Current
  <1>13. CASE Upload
    <2>1. \A s \in States : Current(s) => Current(s)'
      BY <1>13 DEF Upload, TypeOK, States, Current
    <2>2. QED
      BY <1>13, <2>1 DEF Upload, copies, TypeOK, Current
  <1>14. CASE DayPasses
    <2>1. Current(st') /\ Current(stFile')
      BY <1>14, MarkedCurrent DEF DayPasses, TypeOK
    <2>2. \A u \in Threads : Current(mySt'[u])
      BY <1>14, MarkedCurrent DEF DayPasses, TypeOK
    <2>3. QED
      BY <1>14, <1>a, <2>1, <2>2 DEF DayPasses
  <1>15. CASE Restart
    BY <1>15, <1>a, NoStateCurrent DEF Restart
  <1>16. CASE UNCHANGED vars
    BY <1>16, <1>a DEF vars, copies
  <1>17. QED
    BY <1>1, <1>2, <1>3, <1>4, <1>5, <1>6, <1>7, <1>8, <1>9, <1>10, <1>11, <1>12, <1>13, <1>14, <1>15, <1>16 DEF Next, Step

\* No release is missed behind an ETag, however the goroutines interleave,
\* requests and saves fail and the process restarts.
THEOREM CacheStaysCurrent == Spec => []CacheIsCurrent
  <1>1. CacheInv => CacheIsCurrent
    BY DEF CacheInv, Current, CacheIsCurrent
  <1>2. QED
    BY <1>1, TypeInit, TypeStep, CacheInit, CacheStep, PTL DEF Spec

-----------------------------------------------------------------------------
(* One goroutine that polls                                                *)

SingleThread == \A t, u \in Threads : t = u

\* What a poll brings up on its own is above what is marked as notified.
OnceAt(t) ==
    /\ pc[t] \in {"fetch", "store"} =>
         mySt[t].notified = st.notified /\ st.tag <= mySt[t].tag /\ mySt[t].tag <= ghTag
    /\ pc[t] \in {"save", "notify", "mark"} =>
         mySt[t].notified = st.notified /\ mySt[t].tag = st.tag
    /\ pc[t] \in {"store", "save", "notify", "mark"} /\ res[t].tell = "update" =>
         /\ res[t].tag = mySt[t].tag
         /\ for[t] # "click" => res[t].tag > mySt[t].notified

\* What has been told is not above what is marked, but for the release that is
\* about to be marked.
ToldIsMarked ==
    \A g \in told :
      \/ g <= st.notified
      \/ \E t \in Threads : pc[t] = "mark" /\ res[t].tell = "update" /\ res[t].tag = g

OnceInv ==
    /\ toldAgain = {}
    /\ st.notified <= st.tag /\ st.tag <= ghTag
    /\ ToldIsMarked
    /\ \A t \in Threads : OnceAt(t)

LEMMA Numbers ==
    ASSUME TypeOK
    PROVE  /\ st.tag \in Nat /\ st.notified \in Nat /\ ghTag \in Nat
           /\ \A t \in Threads :
                mySt[t].tag \in Nat /\ mySt[t].notified \in Nat /\ res[t].tag \in Nat
           /\ told \subseteq Nat
  BY BoundsAssumption DEF TypeOK, States, Results, Tags, Tags0

\* Which fields of a state an answer, a mark and a day that passes change.
LEMMA FetchedFields ==
    ASSUME NEW s \in States
    PROVE  Fetched(s).notified = s.notified /\ Fetched(s).tag \in {s.tag, ghTag}
  BY DEF Fetched, Latest, States

LEMMA MarkedFields ==
    ASSUME NEW s \in States, NEW r, NEW b
    PROVE  /\ Marked(s, r).tag = s.tag
           /\ Marked(s, r).notified = IF r.tell = "update" THEN r.tag ELSE s.notified
           /\ [s EXCEPT !.notFound = b].tag = s.tag
           /\ [s EXCEPT !.notFound = b].notified = s.notified
  BY DEF Marked, States

LEMMA OnceInit == Init => OnceInv
  <1> SUFFICES ASSUME Init PROVE OnceInv
    OBVIOUS
  <1>1. \A t \in Threads : OnceAt(t)
    BY DEF Init, OnceAt
  <1>2. toldAgain = {} /\ ToldIsMarked
    BY DEF Init, ToldIsMarked
  <1>3. st.notified = 0 /\ st.tag = 0 /\ ghTag = 1
    BY DEF Init, NoState
  <1>4. QED
    BY <1>1, <1>2, <1>3 DEF OnceInv

\* Where nothing is told or marked, the rest of the invariant is about OnceAt.
LEMMA OnceFrame ==
    ASSUME TypeOK, OnceInv, NEW t \in Threads, \A u \in Threads : u = t,
           UNCHANGED user, UNCHANGED st, UNCHANGED ghTag,
           pc[t] = "mark" => pc'[t] = "mark" /\ res'[t] = res[t],
           OnceAt(t)'
    PROVE  OnceInv'
  <1>1. ToldIsMarked'
    BY DEF OnceInv, ToldIsMarked, user
  <1>2. \A u \in Threads : OnceAt(u)'
    BY DEF OnceAt
  <1>3. QED
    BY <1>1, <1>2 DEF OnceInv, user

\* A goroutine that has returned, or begins, has told nothing yet.
LEMMA ReturnOnce ==
    ASSUME TypeOK, NEW t \in Threads, Return(t)
    PROVE  pc'[t] = "idle" /\ OnceAt(t)'
  BY DEF Return, Goto, OnceAt, TypeOK

LEMMA BeginOnce ==
    ASSUME TypeOK, OnceInv, NEW t \in Threads, NEW why, Begin(t, why), UNCHANGED <<st, ghTag>>
    PROVE  OnceAt(t)'
  <1>1. pc'[t] = "fetch" /\ mySt'[t] = st
    BY DEF Begin, Goto, TypeOK
  <1>2. QED
    BY <1>1, Numbers DEF OnceAt, OnceInv

LEMMA OnceStep ==
    ASSUME SingleThread, "crash" \notin Faults
    PROVE  TypeOK /\ OnceInv /\ [Next]_vars => OnceInv'
  <1> SUFFICES ASSUME TypeOK, OnceInv, [Next]_vars
               PROVE  OnceInv'
    OBVIOUS
  <1> USE DEF github, config, state
  <1>1. ASSUME NEW t \in Threads, NEW why \in Purposes, Poll(t, why) PROVE OnceInv'
    BY <1>1, OnceFrame, BeginOnce DEF Poll, SingleThread
  <1>2. ASSUME NEW t \in Threads, Fetch(t) PROVE OnceInv'
    <2>1. /\ pc[t] = "fetch" /\ pc'[t] = "store"
          /\ UNCHANGED <<st, ghTag, for, user>>
      BY <1>2 DEF Fetch, Goto, TypeOK
    <2>2. /\ mySt[t].notified = st.notified /\ st.tag <= mySt[t].tag
          /\ mySt[t].tag <= ghTag /\ st.notified <= st.tag /\ st.tag <= ghTag
      BY <2>1 DEF OnceInv, OnceAt
    <2>3. OnceAt(t)'
      <3>1. CASE GetsAnswer(t)
        <4> DEFINE s == Fetched(mySt[t])
        <4>1. /\ mySt'[t] = s
              /\ res'[t] = Answer(local[t], myCfg[t], s, for[t] = "click")
          BY <3>1 DEF GetsAnswer, TypeOK
        <4>2. s.notified = st.notified /\ st.tag <= s.tag /\ s.tag <= ghTag /\ s.tag \in Nat
          BY <2>2, FetchedFields, Numbers DEF TypeOK
        <4>3. res'[t].tell = "update" =>
                res'[t].tag = s.tag /\ (for[t] # "click" => s.tag # s.notified)
          BY <4>1 DEF Answer, Tell
        <4> HIDE DEF s
        <4>4. QED
          BY <2>1, <2>2, <4>1, <4>2, <4>3, Numbers DEF OnceAt
      <3>2. CASE res' = [res EXCEPT ![t] = Failure(mySt[t])] /\ UNCHANGED mySt
        <4>1. res'[t].tell = "nothing"
          BY <3>2 DEF Failure, TypeOK
        <4>2. QED
          BY <2>1, <2>2, <3>2, <4>1 DEF OnceAt
      <3>3. QED
        BY <1>2, <3>1, <3>2 DEF Fetch
    <2>4. QED
      BY <2>1, <2>3, OnceFrame DEF SingleThread
  <1>3. ASSUME NEW t \in Threads, Store(t) PROVE OnceInv'
    <2>1. /\ pc[t] = "store" /\ pc'[t] = "save" /\ st' = mySt[t]
          /\ UNCHANGED <<ghTag, for, mySt, res, user>>
      BY <1>3 DEF Store, Goto, TypeOK, copies
    <2>2. mySt[t].notified = st.notified /\ st.tag <= mySt[t].tag /\ mySt[t].tag <= ghTag
      BY <2>1 DEF OnceInv, OnceAt
    <2>3. OnceAt(t)'
      BY <2>1 DEF OnceInv, OnceAt
    <2>4. ToldIsMarked'
      BY <2>1, <2>2 DEF OnceInv, ToldIsMarked, SingleThread, user
    <2>5. st'.notified <= st'.tag /\ st'.tag <= ghTag'
      BY <2>1, <2>2, Numbers DEF OnceInv
    <2>6. QED
      BY <2>1, <2>3, <2>4, <2>5 DEF OnceInv, OnceAt, SingleThread, user
  <1>4. ASSUME NEW t \in Threads, Save(t) PROVE OnceInv'
    <2>1. pc[t] = "save" /\ UNCHANGED <<st, ghTag, user>>
      BY <1>4 DEF Save
    <2>2. CASE Return(t)
      BY <2>1, <2>2, OnceFrame, ReturnOnce DEF SingleThread
    <2>3. CASE AfterPoll(t) # "idle" /\ Goto(t, AfterPoll(t)) /\ UNCHANGED copies
      <3>1. pc'[t] \in {"apply", "notify"}
        BY <2>3 DEF Goto, AfterPoll, TypeOK, Purposes
      <3>2. OnceAt(t)'
        BY <2>1, <2>3, <3>1 DEF OnceInv, OnceAt, copies
      <3>3. QED
        BY <2>1, <3>2, OnceFrame DEF SingleThread
    <2>4. QED
      BY <1>4, <2>2, <2>3 DEF Save
  <1>5. ASSUME NEW t \in Threads, Toast(t) PROVE OnceInv'
    <2>1. pc[t] = "notify" /\ UNCHANGED <<st, ghTag>>
      BY <1>5 DEF Toast
    <2>2. CASE IsShown(t)
      <3>1. pc'[t] = "mark" /\ UNCHANGED <<for, mySt, res>>
        BY <2>2 DEF IsShown, Goto, TypeOK, copies
      <3>2. OnceAt(t)'
        BY <2>1, <3>1 DEF OnceInv, OnceAt
      <3>3. \A g \in told : g <= st.notified
        BY <2>1 DEF OnceInv, ToldIsMarked, SingleThread
      <3>4. toldAgain' = {} /\ ToldIsMarked'
        <4>1. CASE res[t].tell = "update"
          <5>1. for[t] = "timer" => res[t].tag \notin told
            <6> SUFFICES ASSUME for[t] = "timer" PROVE res[t].tag \notin told
              OBVIOUS
            <6>1. res[t].tag > mySt[t].notified /\ mySt[t].notified = st.notified
              BY <2>1, <4>1 DEF OnceInv, OnceAt
            <6>2. QED
              BY <3>3, <6>1, Numbers
          <5>2. told' = told \cup {res[t].tag} /\ toldAgain' = {}
            BY <2>2, <4>1, <5>1 DEF IsShown, OnceInv
          <5>3. QED
            BY <2>1, <3>1, <3>3, <4>1, <5>2 DEF ToldIsMarked
        <4>2. CASE res[t].tell # "update"
          BY <2>1, <2>2, <3>3, <4>2 DEF IsShown, OnceInv, ToldIsMarked, user
        <4>3. QED
          BY <4>1, <4>2
      <3>5. QED
        BY <2>1, <3>2, <3>4 DEF OnceInv, OnceAt, SingleThread
    <2>3. CASE Return(t) /\ UNCHANGED user
      BY <2>1, <2>3, OnceFrame, ReturnOnce DEF SingleThread
    <2>4. QED
      BY <1>5, <2>2, <2>3 DEF Toast
  <1>6. ASSUME NEW t \in Threads, Mark(t) PROVE OnceInv'
    <2>1. /\ pc[t] = "mark" /\ pc'[t] = "saveMark" /\ st' = Marked(st, res[t])
          /\ UNCHANGED <<ghTag, user>>
      BY <1>6 DEF Mark, Goto, TypeOK
    <2>2. OnceAt(t)'
      BY <2>1 DEF OnceAt
    <2>3. /\ mySt[t].notified = st.notified /\ mySt[t].tag = st.tag
          /\ res[t].tell = "update" => res[t].tag = st.tag
      BY <2>1 DEF OnceInv, OnceAt
    <2>4. /\ st'.tag = st.tag
          /\ st'.notified = IF res[t].tell = "update" THEN st.tag ELSE st.notified
      BY <2>1, <2>3, MarkedFields DEF TypeOK
    <2>5. ToldIsMarked'
      BY <2>1, <2>3, <2>4, Numbers DEF OnceInv, ToldIsMarked, SingleThread, user
    <2>6. QED
      BY <2>1, <2>2, <2>4, <2>5, Numbers DEF OnceInv, OnceAt, SingleThread, user
  <1>7. ASSUME NEW t \in Threads, SaveMark(t) PROVE OnceInv'
    BY <1>7, OnceFrame, ReturnOnce DEF SaveMark, SingleThread
  <1>8. ASSUME NEW t \in Threads, Apply(t) PROVE OnceInv'
    <2>1. pc[t] = "apply" /\ UNCHANGED <<st, ghTag, user>>
      BY <1>8 DEF Apply
    <2>2. CASE Return(t)
      BY <2>1, <2>2, OnceFrame, ReturnOnce DEF SingleThread
    <2>3. CASE Goto(t, "installed")
      <3>1. pc'[t] = "installed" /\ OnceAt(t)'
        BY <2>3 DEF Goto, OnceAt, TypeOK
      <3>2. QED
        BY <2>1, <3>1, OnceFrame DEF SingleThread
    <2>4. QED
      BY <1>8, <2>2, <2>3 DEF Apply
  <1>9. ASSUME NEW t \in Threads, PollAgain(t) PROVE OnceInv'
    BY <1>9, OnceFrame, BeginOnce DEF PollAgain, SingleThread
  <1>a. ASSUME UNCHANGED <<st, pc, copies, user>>, ghTag <= ghTag', ghTag' \in Nat
        PROVE  OnceInv'
    BY <1>a, Numbers DEF OnceInv, OnceAt, ToldIsMarked, copies, user
  <1>10. CASE Skip
    BY <1>10, <1>a, Numbers DEF Skip
  <1>11. CASE Snooze
    BY <1>11, <1>a, Numbers DEF Snooze
  <1>12. CASE Publish
    BY <1>12, <1>a, Numbers DEF Publish
  <1>13. CASE Upload
    BY <1>13, <1>a, Numbers DEF Upload
  <1>14. CASE DayPasses
    <2>1. st'.tag = st.tag /\ st'.notified = st.notified
      BY <1>14, MarkedFields DEF DayPasses, TypeOK
    <2>2. \A t \in Threads : mySt'[t].tag = mySt[t].tag /\ mySt'[t].notified = mySt[t].notified
      BY <1>14, MarkedFields DEF DayPasses, TypeOK
    <2>3. UNCHANGED <<ghTag, pc, for, res, user>>
      BY <1>14 DEF DayPasses
    <2>4. QED
      BY <2>1, <2>2, <2>3 DEF OnceInv, OnceAt, ToldIsMarked, user
  <1>15. CASE Restart
    BY <1>15 DEF Restart
  <1>16. CASE UNCHANGED vars
    BY <1>16, <1>a, Numbers DEF vars
  <1>17. QED
    BY <1>1, <1>2, <1>3, <1>4, <1>5, <1>6, <1>7, <1>8, <1>9, <1>10, <1>11, <1>12, <1>13, <1>14, <1>15, <1>16 DEF Next, Step

\* With one goroutine that polls, and without a crash between the notification
\* and its mark on disk, the user is told of a release once.
THEOREM ToldOnce ==
    ASSUME SingleThread, "crash" \notin Faults
    PROVE  Spec => []NotifiedOnce
  <1>1. OnceInv => NotifiedOnce
    BY DEF OnceInv, NotifiedOnce
  <1>2. QED
    BY <1>1, TypeInit, TypeStep, OnceInit, OnceStep, PTL DEF Spec
=============================================================================
