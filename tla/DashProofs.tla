---------------------------- MODULE DashProofs -----------------------------
(***************************************************************************)
(* Proofs about DashHandler for every number of loaders, segments and      *)
(* detachments: type correctness, and, as long as a start meets neither an *)
(* older load thread nor the control thread's stop, that no load thread    *)
(* uses a deleted DashCurl and that the file holds every segment in order. *)
(***************************************************************************)
EXTENDS DashHandler, TLAPS

-----------------------------------------------------------------------------
(***************************************************************************)
(* The inductive invariant.                                                *)
(***************************************************************************)
\* What the UI thread alone decides, whatever it meets: only StartLoadThread
\* sets load_dash_running, only ClearAll deletes, and only what was made.
UiFlow ==
  /\ uiPc = "preload" => left > 0
  /\ joinable => uiPc = "detach"
  /\ uiPc \in {"unlink", "replace", "setFilename", "init", "preload", "start", "run", "clear"}
       => ~running
  /\ Starting \/ running => curl # 0
  /\ curl <= made /\ deleted \subseteq 1 .. made /\ curl \notin deleted

\* The control thread's stop is over before the next start, and does not join.
StopApart ==
  /\ Starting => ctlPc = "recv"
  /\ ctlPc # "join"
  /\ ctlPc = "unlink" => ~running

\* There is one load thread, and thread_ended is about it.
OneLoader ==
  /\ \A t, u \in Active : t = u
  /\ uiPc \in {"init", "preload", "start", "run", "spawn"} \/ ended => Active = {}
  /\ uiPc \in {"run", "spawn"} => ~ended

\* The load thread is in the present DashCurl.
CurlKept == \A t \in Threads : loader[t] \in {"open", "loading"} => using[t] = curl /\ curl # 0

\* The file is whole, and the segment that keeps it so is the next one loaded.
FileKept ==
  /\ uiPc = "init" => file = "none"
  /\ uiPc \in {"preload", "start", "run", "spawn"} => file = "ok" /\ segmentIdx = expected
  /\ running =>
       /\ file = "ok"
       /\ \A t \in Threads :
            /\ loader[t] \in {"check", "read", "increment"} => segmentIdx = expected
            /\ loader[t] \in {"increment", "test", "open", "loading"} => held[t] = expected
            /\ loader[t] \in {"test", "open", "loading"} => segmentIdx = Next1(expected)
            /\ loader[t] = "loading" => t \in handles

IInv ==
  /\ TypeOK
  /\ UiFlow
  /\ ~disturbed => StopApart /\ OneLoader /\ CurlKept /\ FileKept

-----------------------------------------------------------------------------
(***************************************************************************)
(* One lemma for each part, one case for each action.                      *)
(***************************************************************************)
\* The segment numbers are closed under "next segment".
LEMMA NextType == \A i \in 0 .. Indices - 1 : Next1(i) \in 0 .. Indices - 1
  BY IndicesAssumption DEF Next1

\* The initial states satisfy the invariant.
LEMMA InitIInv == Init => IInv
<1> SUFFICES ASSUME Init PROVE IInv
  OBVIOUS
<1>1. /\ 0 \in 0 .. Indices - 1 /\ 0 \in 0 .. MaxLoaders /\ 0 \in 0 .. MaxPreload
      /\ 0 \in 0 .. MaxDetach
  BY IndicesAssumption, LoadersAssumption, PreloadAssumption, DetachAssumption
<1>2. TypeOK
  BY <1>1 DEF Init, TypeOK
<1>3. UiFlow /\ StopApart
  BY DEF Init, UiFlow, StopApart, Starting
<1>4. OneLoader /\ CurlKept /\ FileKept
  BY DEF Init, OneLoader, Active, CurlKept, FileKept
<1>5. QED
  BY <1>2, <1>3, <1>4 DEF IInv

\* Every step keeps every variable's type.
LEMMA TypeStep ==
  ASSUME TypeOK, UiFlow, [Next]_vars
  PROVE  TypeOK'
<1> USE DEF flagVars, curlVars, loadVars, fileVars, histVars,
           TypeOK, UiFlow, Goto
<1>1. ASSUME NEW t \in Threads, LoaderSteps(t) \/ LoadUrl(t)
      PROVE  TypeOK'
  <2>1. CASE Check(t)
    BY <2>1, NextType DEF Check
  <2>2. CASE ReadIndex(t)
    BY <2>2, NextType DEF ReadIndex
  <2>3. CASE IncrementIndex(t)
    BY <2>3, NextType DEF IncrementIndex
  <2>4. CASE TestRunning(t)
    BY <2>4, LoadersAssumption DEF TestRunning
  <2>5. CASE OpenFile(t)
    BY <2>5, NextType DEF OpenFile
  <2>6. CASE EndThread(t)
    BY <2>6, NextType DEF EndThread
  <2>7. CASE LoadUrl(t)
    <3>1. expected' \in 0 .. Indices - 1 /\ file' \in {"none", "ok", "bad"}
      BY <2>7, NextType DEF LoadUrl, AppendSegment
    <3>2. QED
      BY <2>7, <3>1, LoadersAssumption DEF LoadUrl
  <2>8. QED
    BY <1>1, <2>1, <2>2, <2>3, <2>4, <2>5, <2>6, <2>7 DEF LoaderSteps
<1>2. CASE Describe
  BY <1>2, NextType DEF Describe
<1>3. CASE StopVideo
  BY <1>3, NextType DEF StopVideo
<1>4. CASE PlayVideo
  BY <1>4, NextType DEF PlayVideo
<1>5. CASE ClearAll
  BY <1>5, NextType DEF ClearAll
<1>6. CASE UnlinkFile
  BY <1>6, NextType DEF UnlinkFile, Unlink
<1>7. CASE SetFilename
  BY <1>7, LoadersAssumption DEF SetFilename, Unlink
<1>8. CASE InitLoadThread
  <2>1. 0 \in 0 .. Indices - 1 /\ \A n \in 1 .. MaxPreload : n \in 0 .. MaxPreload
    BY IndicesAssumption, PreloadAssumption
  <2>2. QED
    BY <1>8, <2>1 DEF InitLoadThread
<1>9. CASE Preload
  BY <1>9, NextType, PreloadAssumption DEF Preload, AppendSegment
<1>10. CASE StartEnded
  BY <1>10, NextType DEF StartEnded
<1>11. CASE StartRunning
  BY <1>11, NextType DEF StartRunning
<1>12. CASE Spawn
  BY <1>12, NextType DEF Spawn, Unborn
<1>13. CASE Detach
  BY <1>13, NextType DEF Detach
<1>14. CASE ClearDone
  <2>1. deleted' \subseteq 1 .. MaxLoaders
    BY <1>14, LoadersAssumption DEF ClearDone
  <2>2. 0 \in 0 .. MaxLoaders
    BY LoadersAssumption
  <2>3. QED
    BY <1>14, <2>1, <2>2 DEF ClearDone
<1>15. CASE PlayerDetached
  BY <1>15, DetachAssumption DEF PlayerDetached
<1>16. CASE StopLoadThread
  BY <1>16, NextType DEF StopLoadThread
<1>17. CASE Join
  BY <1>17, NextType DEF Join
<1>18. CASE UnlinkDetached
  BY <1>18, NextType DEF UnlinkDetached, Unlink
<1>19. CASE UNCHANGED vars
  BY <1>19, NextType DEF vars
<1>20. QED
  BY <1>1, <1>2, <1>3, <1>4, <1>5, <1>6, <1>7, <1>8, <1>9, <1>10, <1>11,
     <1>12, <1>13, <1>14, <1>15, <1>16, <1>17, <1>18, <1>19
     DEF Next, Queries, UiSteps, ControlSteps

\* Every step keeps what the UI thread alone decides.
LEMMA UiFlowStep ==
  ASSUME TypeOK, UiFlow, [Next]_vars
  PROVE  UiFlow'
<1> USE DEF flagVars, curlVars, loadVars, fileVars, histVars,
           TypeOK, UiFlow, Starting, Goto
<1>1. ASSUME NEW t \in Threads, LoaderSteps(t) \/ LoadUrl(t)
      PROVE  UiFlow'
  <2>1. CASE Check(t)
    BY <2>1 DEF Check
  <2>2. CASE ReadIndex(t)
    BY <2>2 DEF ReadIndex
  <2>3. CASE IncrementIndex(t)
    BY <2>3 DEF IncrementIndex
  <2>4. CASE TestRunning(t)
    BY <2>4 DEF TestRunning
  <2>5. CASE OpenFile(t)
    BY <2>5 DEF OpenFile
  <2>6. CASE EndThread(t)
    BY <2>6 DEF EndThread
  <2>7. CASE LoadUrl(t)
    BY <2>7 DEF LoadUrl, AppendSegment
  <2>8. QED
    BY <1>1, <2>1, <2>2, <2>3, <2>4, <2>5, <2>6, <2>7 DEF LoaderSteps
<1>2. CASE Describe
  BY <1>2 DEF Describe
<1>3. CASE StopVideo
  BY <1>3 DEF StopVideo
<1>4. CASE PlayVideo
  BY <1>4 DEF PlayVideo
<1>5. CASE ClearAll
  BY <1>5 DEF ClearAll
<1>6. CASE UnlinkFile
  BY <1>6 DEF UnlinkFile, Unlink
<1>7. CASE SetFilename
  BY <1>7 DEF SetFilename, Unlink
<1>8. CASE InitLoadThread
  BY <1>8 DEF InitLoadThread
<1>9. CASE Preload
  BY <1>9 DEF Preload, AppendSegment
<1>10. CASE StartEnded
  BY <1>10 DEF StartEnded
<1>11. CASE StartRunning
  BY <1>11 DEF StartRunning
<1>12. CASE Spawn
  BY <1>12 DEF Spawn, Unborn
<1>13. CASE Detach
  BY <1>13 DEF Detach
<1>14. CASE ClearDone
  BY <1>14 DEF ClearDone
<1>15. CASE PlayerDetached
  BY <1>15 DEF PlayerDetached
<1>16. CASE StopLoadThread
  BY <1>16 DEF StopLoadThread
<1>17. CASE Join
  BY <1>17 DEF Join
<1>18. CASE UnlinkDetached
  BY <1>18 DEF UnlinkDetached, Unlink
<1>19. CASE UNCHANGED vars
  BY <1>19 DEF vars
<1>20. QED
  BY <1>1, <1>2, <1>3, <1>4, <1>5, <1>6, <1>7, <1>8, <1>9, <1>10, <1>11,
     <1>12, <1>13, <1>14, <1>15, <1>16, <1>17, <1>18, <1>19
     DEF Next, Queries, UiSteps, ControlSteps

\* The control thread's stop stays apart from a start.
LEMMA StopApartStep ==
  ASSUME TypeOK, UiFlow, ~disturbed', ~disturbed => StopApart, [Next]_vars
  PROVE  StopApart'
<1> USE DEF flagVars, curlVars, loadVars, fileVars, histVars,
           TypeOK, UiFlow, Starting, StopApart, Goto
<1>1. ASSUME NEW t \in Threads, LoaderSteps(t) \/ LoadUrl(t)
      PROVE  StopApart'
  <2>1. CASE Check(t)
    BY <2>1 DEF Check
  <2>2. CASE ReadIndex(t)
    BY <2>2 DEF ReadIndex
  <2>3. CASE IncrementIndex(t)
    BY <2>3 DEF IncrementIndex
  <2>4. CASE TestRunning(t)
    BY <2>4 DEF TestRunning
  <2>5. CASE OpenFile(t)
    BY <2>5 DEF OpenFile
  <2>6. CASE EndThread(t)
    BY <2>6 DEF EndThread
  <2>7. CASE LoadUrl(t)
    BY <2>7 DEF LoadUrl, AppendSegment
  <2>8. QED
    BY <1>1, <2>1, <2>2, <2>3, <2>4, <2>5, <2>6, <2>7 DEF LoaderSteps
<1>2. CASE Describe
  BY <1>2 DEF Describe
<1>3. CASE StopVideo
  BY <1>3 DEF StopVideo
<1>4. CASE PlayVideo
  BY <1>4 DEF PlayVideo
<1>5. CASE ClearAll
  BY <1>5 DEF ClearAll
<1>6. CASE UnlinkFile
  BY <1>6 DEF UnlinkFile, Unlink
<1>7. CASE SetFilename
  BY <1>7 DEF SetFilename, Unlink
<1>8. CASE InitLoadThread
  BY <1>8 DEF InitLoadThread
<1>9. CASE Preload
  BY <1>9 DEF Preload, AppendSegment
<1>10. CASE StartEnded
  BY <1>10 DEF StartEnded
<1>11. CASE StartRunning
  BY <1>11 DEF StartRunning
<1>12. CASE Spawn
  BY <1>12 DEF Spawn, Unborn
<1>13. CASE Detach
  BY <1>13 DEF Detach
<1>14. CASE ClearDone
  BY <1>14 DEF ClearDone
<1>15. CASE PlayerDetached
  BY <1>15 DEF PlayerDetached
<1>16. CASE StopLoadThread
  BY <1>16 DEF StopLoadThread
<1>17. CASE Join
  BY <1>17 DEF Join
<1>18. CASE UnlinkDetached
  BY <1>18 DEF UnlinkDetached, Unlink
<1>19. CASE UNCHANGED vars
  BY <1>19 DEF vars
<1>20. QED
  BY <1>1, <1>2, <1>3, <1>4, <1>5, <1>6, <1>7, <1>8, <1>9, <1>10, <1>11,
     <1>12, <1>13, <1>14, <1>15, <1>16, <1>17, <1>18, <1>19
     DEF Next, Queries, UiSteps, ControlSteps

\* There stays one load thread, and thread_ended stays about it.
LEMMA OneLoaderStep ==
  ASSUME TypeOK, UiFlow, ~disturbed', ~disturbed => OneLoader, [Next]_vars
  PROVE  OneLoader'
<1> USE DEF flagVars, curlVars, loadVars, fileVars, histVars,
           TypeOK, OneLoader, Active, Goto
<1>1. ASSUME NEW t \in Threads, LoaderSteps(t) \/ LoadUrl(t)
      PROVE  OneLoader'
  <2>1. CASE Check(t)
    BY <2>1 DEF Check
  <2>2. CASE ReadIndex(t)
    BY <2>2 DEF ReadIndex
  <2>3. CASE IncrementIndex(t)
    BY <2>3 DEF IncrementIndex
  <2>4. CASE TestRunning(t)
    BY <2>4 DEF TestRunning
  <2>5. CASE OpenFile(t)
    BY <2>5 DEF OpenFile
  <2>6. CASE EndThread(t)
    BY <2>6 DEF EndThread
  <2>7. CASE LoadUrl(t)
    BY <2>7 DEF LoadUrl, AppendSegment
  <2>8. QED
    BY <1>1, <2>1, <2>2, <2>3, <2>4, <2>5, <2>6, <2>7 DEF LoaderSteps
<1>2. CASE Describe
  BY <1>2 DEF Describe
<1>3. CASE StopVideo
  BY <1>3 DEF StopVideo
<1>4. CASE PlayVideo
  BY <1>4 DEF PlayVideo
<1>5. CASE ClearAll
  BY <1>5 DEF ClearAll
<1>6. CASE UnlinkFile
  BY <1>6 DEF UnlinkFile, Unlink
<1>7. CASE SetFilename
  BY <1>7 DEF SetFilename, Unlink
<1>8. CASE InitLoadThread
  BY <1>8 DEF InitLoadThread
<1>9. CASE Preload
  BY <1>9 DEF Preload, AppendSegment
<1>10. CASE StartEnded
  BY <1>10 DEF StartEnded
<1>11. CASE StartRunning
  BY <1>11 DEF StartRunning
<1>12. CASE Spawn
  BY <1>12 DEF Spawn, Unborn
<1>13. CASE Detach
  BY <1>13 DEF Detach
<1>14. CASE ClearDone
  BY <1>14 DEF ClearDone
<1>15. CASE PlayerDetached
  BY <1>15 DEF PlayerDetached
<1>16. CASE StopLoadThread
  BY <1>16 DEF StopLoadThread
<1>17. CASE Join
  BY <1>17 DEF Join
<1>18. CASE UnlinkDetached
  BY <1>18 DEF UnlinkDetached, Unlink
<1>19. CASE UNCHANGED vars
  BY <1>19 DEF vars
<1>20. QED
  BY <1>1, <1>2, <1>3, <1>4, <1>5, <1>6, <1>7, <1>8, <1>9, <1>10, <1>11,
     <1>12, <1>13, <1>14, <1>15, <1>16, <1>17, <1>18, <1>19
     DEF Next, Queries, UiSteps, ControlSteps

\* The load thread stays in the present DashCurl.
LEMMA CurlStep ==
  ASSUME TypeOK, UiFlow, ~disturbed', ~disturbed => OneLoader /\ CurlKept, [Next]_vars
  PROVE  CurlKept'
<1> USE DEF flagVars, curlVars, loadVars, fileVars, histVars,
           TypeOK, UiFlow, CurlKept, Goto
<1>1. ASSUME NEW t \in Threads, LoaderSteps(t) \/ LoadUrl(t)
      PROVE  CurlKept'
  <2>1. CASE Check(t)
    BY <2>1 DEF Check
  <2>2. CASE ReadIndex(t)
    BY <2>2 DEF ReadIndex
  <2>3. CASE IncrementIndex(t)
    BY <2>3 DEF IncrementIndex
  <2>4. CASE TestRunning(t)
    BY <2>4 DEF TestRunning
  <2>5. CASE OpenFile(t)
    BY <2>5 DEF OpenFile
  <2>6. CASE EndThread(t)
    BY <2>6 DEF EndThread
  <2>7. CASE LoadUrl(t)
    BY <2>7 DEF LoadUrl, AppendSegment
  <2>8. QED
    BY <1>1, <2>1, <2>2, <2>3, <2>4, <2>5, <2>6, <2>7 DEF LoaderSteps
<1>2. CASE Describe
  BY <1>2 DEF Describe
<1>3. CASE StopVideo
  BY <1>3 DEF StopVideo
<1>4. CASE PlayVideo
  BY <1>4 DEF PlayVideo
<1>5. CASE ClearAll
  BY <1>5 DEF ClearAll
<1>6. CASE UnlinkFile
  BY <1>6 DEF UnlinkFile, Unlink
<1>7. CASE SetFilename
  BY <1>7 DEF SetFilename, Unlink, Active
<1>8. CASE InitLoadThread
  BY <1>8 DEF InitLoadThread
<1>9. CASE Preload
  BY <1>9 DEF Preload, AppendSegment
<1>10. CASE StartEnded
  BY <1>10 DEF StartEnded
<1>11. CASE StartRunning
  BY <1>11 DEF StartRunning
<1>12. CASE Spawn
  BY <1>12 DEF Spawn, Unborn
<1>13. CASE Detach
  BY <1>13 DEF Detach
<1>14. CASE ClearDone
  BY <1>14 DEF ClearDone, OneLoader, Active
<1>15. CASE PlayerDetached
  BY <1>15 DEF PlayerDetached
<1>16. CASE StopLoadThread
  BY <1>16 DEF StopLoadThread
<1>17. CASE Join
  BY <1>17 DEF Join
<1>18. CASE UnlinkDetached
  BY <1>18 DEF UnlinkDetached, Unlink
<1>19. CASE UNCHANGED vars
  BY <1>19 DEF vars
<1>20. QED
  BY <1>1, <1>2, <1>3, <1>4, <1>5, <1>6, <1>7, <1>8, <1>9, <1>10, <1>11,
     <1>12, <1>13, <1>14, <1>15, <1>16, <1>17, <1>18, <1>19
     DEF Next, Queries, UiSteps, ControlSteps

\* The file stays whole.
LEMMA FileStep ==
  ASSUME TypeOK, UiFlow, ~disturbed', ~disturbed => StopApart /\ OneLoader /\ FileKept, [Next]_vars
  PROVE  FileKept'
<1> USE DEF flagVars, curlVars, loadVars, fileVars, histVars,
           TypeOK, UiFlow, FileKept, Goto
<1>1. ASSUME NEW t \in Threads, LoaderSteps(t) \/ LoadUrl(t)
      PROVE  FileKept'
  <2>self. ~disturbed /\ loader[t] \notin {"unborn", "done"}
    BY <1>1 DEF LoaderSteps, Check, ReadIndex, IncrementIndex, TestRunning, OpenFile, EndThread,
                LoadUrl
  <2>others. /\ \A u \in Threads : u # t => loader[u] \in {"unborn", "done"}
        /\ uiPc \notin {"init", "preload", "start", "run", "spawn"}
    BY <2>self DEF OneLoader, Active
  <2>1. CASE Check(t)
    BY <2>1, <2>others DEF Check
  <2>2. CASE ReadIndex(t)
    BY <2>2, <2>others DEF ReadIndex
  <2>3. CASE IncrementIndex(t)
    BY <2>3, <2>others DEF IncrementIndex
  <2>4. CASE TestRunning(t)
    BY <2>4, <2>others DEF TestRunning
  <2>5. CASE OpenFile(t)
    BY <2>5, <2>others DEF OpenFile
  <2>6. CASE EndThread(t)
    BY <2>6, <2>others DEF EndThread
  <2>7. CASE LoadUrl(t)
    BY <2>7, <2>others DEF LoadUrl, AppendSegment
  <2>8. QED
    BY <1>1, <2>1, <2>2, <2>3, <2>4, <2>5, <2>6, <2>7 DEF LoaderSteps
<1>2. CASE Describe
  BY <1>2, NextType DEF Describe
<1>3. CASE StopVideo
  BY <1>3, NextType DEF StopVideo
<1>4. CASE PlayVideo
  BY <1>4, NextType DEF PlayVideo
<1>5. CASE ClearAll
  BY <1>5, NextType DEF ClearAll
<1>6. CASE UnlinkFile
  BY <1>6, NextType DEF UnlinkFile, Unlink
<1>7. CASE SetFilename
  BY <1>7 DEF SetFilename, Unlink, Active
<1>8. CASE InitLoadThread
  BY <1>8, NextType DEF InitLoadThread
<1>9. CASE Preload
  BY <1>9, NextType DEF Preload, AppendSegment
<1>10. CASE StartEnded
  BY <1>10, NextType DEF StartEnded
<1>11. CASE StartRunning
  BY <1>11 DEF StartRunning, OneLoader, Active
<1>12. CASE Spawn
  BY <1>12, NextType DEF Spawn, Unborn
<1>13. CASE Detach
  BY <1>13, NextType DEF Detach
<1>14. CASE ClearDone
  BY <1>14, NextType DEF ClearDone
<1>15. CASE PlayerDetached
  BY <1>15, NextType DEF PlayerDetached
<1>16. CASE StopLoadThread
  BY <1>16, NextType DEF StopLoadThread
<1>17. CASE Join
  BY <1>17, NextType DEF Join
<1>18. CASE UnlinkDetached
  BY <1>18 DEF UnlinkDetached, Unlink, StopApart, Starting
<1>19. CASE UNCHANGED vars
  BY <1>19, NextType DEF vars
<1>20. QED
  BY <1>1, <1>2, <1>3, <1>4, <1>5, <1>6, <1>7, <1>8, <1>9, <1>10, <1>11,
     <1>12, <1>13, <1>14, <1>15, <1>16, <1>17, <1>18, <1>19
     DEF Next, Queries, UiSteps, ControlSteps

\* The invariant is inductive.
LEMMA IInvStep == IInv /\ [Next]_vars => IInv'
<1> SUFFICES ASSUME IInv, [Next]_vars PROVE IInv'
  OBVIOUS
<1>1. TypeOK' /\ UiFlow'
  BY TypeStep, UiFlowStep DEF IInv
<1>2. ASSUME ~disturbed' PROVE StopApart' /\ OneLoader' /\ CurlKept' /\ FileKept'
  BY <1>2, StopApartStep, OneLoaderStep, CurlStep, FileStep DEF IInv
<1>3. QED
  BY <1>1, <1>2 DEF IInv

\* It holds throughout.
LEMMA Invariance == Spec => []IInv
  BY InitIInv, IInvStep, PTL DEF Spec

-----------------------------------------------------------------------------
(***************************************************************************)
(* What follows for every number of loaders and segments.                  *)
(***************************************************************************)
\* Every variable keeps its type, whatever the threads disturb.
THEOREM TypeCorrect == Spec => []TypeOK
<1>1. IInv => TypeOK
  BY DEF IInv
<1>2. QED
  BY <1>1, Invariance, PTL

\* ClearAll deletes no DashCurl a load thread is in.
THEOREM NoLoaderOutlivesCurl == Spec => []NoStaleCurl
<1>1. IInv => NoStaleCurl
  BY DEF IInv, UiFlow, CurlKept, NoStaleCurl
<1>2. QED
  BY <1>1, Invariance, PTL

\* ffmpeg reads every segment once and in order while the load thread is on.
THEOREM SegmentsInOrder == Spec => []FileInOrder
<1>1. IInv => FileInOrder
  BY DEF IInv, FileKept, FileInOrder
<1>2. QED
  BY <1>1, Invariance, PTL
=============================================================================
