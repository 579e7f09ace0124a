--------------------------- MODULE AnalysisProofs ---------------------------
(***************************************************************************)
(* Proofs about the parts of Analysis for any number of frames, goals,     *)
(* batches, candidates and chunks, and any limits.                         *)
(***************************************************************************)
EXTENDS Analysis, FiniteSetTheorems, WellFoundedInduction, TLAPS

(* A step of the composition is a step of every part or leaves it alone.    *)
LEMMA AnalysisStep ==
  ASSUME [AnalysisNext]_analysisVars
  PROVE  [RequestsNext]_requestVars /\ [ScanNext]_scanVars /\ [RunnerNext]_runnerVars
BY DEF AnalysisNext, analysisVars, OfRunner

-----------------------------------------------------------------------------
(* The provider run.                                                        *)

\* Candidates are left while one is probed; a tree lives only while the runner
\* waits for it, unless the core was killed.
TreeInv ==
    /\ runStage \in {"probing", "probingSandbox", "probeSandbox"} => left > 0
    /\ runStage \in {"probe", "probeSandbox", "configure", "spawn"} => alive = {}
    /\ verdict # "" => runStage = "done"
    /\ runStage = "done" /\ verdict # "killed" => alive = {} /\ ~private

\* A probe that gave up on its group also used up its candidate.
StrayInv ==
    /\ Searching => left <= Candidates /\ strays <= Candidates - left
    /\ Chosen => strays < Candidates

\* Every chunk is in a pipe or has been read, and nothing is read before the
\* execution.
PipeInv ==
    /\ runStage \in {"feed", "execute"} => \A c \in Channel : written[c] = kept[c] + pipe[c]
    /\ runStage \notin {"execute", "done"} => kept = Empty
    /\ AcceptedWhole

RunnerInv == RunnerTypeOK /\ TreeInv /\ StrayInv /\ PipeInv

(* The limits are numbers, and empty pipes hold nothing.                    *)
LEMMA RunnerFacts ==
  /\ Candidates \in Nat /\ PromptChunks \in Nat /\ PipeCap \in Nat
  /\ OutputLimit \in Nat /\ MaxWritten \in Nat
  /\ Empty \in [Channel -> 0 .. PipeCap] /\ Empty \in [Channel -> 0 .. MaxWritten]
  /\ Empty \in [Channel -> 0 .. OutputLimit]
  /\ \A c \in Channel : Empty[c] = 0
BY RunnerAssumption DEF Empty

(* The chunks of a pipe are numbers.                                        *)
LEMMA RunnerNumbers ==
  ASSUME RunnerTypeOK
  PROVE  pipe \in [Channel -> Nat] /\ kept \in [Channel -> Nat] /\ written \in [Channel -> Nat]
<1>1. \A n \in Nat : \A f : f \in [Channel -> 0 .. n] => f \in [Channel -> Nat]
  OBVIOUS
<1>2. /\ pipe \in [Channel -> 0 .. PipeCap] /\ written \in [Channel -> 0 .. MaxWritten]
      /\ kept \in [Channel -> 0 .. OutputLimit]
  BY DEF RunnerTypeOK
<1> QED BY ONLY <1>1, <1>2, RunnerFacts

(* Nothing was started.                                                     *)
LEMMA RunnerStart == RunnerInit => RunnerInv
<1> SUFFICES ASSUME RunnerInit PROVE RunnerInv
  OBVIOUS
<1>1. RunnerTypeOK
  <2>1. left \in 0 .. PromptChunks + Candidates /\ input \in 0 .. PipeCap /\ strays \in 0 .. Candidates
    <3>1. left = Candidates /\ input = 0 /\ strays = 0
      BY DEF RunnerInit
    <3> QED BY ONLY <3>1, RunnerFacts
  <2>2. /\ pipe \in [Channel -> 0 .. PipeCap] /\ written \in [Channel -> 0 .. MaxWritten]
        /\ kept \in [Channel -> 0 .. OutputLimit]
    BY RunnerFacts DEF RunnerInit
  <2> QED BY ONLY <2>1, <2>2, RunnerInit DEF RunnerInit, RunnerTypeOK
<1>2. TreeInv
  BY DEF RunnerInit, TreeInv
<1>3. PipeInv
  BY DEF RunnerInit, PipeInv, AcceptedWhole
<1>4. StrayInv
  <2>1. left = Candidates /\ strays = 0 /\ Candidates \in Nat
    BY RunnerFacts DEF RunnerInit
  <2>2. ~Chosen
    BY DEF RunnerInit, Chosen
  <2>3. left <= Candidates /\ strays <= Candidates - left
    BY ONLY <2>1
  <2> QED BY <2>2, <2>3 DEF StrayInv
<1> QED BY <1>1, <1>2, <1>3, <1>4 DEF RunnerInv

(* Every step leaves values of the right kind.                              *)
LEMMA RunnerTypeStep ==
  ASSUME RunnerInv, RunnerNext
  PROVE  RunnerTypeOK'
<1> USE RunnerFacts DEF RunnerInv, RunnerTypeOK, setting, processVars
<1>1. ASSUME StartProbe PROVE RunnerTypeOK'
  BY <1>1 DEF StartProbe, Spawned
<1>2. ASSUME NotInstalled PROVE RunnerTypeOK'
  BY <1>2 DEF NotInstalled, Ends, Terminate
<1>3. ASSUME ProbeEnds PROVE RunnerTypeOK'
  <2>1. left > 0
    BY <1>3 DEF ProbeEnds, Probing, TreeInv
  <2> QED BY <1>3, <2>1 DEF ProbeEnds, Ends, Terminate, NextCandidate
<1>4. ASSUME Configure PROVE RunnerTypeOK'
  BY <1>4 DEF Configure, Adapter, claudeAdapter, codexAdapter, grokAdapter
<1>5. ASSUME Spawn PROVE RunnerTypeOK'
  BY <1>5 DEF Spawn, Spawned
<1>6. ASSUME Feed PROVE RunnerTypeOK'
  BY <1>6 DEF Feed
<1>7. ASSUME FeedDone PROVE RunnerTypeOK'
  BY <1>7 DEF FeedDone
<1>8. ASSUME FeedBroken PROVE RunnerTypeOK'
  BY <1>8 DEF FeedBroken, Concludes, Terminate, Ends
<1>9. ASSUME Join PROVE RunnerTypeOK'
  BY <1>9 DEF Join, Concludes, Terminate, Ends, Outcome, Extracted
<1>10. ASSUME TimeOut PROVE RunnerTypeOK'
  BY <1>10 DEF TimeOut, Concludes, Terminate, Ends
<1>11. ASSUME NEW c \in Channel, ReadChunk(c) PROVE RunnerTypeOK'
  BY <1>11 DEF ReadChunk
<1>12. ASSUME NEW c \in Channel, ReadTooMuch(c) PROVE RunnerTypeOK'
  BY <1>12 DEF ReadTooMuch, Concludes, Terminate, Ends
<1>13. ASSUME ProbeBreaks PROVE RunnerTypeOK'
  <2>1. left > 0
    BY <1>13 DEF ProbeBreaks, Probing, TreeInv
  <2>2. strays' \in 0 .. Candidates
    <3>1. strays \in Nat /\ left \in Nat /\ Candidates \in Nat /\ strays <= Candidates - left
      BY <1>13 DEF ProbeBreaks, Probing, StrayInv, Searching
    <3>2. strays' = strays \/ strays' = strays + 1
      BY <1>13 DEF ProbeBreaks
    <3> QED BY ONLY <2>1, <3>1, <3>2
  <2> QED BY <1>13, <2>1, <2>2 DEF ProbeBreaks, NextCandidate
<1>14. ASSUME ConfigureFails PROVE RunnerTypeOK'
  BY <1>14 DEF ConfigureFails, Ends
<1>15. ASSUME SpawnFails PROVE RunnerTypeOK'
  BY <1>15 DEF SpawnFails, Ends
<1>16. ASSUME ReadBadLine PROVE RunnerTypeOK'
  BY <1>16 DEF ReadBadLine, Concludes, Terminate, Ends
<1>17. ASSUME Cancel PROVE RunnerTypeOK'
  <2>1. CASE runStage \in {"feed", "execute"} /\ Concludes("cancelled")
    BY <2>1 DEF Concludes, Terminate, Ends
  <2>2. CASE UNCHANGED <<runStage, left, processVars, kept, strays>>
    BY <2>2
  <2> QED BY <1>17, <2>1, <2>2 DEF Cancel
<1>18. ASSUME CliReads PROVE RunnerTypeOK'
  BY <1>18 DEF CliReads
<1>19. ASSUME CliForks PROVE RunnerTypeOK'
  BY <1>19 DEF CliForks
<1>20. ASSUME CliExits PROVE RunnerTypeOK'
  BY <1>20 DEF CliExits
<1>21. ASSUME HelperExits PROVE RunnerTypeOK'
  BY <1>21 DEF HelperExits
<1>22. ASSUME Expire PROVE RunnerTypeOK'
  BY <1>22 DEF Expire, Underway, Probing
<1>23. ASSUME CoreKilled PROVE RunnerTypeOK'
  BY <1>23 DEF CoreKilled
<1>24. ASSUME NEW c \in Channel, TreeWrites(c) PROVE RunnerTypeOK'
  BY <1>24 DEF TreeWrites, Probing, Underway
<1>25. ASSUME ProbeNotStarted PROVE RunnerTypeOK'
  <2>1. left > 0
    BY <1>25 DEF ProbeNotStarted, TreeInv
  <2> QED BY <1>25, <2>1 DEF ProbeNotStarted, NextCandidate
<1>26. ASSUME StrayEnds PROVE RunnerTypeOK'
  <2>1. strays' \in 0 .. Candidates
    BY <1>26 DEF StrayEnds
  <2> QED BY <1>26, <2>1 DEF StrayEnds
<1> QED BY <1>1, <1>2, <1>3, <1>4, <1>5, <1>6, <1>7, <1>8, <1>9, <1>10, <1>11, <1>12, <1>13, <1>14,
    <1>15, <1>16, <1>17, <1>18, <1>19, <1>20, <1>21, <1>22, <1>23, <1>24, <1>25, <1>26
    DEF RunnerNext, RunnerStep

(* The tree is ended before the run is.                                     *)
LEMMA TreeStep ==
  ASSUME RunnerInv, RunnerNext
  PROVE  TreeInv'
<1> USE RunnerFacts DEF RunnerInv, RunnerTypeOK, setting, processVars, TreeInv
<1>1. ASSUME StartProbe PROVE TreeInv'
  BY <1>1 DEF StartProbe, Spawned
<1>2. ASSUME NotInstalled PROVE TreeInv'
  BY <1>2 DEF NotInstalled, Ends, Terminate
<1>3. ASSUME ProbeEnds PROVE TreeInv'
  BY <1>3 DEF ProbeEnds, Ends, Terminate, NextCandidate, Probing
<1>4. ASSUME Configure PROVE TreeInv'
  BY <1>4 DEF Configure, Adapter, claudeAdapter, codexAdapter, grokAdapter
<1>5. ASSUME Spawn PROVE TreeInv'
  BY <1>5 DEF Spawn, Spawned
<1>6. ASSUME Feed PROVE TreeInv'
  BY <1>6 DEF Feed
<1>7. ASSUME FeedDone PROVE TreeInv'
  BY <1>7 DEF FeedDone
<1>8. ASSUME FeedBroken PROVE TreeInv'
  BY <1>8 DEF FeedBroken, Concludes, Terminate, Ends
<1>9. ASSUME Join PROVE TreeInv'
  BY <1>9 DEF Join, Concludes, Terminate, Ends, Outcome, Extracted
<1>10. ASSUME TimeOut PROVE TreeInv'
  BY <1>10 DEF TimeOut, Concludes, Terminate, Ends
<1>11. ASSUME NEW c \in Channel, ReadChunk(c) PROVE TreeInv'
  BY <1>11 DEF ReadChunk
<1>12. ASSUME NEW c \in Channel, ReadTooMuch(c) PROVE TreeInv'
  BY <1>12 DEF ReadTooMuch, Concludes, Terminate, Ends
<1>13. ASSUME ProbeBreaks PROVE TreeInv'
  BY <1>13 DEF ProbeBreaks, NextCandidate, Probing
<1>14. ASSUME ConfigureFails PROVE TreeInv'
  BY <1>14 DEF ConfigureFails, Ends
<1>15. ASSUME SpawnFails PROVE TreeInv'
  BY <1>15 DEF SpawnFails, Ends
<1>16. ASSUME ReadBadLine PROVE TreeInv'
  BY <1>16 DEF ReadBadLine, Concludes, Terminate, Ends
<1>17. ASSUME Cancel PROVE TreeInv'
  BY <1>17 DEF Cancel, Concludes, Terminate, Ends, Probing
<1>18. ASSUME CliReads PROVE TreeInv'
  BY <1>18 DEF CliReads
<1>19. ASSUME CliForks PROVE TreeInv'
  BY <1>19 DEF CliForks
<1>20. ASSUME CliExits PROVE TreeInv'
  BY <1>20 DEF CliExits
<1>21. ASSUME HelperExits PROVE TreeInv'
  BY <1>21 DEF HelperExits
<1>22. ASSUME Expire PROVE TreeInv'
  BY <1>22 DEF Expire, Underway, Probing
<1>23. ASSUME CoreKilled PROVE TreeInv'
  BY <1>23 DEF CoreKilled
<1>24. ASSUME NEW c \in Channel, TreeWrites(c) PROVE TreeInv'
  BY <1>24 DEF TreeWrites, Probing, Underway
<1>25. ASSUME ProbeNotStarted PROVE TreeInv'
  BY <1>25 DEF ProbeNotStarted, NextCandidate
<1>26. ASSUME StrayEnds PROVE TreeInv'
  BY <1>26 DEF StrayEnds
<1> QED BY <1>1, <1>2, <1>3, <1>4, <1>5, <1>6, <1>7, <1>8, <1>9, <1>10, <1>11, <1>12, <1>13, <1>14,
    <1>15, <1>16, <1>17, <1>18, <1>19, <1>20, <1>21, <1>22, <1>23, <1>24, <1>25, <1>26
    DEF RunnerNext, RunnerStep

(* A candidate that left its group behind is not the one that is run.       *)
LEMMA StrayStep ==
  ASSUME RunnerInv, RunnerNext
  PROVE  StrayInv'
<1>1. /\ strays \in Nat /\ left \in Nat /\ Candidates \in Nat /\ StrayInv /\ TreeInv
  BY RunnerFacts DEF RunnerInv, RunnerTypeOK
<1>2. CASE ProbeBreaks \/ ProbeNotStarted
  <2>1. /\ Searching /\ left > 0 /\ left' = left - 1 /\ runStage' = "probe" /\ UNCHANGED verdict
    BY <1>1, <1>2 DEF ProbeBreaks, ProbeNotStarted, NextCandidate, Probing, Searching, TreeInv
  <2>2. strays' = strays \/ strays' = strays + 1
    <3>1. ASSUME ProbeBreaks PROVE strays' = strays \/ strays' = strays + 1
      <4>1. strays' = strays + (IF alive # {} THEN 1 ELSE 0) /\ strays \in Nat
        BY <1>1, <3>1 DEF ProbeBreaks
      <4> QED BY ONLY <4>1
    <3>2. ASSUME ProbeNotStarted PROVE strays' = strays \/ strays' = strays + 1
      BY <3>2 DEF ProbeNotStarted
    <3> QED BY <1>2, <3>1, <3>2
  <2>3. verdict = ""
    BY <1>1, <2>1 DEF Searching, TreeInv
  <2>4. ~Chosen'
    BY <2>1, <2>3 DEF Chosen
  <2>5. left <= Candidates /\ strays <= Candidates - left
    BY <1>1, <2>1 DEF StrayInv
  <2>6. left' <= Candidates /\ strays' <= Candidates - left'
    <3>1. /\ strays \in Nat /\ left \in Nat /\ Candidates \in Nat /\ left > 0
          /\ left' = left - 1
      BY <1>1, <2>1
    <3> QED BY ONLY <2>2, <2>5, <3>1
  <2> QED BY <2>4, <2>6 DEF StrayInv
<1>3. CASE ProbeEnds
  <2>1. Searching /\ left > 0 /\ UNCHANGED strays /\ verdict = ""
    BY <1>1, <1>3 DEF ProbeEnds, Probing, Searching, TreeInv
  <2>2. \/ left' = left - 1 /\ runStage' = "probe" /\ UNCHANGED verdict
        \/ left' = left /\ runStage' = "probeSandbox" /\ UNCHANGED verdict
        \/ runStage' = "done" /\ verdict' = "cancelled"
        \/ runStage' = "configure" /\ UNCHANGED verdict
    BY <1>3 DEF ProbeEnds, NextCandidate, Ends
  <2>3. left <= Candidates /\ strays <= Candidates - left
    BY <1>1, <2>1 DEF StrayInv
  <2>6. /\ strays \in Nat /\ left \in Nat /\ Candidates \in Nat /\ left > 0
        /\ strays' = strays
    BY <1>1, <2>1
  <2>4. ASSUME Searching' PROVE left' <= Candidates /\ strays' <= Candidates - left'
    <3>1. left' = left - 1 \/ left' = left
      BY <2>2, <2>4 DEF Searching
    <3> QED BY ONLY <2>3, <2>6, <3>1
  <2>5. ASSUME Chosen' PROVE strays' < Candidates
    BY ONLY <2>3, <2>6
  <2> QED BY <2>4, <2>5 DEF StrayInv
<1>4. CASE StartProbe
  <2>1. /\ Searching /\ UNCHANGED <<left, strays, verdict>> /\ verdict = ""
        /\ runStage' \in {"probing", "probingSandbox"}
    BY <1>1, <1>4 DEF StartProbe, Searching, TreeInv
  <2> QED BY ONLY <1>1, <2>1 DEF StrayInv, Searching, Chosen
<1>5. CASE NotInstalled
  <2>1. runStage' = "done" /\ verdict' \in {"cancelled", "notInstalled"}
    BY <1>5 DEF NotInstalled, Ends
  <2> QED BY ONLY <2>1 DEF StrayInv, Searching, Chosen
<1>6. CASE StrayEnds
  <2>1. UNCHANGED <<runStage, left, verdict>> /\ strays > 0 /\ strays' = strays - 1
    BY <1>6 DEF StrayEnds
  <2> QED BY ONLY <1>1, <2>1 DEF StrayInv, Searching, Chosen
<1>7. CASE CoreKilled
  <2>1. runStage' = "done" /\ verdict' = "killed"
    BY <1>7 DEF CoreKilled
  <2> QED BY ONLY <2>1 DEF StrayInv, Searching, Chosen
<1>8. ASSUME \/ Configure \/ ConfigureFails \/ Spawn \/ SpawnFails \/ Feed \/ FeedDone
             \/ FeedBroken \/ Join \/ TimeOut \/ ReadBadLine
             \/ \E c \in Channel : ReadChunk(c) \/ ReadTooMuch(c)
             \/ runStage \in {"feed", "execute"} /\ Concludes("cancelled")
      PROVE  StrayInv'
  <2>1. /\ runStage \in {"configure", "spawn", "feed", "execute"} /\ UNCHANGED strays
        /\ runStage' \in {"configure", "spawn", "feed", "execute", "done"}
    BY <1>8 DEF Configure, ConfigureFails, Spawn, SpawnFails, Feed, FeedDone, FeedBroken, Join,
        TimeOut, ReadBadLine, ReadChunk, ReadTooMuch, Concludes, Ends
  <2> QED BY ONLY <1>1, <2>1 DEF StrayInv, Searching, Chosen
<1>9. ASSUME \/ CliReads \/ CliForks \/ CliExits \/ HelperExits \/ Expire
             \/ \E c \in Channel : TreeWrites(c)
             \/ UNCHANGED <<runStage, left, strays, verdict>>
      PROVE  StrayInv'
  <2>1. UNCHANGED <<runStage, left, strays, verdict>>
    BY <1>9 DEF CliReads, CliForks, CliExits, HelperExits, Expire, TreeWrites
  <2> QED BY ONLY <1>1, <2>1 DEF StrayInv, Searching, Chosen
<1> QED BY <1>2, <1>3, <1>4, <1>5, <1>6, <1>7, <1>8, <1>9 DEF RunnerNext, RunnerStep, Cancel

(* A run is accepted when its pipes are empty.                              *)
LEMMA PipeStep ==
  ASSUME RunnerInv, RunnerNext
  PROVE  PipeInv'
<1> USE RunnerFacts DEF RunnerInv, RunnerTypeOK, setting, processVars, TreeInv, PipeInv,
    AcceptedWhole
<1>1. ASSUME StartProbe PROVE PipeInv'
  BY <1>1 DEF StartProbe, Spawned
<1>2. ASSUME NotInstalled PROVE PipeInv'
  BY <1>2 DEF NotInstalled, Ends, Terminate
<1>3. ASSUME ProbeEnds PROVE PipeInv'
  BY <1>3 DEF ProbeEnds, Ends, Terminate, NextCandidate, Probing
<1>4. ASSUME Configure PROVE PipeInv'
  BY <1>4 DEF Configure, Adapter, claudeAdapter, codexAdapter, grokAdapter
<1>5. ASSUME Spawn PROVE PipeInv'
  <2>1. written' = Empty /\ pipe' = Empty /\ kept' = kept /\ kept = Empty /\ verdict' = verdict
        /\ runStage' \in {"feed", "execute"} /\ verdict = ""
    BY <1>5 DEF Spawn, Spawned
  <2>2. ASSUME NEW c \in Channel PROVE written'[c] = kept'[c] + pipe'[c]
    <3>1. Empty[c] = 0
      BY RunnerFacts
    <3>2. written'[c] = 0 /\ kept'[c] = 0 /\ pipe'[c] = 0
      BY <2>1, <3>1
    <3> QED BY ONLY <3>2
  <2> QED BY ONLY <2>1, <2>2 DEF PipeInv, AcceptedWhole
<1>6. ASSUME Feed PROVE PipeInv'
  BY <1>6 DEF Feed
<1>7. ASSUME FeedDone PROVE PipeInv'
  BY <1>7 DEF FeedDone
<1>8. ASSUME FeedBroken PROVE PipeInv'
  BY <1>8 DEF FeedBroken, Concludes, Terminate, Ends
<1>9. ASSUME Join PROVE PipeInv'
  <2>1. runStage' = "done" /\ UNCHANGED <<status, said, written, kept>> /\ verdict' = Outcome
        /\ runStage = "execute" /\ pipe = Empty
    BY <1>9 DEF Join, Concludes, Ends
  <2>2. ASSUME NEW c \in Channel PROVE written[c] = kept[c]
    <3>1. written[c] = kept[c] + Empty[c] /\ Empty[c] = 0
      BY <2>1, RunnerFacts
    <3>2. kept[c] \in Nat
      BY RunnerNumbers
    <3> QED BY ONLY <3>1, <3>2
  <2>3. kept \in [Channel -> Nat] /\ written \in [Channel -> Nat]
    BY RunnerNumbers
  <2>4. kept = written
    BY ONLY <2>2, <2>3
  <2>5. Outcome = "accepted" => status = "ok" /\ said # "nothing"
    BY DEF Outcome, Extracted
  <2> QED BY ONLY <2>1, <2>4, <2>5 DEF PipeInv, AcceptedWhole
<1>10. ASSUME TimeOut PROVE PipeInv'
  BY <1>10 DEF TimeOut, Concludes, Terminate, Ends
<1>11. ASSUME NEW c \in Channel, ReadChunk(c) PROVE PipeInv'
  <2>1. /\ pipe' = [pipe EXCEPT ![c] = @ - 1] /\ kept' = [kept EXCEPT ![c] = @ + 1]
        /\ UNCHANGED <<runStage, written, verdict>> /\ runStage = "execute" /\ verdict = ""
    BY <1>11 DEF ReadChunk
  <2>2. pipe \in [Channel -> Nat] /\ kept \in [Channel -> Nat]
    BY RunnerNumbers
  <2>3. pipe[c] > 0 /\ \A d \in Channel : written[d] = kept[d] + pipe[d]
    BY <1>11, <2>1 DEF ReadChunk
  <2>4. ASSUME NEW d \in Channel PROVE written'[d] = kept'[d] + pipe'[d]
    <3>1. CASE d = c
      <4>1. kept'[c] = kept[c] + 1 /\ pipe'[c] = pipe[c] - 1 /\ written'[c] = kept[c] + pipe[c]
        BY ONLY <2>1, <2>2, <2>3, c \in Channel
      <4> QED BY ONLY <2>2, <2>3, <3>1, <4>1, c \in Channel
    <3>2. CASE d # c
      BY ONLY <2>1, <2>2, <2>3, <3>2, d \in Channel
    <3> QED BY <3>1, <3>2
  <2> QED BY ONLY <2>1, <2>4 DEF PipeInv, AcceptedWhole
<1>12. ASSUME NEW c \in Channel, ReadTooMuch(c) PROVE PipeInv'
  BY <1>12 DEF ReadTooMuch, Concludes, Terminate, Ends
<1>13. ASSUME ProbeBreaks PROVE PipeInv'
  BY <1>13 DEF ProbeBreaks, NextCandidate, Probing
<1>14. ASSUME ConfigureFails PROVE PipeInv'
  BY <1>14 DEF ConfigureFails, Ends
<1>15. ASSUME SpawnFails PROVE PipeInv'
  BY <1>15 DEF SpawnFails, Ends
<1>16. ASSUME ReadBadLine PROVE PipeInv'
  BY <1>16 DEF ReadBadLine, Concludes, Terminate, Ends
<1>17. ASSUME Cancel PROVE PipeInv'
  BY <1>17 DEF Cancel, Concludes, Terminate, Ends, Probing
<1>18. ASSUME CliReads PROVE PipeInv'
  BY <1>18 DEF CliReads
<1>19. ASSUME CliForks PROVE PipeInv'
  BY <1>19 DEF CliForks
<1>20. ASSUME CliExits PROVE PipeInv'
  BY <1>20 DEF CliExits
<1>21. ASSUME HelperExits PROVE PipeInv'
  BY <1>21 DEF HelperExits
<1>22. ASSUME Expire PROVE PipeInv'
  BY <1>22 DEF Expire, Underway, Probing
<1>23. ASSUME CoreKilled PROVE PipeInv'
  BY <1>23 DEF CoreKilled
<1>24. ASSUME NEW c \in Channel, TreeWrites(c) PROVE PipeInv'
  <2>1. UNCHANGED <<runStage, kept, verdict>> /\ verdict = ""
    BY <1>24 DEF TreeWrites, Underway, Probing
  <2>2. CASE Probing
    BY ONLY <2>1, <2>2, PipeInv DEF PipeInv, AcceptedWhole, Probing
  <2>3. CASE ~Probing
    <3>1. /\ written' = [written EXCEPT ![c] = @ + 1] /\ pipe' = [pipe EXCEPT ![c] = @ + 1]
          /\ runStage \in {"feed", "execute"}
      BY <1>24, <2>3 DEF TreeWrites, Underway
    <3>2. pipe \in [Channel -> Nat] /\ kept \in [Channel -> Nat] /\ written \in [Channel -> Nat]
      BY RunnerNumbers
    <3>3. \A d \in Channel : written[d] = kept[d] + pipe[d]
      BY <3>1
    <3>4. ASSUME NEW d \in Channel PROVE written'[d] = kept[d] + pipe'[d]
      BY ONLY <3>1, <3>2, <3>3, c \in Channel, d \in Channel
    <3> QED BY ONLY <2>1, <3>4, PipeInv DEF PipeInv, AcceptedWhole
  <2> QED BY <2>2, <2>3
<1>25. ASSUME ProbeNotStarted PROVE PipeInv'
  BY <1>25 DEF ProbeNotStarted, NextCandidate
<1>26. ASSUME StrayEnds PROVE PipeInv'
  BY <1>26 DEF StrayEnds
<1> QED BY <1>1, <1>2, <1>3, <1>4, <1>5, <1>6, <1>7, <1>8, <1>9, <1>10, <1>11, <1>12, <1>13, <1>14,
    <1>15, <1>16, <1>17, <1>18, <1>19, <1>20, <1>21, <1>22, <1>23, <1>24, <1>25, <1>26
    DEF RunnerNext, RunnerStep

(* provider/runner.rs and the adapters, for any number of candidates, size  *)
(* of prompt, pipes and output: a run that is not killed with its core      *)
(* leaves no process of its group and no directory, only probes of refused  *)
(* candidates can leave theirs, and it accepts only complete results.       *)
THEOREM RunsLeaveNothing == AnalysisSpec => []RunnerSound
<1>1. AnalysisInit => RunnerInv
  BY RunnerStart DEF AnalysisInit
<1>2. RunnerInv /\ [AnalysisNext]_analysisVars => RunnerInv'
  <2> SUFFICES ASSUME RunnerInv, [AnalysisNext]_analysisVars PROVE RunnerInv'
    OBVIOUS
  <2>1. CASE RunnerNext
    BY <2>1, RunnerTypeStep, TreeStep, StrayStep, PipeStep DEF RunnerInv
  <2>2. CASE UNCHANGED runnerVars
    BY <2>2 DEF runnerVars, RunnerInv, RunnerTypeOK, TreeInv, StrayInv, Searching, Chosen, PipeInv,
        AcceptedWhole
  <2> QED BY <2>1, <2>2, AnalysisStep
<1>3. RunnerInv => RunnerSound
  BY DEF RunnerInv, TreeInv, StrayInv, PipeInv, NothingLeft, RunnerSound
<1> QED BY <1>1, <1>2, <1>3, PTL DEF AnalysisSpec

-----------------------------------------------------------------------------
(* The scan.                                                                *)

BatchResult == Values \cup Errors \cup {""}

\* Which batches and results there are in a round.
BatchTypes ==
    /\ ScanTypeOK /\ goals \in Nat /\ inWorkspace \in BOOLEAN
    /\ attempt = 0 => waiting = {} /\ flying = {}
    /\ attempt > 0 => first \in [Batches -> BatchResult] /\ second \in [Batches -> BatchResult]
    /\ scanStage = "batches" => attempt > 0
    /\ scanStage \in {"goals", "start", "map", "prepare"} => attempt = 0

\* The second round runs the retries and nothing else.
Retried == {b \in Batches : second[b] # ""}
RoundInv ==
    /\ Cardinality(flying) <= Concurrency /\ waiting \cap flying = {}
    /\ attempt = 1 => Retried = {}
    /\ attempt = 2 => waiting \cup flying \cup Retried \subseteq Retries

\* The start and the map come before the batches, and the report after them:
\* it is the merge of what they returned.
Begun == "analysis" \in started /\ (earlier => "repeat" \in started)
StageInv ==
    /\ scanStage \in {"goals", "start"} => started = {}
    /\ inWorkspace /\ scanStage \in {"map", "prepare", "batches", "save", "marks"} => Begun
    /\ inWorkspace /\ scanStage \in {"prepare", "batches", "save", "marks"}
          => map \in {"seeded", "unsaved", "missing"}
    /\ reply # "" => scanStage = "answered"
    /\ scanStage \notin {"marks", "answered"} => saved = {}
    /\ scanStage = "marks" => saved = {"report"} /\ inWorkspace
    /\ scanStage \in {"save", "marks"} => report # NoReport

ReportInv ==
    report # NoReport =>
        /\ report = Materialized /\ attempt = 2 /\ scanStage \in {"save", "marks", "answered"}
        /\ inWorkspace => map \in {"seeded", "unsaved", "missing"}
        /\ \A b \in Batches : ~Fatal(Result(b))

FatalInv == reply = "provider_failed" => \E b \in Batches : "fatal" \in {first[b], second[b]}

ScanInv == BatchTypes /\ RoundInv /\ StageInv /\ ReportInv /\ FatalInv /\ SavedWasStarted

LessNat == {ss \in Nat \X Nat : ss[1] < ss[2]}

(* A set of natural numbers that is not empty has a least element.          *)
LEMMA Least ==
  ASSUME NEW T \in SUBSET Nat, T # {}
  PROVE  \E m \in T : \A k \in T : m <= k
<1>1. OpToRel(<, Nat) = LessNat
  BY Zenon DEF OpToRel, LessNat
<1>2. IsWellFoundedOn(LessNat, Nat)
  BY <1>1, NatLessThanWellFounded, Zenon DEF OpToRel, LessNat
<1>3. PICK m \in T : \A y \in T : ~ (<<y, m>> \in LessNat)
  BY <1>2, WFMin
<1>4. \A y \in T : ~ (y < m)
  BY <1>3 DEF LessNat
<1> QED BY <1>4

(* The batch of a goal is one of the batches: the ranges of                 *)
(* provider_batch_ranges cover every goal.                                  *)
LEMMA GoalHasBatch ==
  ASSUME goals \in Nat
  PROVE  /\ BatchCount \in Nat
         /\ \A g \in 1 .. goals : BatchOf(g) \in Batches /\ g \in GoalsOf(BatchOf(g))
<1>1. BatchCount \in Nat
  <2>1. \A a \in Nat, p \in Nat \ {0} : a \div p \in Nat
    OBVIOUS
  <2>2. goals + PerBatch - 1 \in Nat
    BY ScanAssumption
  <2> QED BY <2>1, <2>2, ScanAssumption DEF BatchCount
<1>2. ASSUME NEW g \in 1 .. goals PROVE BatchOf(g) \in Batches
  <2> DEFINE p == PerBatch
             q == (g - 1) \div p
             r == (goals + p - 1) \div p
  <2>1. p \in Nat \ {0} /\ g \in Nat /\ 1 <= g /\ g <= goals
    BY <1>2, ScanAssumption
  <2> HIDE DEF p
  <2>2. q \in Nat /\ r \in Nat /\ p * q <= g - 1 /\ goals + p - 1 < p * (r + 1)
    BY ONLY <2>1, goals \in Nat
  <2> HIDE DEF q, r
  <2>3. p * (q + 1) = p * q + p /\ p * (q + 1) \in Nat /\ p * (r + 1) \in Nat
    BY ONLY <2>1, <2>2
  <2>4. p * (q + 1) < p * (r + 1)
    BY ONLY <2>1, <2>2, <2>3, goals \in Nat
  <2>5. q + 1 < r + 1
    BY ONLY <2>1, <2>2, <2>4
  <2>6. q + 1 \in 1 .. r
    BY ONLY <2>2, <2>5
  <2> QED BY <2>6 DEF p, q, r, BatchOf, Batches, BatchCount
<1> QED BY <1>1, <1>2 DEF GoalsOf

(* The batches are finitely many numbers.                                   *)
LEMMA BatchesFinite ==
  ASSUME goals \in Nat
  PROVE  /\ IsFiniteSet(Batches) /\ Batches \in SUBSET Nat
         /\ \A S \in SUBSET Batches : IsFiniteSet(S) /\ Cardinality(S) \in Nat
<1>1. IsFiniteSet(Batches) /\ Batches \in SUBSET Nat
  BY GoalHasBatch, FS_Interval DEF Batches
<1> QED BY <1>1, FS_Subset, FS_CardinalityType

(* Of some batches one is the greatest.                                     *)
LEMMA GreatestBatch ==
  ASSUME goals \in Nat, NEW T \in SUBSET Batches, T # {}
  PROVE  \E x \in T : \A y \in T : y <= x
<1> DEFINE back == {BatchCount - b : b \in T}
<1>1. BatchCount \in Nat /\ \A b \in T : b \in Nat /\ b <= BatchCount
  BY GoalHasBatch DEF Batches
<1>2. back \in SUBSET Nat /\ back # {}
  BY <1>1
<1>3. PICK n \in back : \A k \in back : n <= k
  BY <1>2, Least
<1>4. PICK x \in T : BatchCount - x = n
  BY <1>3
<1>5. \A y \in T : n <= BatchCount - y
  BY <1>3
<1> QED BY <1>1, <1>4, <1>5

(* The retries are bounded by their limit, and each needs one.              *)
LEMMA RetriesBounded ==
  ASSUME goals \in Nat
  PROVE  /\ Retries \in SUBSET Batches /\ \A b \in Retries : NeedsRetry(first[b])
         /\ Cardinality(Retries) \in Nat /\ Cardinality(Retries) <= RetryLimit
<1> DEFINE able == {b \in Batches : NeedsRetry(first[b])}
           Below(b) == {c \in able : c < b}
<1>1. Retries \in SUBSET able /\ able \in SUBSET Batches
  BY DEF Retries
<1>2. \A b \in Retries : Cardinality(Below(b)) < RetryLimit
  BY DEF Retries
<1>3. IsFiniteSet(Retries) /\ Cardinality(Retries) \in Nat
  BY <1>1, BatchesFinite
<1>4. CASE Retries = {}
  BY <1>1, <1>3, <1>4, FS_EmptySet, ScanAssumption
<1>5. CASE Retries # {}
  <2>1. PICK x \in Retries : \A y \in Retries : y <= x
    BY <1>1, <1>5, GreatestBatch
  <2>2. Retries \ {x} \in SUBSET Below(x) /\ Below(x) \in SUBSET Batches
    BY <1>1, <2>1, BatchesFinite
  <2>3. IsFiniteSet(Below(x)) /\ Cardinality(Below(x)) \in Nat
    BY <2>2, BatchesFinite
  <2>4. Cardinality(Retries \ {x}) <= Cardinality(Below(x))
    BY ONLY <2>2, <2>3, FS_Subset
  <2>5. Cardinality(Retries \ {x}) = Cardinality(Retries) - 1
    BY ONLY <1>3, <2>1, FS_RemoveElement
  <2>6. Cardinality(Retries) <= RetryLimit
    <3>1. Cardinality(Below(x)) < RetryLimit
      BY <1>2, <2>1
    <3> HIDE DEF Below
    <3> QED BY ONLY <1>3, <2>3, <2>4, <2>5, <3>1, ScanAssumption
  <2> QED BY <1>1, <1>3, <2>6
<1> QED BY <1>4, <1>5

(* A scan keeps its goals, so it keeps its batches; and what the merge      *)
(* computes changes only with the results.                                  *)
LEMMA ScanFixed ==
  ASSUME ScanNext
  PROVE  /\ goals' = goals /\ inWorkspace' = inWorkspace /\ earlier' = earlier
         /\ Batches' = Batches
         /\ UNCHANGED <<map, batchVars>> =>
              /\ Materialized' = Materialized
              /\ \A b \in Batches : (Result(b))' = Result(b)
         /\ UNCHANGED first => Retries' = Retries
         /\ UNCHANGED second => Retried' = Retried
<1>1. goals' = goals /\ inWorkspace' = inWorkspace /\ earlier' = earlier
  BY DEF ScanNext, ApplyApprovedGoals, RecordStarted, EnsureMap, Prepare, StartBatch, BatchEnds,
      BeginRetries, Merge, AnswerUnsaved, AppendReport, AppendMarks, ScanKilled, scanSetting
<1>2. Batches' = Batches
  BY <1>1 DEF Batches, BatchCount
<1>3. UNCHANGED first => Retries' = Retries
  BY <1>2 DEF Retries
<1>4. UNCHANGED second => Retried' = Retried
  BY <1>2 DEF Retried
<1>5. ASSUME UNCHANGED <<map, batchVars>>
      PROVE  /\ Materialized' = Materialized
             /\ \A b \in Batches : (Result(b))' = Result(b)
  BY <1>1, <1>2, <1>5 DEF batchVars, Materialized, Result, Merged, GoalsOf, LastGoal, Degraded,
      BatchOf
<1> QED BY <1>1, <1>2, <1>3, <1>4, <1>5

(* Nothing has happened.                                                    *)
LEMMA ScanStart == ScanInit => ScanInv
<1> SUFFICES ASSUME ScanInit PROVE ScanInv
  OBVIOUS
<1> /\ scanStage = "goals" /\ goals \in 0 .. MaxGoals /\ attempt = 0 /\ inWorkspace \in BOOLEAN
    /\ waiting = {} /\ flying = {} /\ started = {} /\ saved = {} /\ report = NoReport
  BY DEF ScanInit
<1>5. reply = ""
  BY DEF ScanInit
<1>1. BatchTypes
  BY ScanAssumption DEF BatchTypes, ScanTypeOK
<1>2. RoundInv
  <2>1. Cardinality(flying) = 0
    BY FS_EmptySet
  <2>2. Cardinality(flying) <= Concurrency
    BY <2>1, ScanAssumption
  <2> QED BY <2>2 DEF RoundInv
<1>3. StageInv /\ ReportInv /\ FatalInv
  BY <1>5 DEF StageInv, ReportInv, FatalInv
<1>4. SavedWasStarted
  <2>1. ~(attempt > 0)
    OBVIOUS
  <2>2. reply # "ok" /\ started = {} /\ saved = {}
    BY ONLY <1>5, started = {}, saved = {}
  <2> QED BY ONLY <2>1, <2>2 DEF SavedWasStarted
<1> QED BY <1>1, <1>2, <1>3, <1>4 DEF ScanInv

(* Every round runs batches of the scan, and each returns a result.         *)
LEMMA ScanTypeStep ==
  ASSUME ScanInv, ScanNext
  PROVE  BatchTypes'
<1> USE ScanFixed DEF ScanInv, BatchTypes, ScanTypeOK, batchVars, scanSetting
<1>1. ASSUME ApplyApprovedGoals PROVE BatchTypes'
  BY <1>1 DEF ApplyApprovedGoals, Goes, Replies
<1>2. ASSUME RecordStarted PROVE BatchTypes'
  BY <1>2 DEF RecordStarted, Goes, Replies
<1>3. ASSUME EnsureMap PROVE BatchTypes'
  BY <1>3 DEF EnsureMap, Goes, Replies
<1>4. ASSUME Prepare PROVE BatchTypes'
  <2>1. flying' = {} /\ attempt = 0
    BY <1>4 DEF Prepare
  <2>4. UNCHANGED <<started, saved>> /\ started' \subseteq {"analysis", "repeat"}
        /\ saved' \subseteq {"report", "marks"}
    BY <1>4 DEF Prepare
  <2>2. CASE UNCHANGED <<attempt, waiting>> /\ scanStage' = "answered"
    BY <2>1, <2>2, <2>4
  <2>3. CASE /\ attempt' = 1 /\ waiting' = Batches /\ scanStage' = "batches"
             /\ first' = [b \in Batches |-> ""] /\ second' = [b \in Batches |-> ""]
    <3>1. first' \in [Batches -> BatchResult] /\ second' \in [Batches -> BatchResult]
      BY <2>3 DEF BatchResult
    <3>2. attempt' = 1 /\ waiting' = Batches /\ scanStage' = "batches"
      BY <2>3
    <3>3. Batches' = Batches /\ goals' \in Nat /\ inWorkspace' \in BOOLEAN
      OBVIOUS
    <3> QED BY ONLY <2>1, <2>4, <3>1, <3>2, <3>3 DEF BatchTypes, ScanTypeOK
  <2> QED BY <1>4, <2>2, <2>3 DEF Prepare, Goes, Replies
<1>5. ASSUME StartBatch PROVE BatchTypes'
  BY <1>5 DEF StartBatch
<1>6. ASSUME NEW b \in flying, NEW r \in Values \cup Errors, BatchEnds(b, r) PROVE BatchTypes'
  <2>1. b \in Batches /\ r \in BatchResult /\ attempt > 0
    BY <1>6 DEF BatchEnds, BatchResult
  <2>2. first' \in [Batches -> BatchResult] /\ second' \in [Batches -> BatchResult]
    BY <1>6, <2>1 DEF BatchEnds
  <2> QED BY <1>6, <2>2 DEF BatchEnds
<1>7. ASSUME BeginRetries PROVE BatchTypes'
  <2>1. Retries \in SUBSET Batches
    BY RetriesBounded
  <2> QED BY <1>7, <2>1 DEF BeginRetries
<1>8. ASSUME Merge PROVE BatchTypes'
  BY <1>8 DEF Merge, Goes, Replies
<1>9. ASSUME AnswerUnsaved PROVE BatchTypes'
  BY <1>9 DEF AnswerUnsaved, Goes, Replies
<1>11. ASSUME AppendReport PROVE BatchTypes'
  BY <1>11 DEF AppendReport, Goes, Replies
<1>12. ASSUME AppendMarks PROVE BatchTypes'
  BY <1>12 DEF AppendMarks, Goes, Replies
<1>10. ASSUME ScanKilled PROVE BatchTypes'
  BY <1>10 DEF ScanKilled, Goes, Replies
<1> QED BY <1>1, <1>2, <1>3, <1>4, <1>5, <1>6, <1>7, <1>8, <1>9, <1>10,
    <1>11, <1>12 DEF ScanNext

(* A round has no more runs at a time than may be, and the second round     *)
(* runs retries only.                                                       *)
LEMMA RoundStep ==
  ASSUME ScanInv, ScanNext
  PROVE  RoundInv'
<1> USE ScanFixed DEF ScanInv, RoundInv, batchVars, scanSetting
<1>1. ASSUME ApplyApprovedGoals PROVE RoundInv'
  BY <1>1 DEF ApplyApprovedGoals
<1>2. ASSUME RecordStarted PROVE RoundInv'
  BY <1>2 DEF RecordStarted
<1>3. ASSUME EnsureMap PROVE RoundInv'
  BY <1>3 DEF EnsureMap
<1>4. ASSUME Prepare PROVE RoundInv'
  <2>1. flying' = flying /\ flying = {} /\ attempt = 0
    BY <1>4 DEF Prepare, BatchTypes
  <2>2. CASE UNCHANGED <<attempt, waiting>>
    BY <2>1, <2>2
  <2>3. CASE attempt' = 1 /\ second' = [b \in Batches |-> ""]
    <3>1. Retried' = {}
      BY <2>3 DEF Retried
    <3>2. attempt' = 1 /\ Cardinality(flying) <= Concurrency
      BY <2>3
    <3> QED BY ONLY <2>1, <3>1, <3>2 DEF RoundInv
  <2> QED BY <1>4, <2>2, <2>3 DEF Prepare
<1>5. ASSUME StartBatch PROVE RoundInv'
  <2>1. PICK b \in waiting : flying' = flying \cup {b} /\ waiting' = waiting \ {b}
    BY <1>5 DEF StartBatch
  <2>2. IsFiniteSet(flying) /\ Cardinality(flying) \in Nat /\ b \notin flying
    BY BatchesFinite DEF BatchTypes, ScanTypeOK
  <2>3. Cardinality(flying') = Cardinality(flying) + 1
    BY <2>1, <2>2, FS_AddElement
  <2>4. Cardinality(flying') <= Concurrency
    BY <1>5, <2>2, <2>3, ScanAssumption DEF StartBatch
  <2>5. UNCHANGED <<attempt, first, second>>
    BY <1>5 DEF StartBatch
  <2> QED BY <2>1, <2>4, <2>5
<1>6. ASSUME NEW b \in flying, NEW r \in Values \cup Errors, BatchEnds(b, r) PROVE RoundInv'
  <2>1. /\ flying' = flying \ {b} /\ UNCHANGED <<waiting, attempt>>
        /\ attempt = 1 => UNCHANGED second
        /\ attempt # 1 => UNCHANGED first /\ second' = [second EXCEPT ![b] = r]
    BY <1>6 DEF BatchEnds
  <2>2. Cardinality(flying') <= Concurrency
    <3>1. IsFiniteSet(flying) /\ Cardinality(flying) \in Nat
      BY BatchesFinite DEF BatchTypes, ScanTypeOK
    <3>2. Cardinality(flying') <= Cardinality(flying) /\ Cardinality(flying') \in Nat
      BY <2>1, <3>1, FS_Subset, FS_CardinalityType
    <3> QED BY <3>1, <3>2, ScanAssumption
  <2>3. CASE attempt = 1
    BY <2>1, <2>2, <2>3
  <2>4. CASE attempt = 2
    <3>1. Retried' \subseteq Retried \cup {b}
      <4>1. \A c \in Batches : c # b => second'[c] = second[c]
        BY <2>1, <2>4 DEF BatchTypes
      <4> QED BY <4>1 DEF Retried
    <3>2. Retries' = Retries
      BY <2>1, <2>4
    <3> QED BY <2>1, <2>2, <2>4, <3>1, <3>2
  <2> QED BY <2>1, <2>2, <2>3, <2>4 DEF BatchTypes, ScanTypeOK
<1>7. ASSUME BeginRetries PROVE RoundInv'
  <2>1. waiting' = Retries /\ flying = {} /\ attempt = 1 /\ attempt' = 2
        /\ UNCHANGED <<flying, first, second>>
    BY <1>7 DEF BeginRetries
  <2>2. Retries' = Retries /\ Retried' = Retried /\ Retried = {}
    BY <2>1
  <2> QED BY <2>1, <2>2
<1>8. ASSUME Merge PROVE RoundInv'
  BY <1>8 DEF Merge
<1>9. ASSUME AnswerUnsaved PROVE RoundInv'
  BY <1>9 DEF AnswerUnsaved
<1>11. ASSUME AppendReport PROVE RoundInv'
  BY <1>11 DEF AppendReport
<1>12. ASSUME AppendMarks PROVE RoundInv'
  BY <1>12 DEF AppendMarks
<1>10. ASSUME ScanKilled PROVE RoundInv'
  BY <1>10 DEF ScanKilled
<1> QED BY <1>1, <1>2, <1>3, <1>4, <1>5, <1>6, <1>7, <1>8, <1>9, <1>10,
    <1>11, <1>12 DEF ScanNext

(* What goes into the report of a batch is about goals of that batch.       *)
LEMMA MergedGoals ==
  /\ \A b : Merged(b) \subseteq GoalsOf(b)
  /\ \A b : Result(b) \in {"good", "copied", "bare"} => Merged(b) = GoalsOf(b)
  /\ \A b, g : g \in Merged(b) =>
        g \in 1 .. goals /\ BatchOf(g) = b /\ Result(b) \in {"good", "copied", "bare", "omits"}
<1>1. /\ \A b : Merged(b) \subseteq GoalsOf(b)
      /\ \A b : Result(b) \in {"good", "copied", "bare"} => Merged(b) = GoalsOf(b)
      /\ \A b, g : g \in Merged(b) => Result(b) \in {"good", "copied", "bare", "omits"}
  BY DEF Merged
<1> QED BY <1>1 DEF GoalsOf

(* The merge makes a report.                                                *)
LEMMA MergeMakesReport ==
  ASSUME goals \in Nat
  PROVE  Materialized \in Reports /\ Materialized # NoReport
<1> DEFINE assessed == UNION {Merged(b) : b \in Batches}
           grounded == {g \in assessed : Result(BatchOf(g)) # "bare"}
           worse == {b \in Batches : Degraded(b)}
<1>1. grounded \in SUBSET Nat /\ worse \in SUBSET Nat /\ (1 .. goals) \ grounded \in SUBSET Nat
  BY MergedGoals, BatchesFinite
<1>2. /\ Materialized.decided = grounded /\ Materialized.degraded = worse
      /\ Materialized.unverified = (1 .. goals) \ grounded
  BY DEF Materialized
<1> HIDE DEF grounded, worse
<1>3. Materialized \in Reports
  BY <1>1 DEF Materialized, Reports, grounded, worse
<1> QED BY <1>3, ScanAssumption

(* The scan goes through its stages in order.                               *)
LEMMA StageStep ==
  ASSUME ScanInv, ScanNext
  PROVE  StageInv' /\ SavedWasStarted'
<1> USE ScanFixed DEF ScanInv, BatchTypes, StageInv, Begun, SavedWasStarted, batchVars, scanSetting
<1>1. ASSUME ApplyApprovedGoals PROVE StageInv' /\ SavedWasStarted'
  BY <1>1 DEF ApplyApprovedGoals, Goes, Replies
<1>2. ASSUME RecordStarted PROVE StageInv' /\ SavedWasStarted'
  BY <1>2 DEF RecordStarted, Goes, Replies
<1>3. ASSUME EnsureMap PROVE StageInv' /\ SavedWasStarted'
  BY <1>3 DEF EnsureMap, Goes, Replies
<1>4. ASSUME Prepare PROVE StageInv' /\ SavedWasStarted'
  <2>1. UNCHANGED <<started, map, saved, report, reply, inWorkspace, earlier>> \/ scanStage' = "answered"
    BY <1>4 DEF Prepare, Goes, Replies
  <2> QED BY <1>4, <2>1 DEF Prepare, Goes, Replies
<1>5. ASSUME StartBatch PROVE StageInv' /\ SavedWasStarted'
  BY <1>5 DEF StartBatch
<1>6. ASSUME NEW b \in flying, NEW r \in Values \cup Errors, BatchEnds(b, r)
      PROVE StageInv' /\ SavedWasStarted'
  BY <1>6 DEF BatchEnds
<1>7. ASSUME BeginRetries PROVE StageInv' /\ SavedWasStarted'
  BY <1>7 DEF BeginRetries
<1>8. ASSUME Merge PROVE StageInv' /\ SavedWasStarted'
  <2>1. goals \in Nat
    BY DEF BatchTypes
  <2> QED BY <1>8, <2>1, MergeMakesReport DEF Merge, Goes, Replies
<1>9. ASSUME AnswerUnsaved PROVE StageInv' /\ SavedWasStarted'
  BY <1>9 DEF AnswerUnsaved, Replies
<1>11. ASSUME AppendReport PROVE StageInv' /\ SavedWasStarted'
  <2>1. /\ inWorkspace /\ scanStage = "save" /\ Begun /\ report # NoReport /\ attempt = 2
        /\ reply = "" /\ map \in {"seeded", "unsaved", "missing"}
    BY <1>11 DEF AppendReport, ReportInv
  <2>2. /\ UNCHANGED <<inWorkspace, earlier, started, report, attempt, map>>
        /\ \/ saved' = {"report"} /\ scanStage' = "marks" /\ reply' = ""
           \/ /\ saved' = {} \/ saved' = {"report"}
              /\ scanStage' = "answered" /\ reply' = "report_persistence_failed"
    BY <1>11, <2>1 DEF AppendReport, Goes, Replies
  <2> QED BY <2>1, <2>2
<1>12. ASSUME AppendMarks PROVE StageInv' /\ SavedWasStarted'
  <2>1. /\ inWorkspace /\ scanStage = "marks" /\ Begun /\ report # NoReport /\ attempt = 2
        /\ saved = {"report"}
    BY <1>12 DEF AppendMarks, ReportInv
  <2>2. /\ UNCHANGED <<inWorkspace, earlier, started, report, attempt, map>>
        /\ scanStage' = "answered"
        /\ \/ saved' = {"report", "marks"} /\ reply' = "ok"
           \/ /\ saved' = {"report"} \/ saved' = {"report", "marks"}
              /\ reply' = "report_persistence_failed"
    BY <1>12, <2>1 DEF AppendMarks, Replies
  <2> QED BY <2>1, <2>2
<1>10. ASSUME ScanKilled PROVE StageInv' /\ SavedWasStarted'
  BY <1>10 DEF ScanKilled, Goes, Replies
<1> QED BY <1>1, <1>2, <1>3, <1>4, <1>5, <1>6, <1>7, <1>8, <1>9, <1>10,
    <1>11, <1>12 DEF ScanNext

(* The report is made once, from all the results, and stays.                *)
LEMMA ReportStep ==
  ASSUME ScanInv, ScanNext
  PROVE  ReportInv'
<1> USE ScanFixed DEF ScanInv, ReportInv, StageInv, Fatal, batchVars, scanSetting
<1>1. ASSUME ApplyApprovedGoals PROVE ReportInv'
  BY <1>1 DEF ApplyApprovedGoals, Goes, Replies
<1>2. ASSUME RecordStarted PROVE ReportInv'
  BY <1>2 DEF RecordStarted, Goes, Replies
<1>3. ASSUME EnsureMap PROVE ReportInv'
  BY <1>3 DEF EnsureMap, Goes, Replies
<1>4. ASSUME Prepare PROVE ReportInv'
  BY <1>4 DEF Prepare, Goes, Replies
<1>5. ASSUME StartBatch PROVE ReportInv'
  BY <1>5 DEF StartBatch
<1>6. ASSUME NEW b \in flying, NEW r \in Values \cup Errors, BatchEnds(b, r) PROVE ReportInv'
  BY <1>6 DEF BatchEnds
<1>7. ASSUME BeginRetries PROVE ReportInv'
  BY <1>7 DEF BeginRetries
<1>8. ASSUME Merge PROVE ReportInv'
  BY <1>8 DEF Merge, Goes, Replies
<1>9. ASSUME AnswerUnsaved PROVE ReportInv'
  BY <1>9 DEF AnswerUnsaved, Goes, Replies
<1>11. ASSUME AppendReport PROVE ReportInv'
  BY <1>11 DEF AppendReport, Goes, Replies
<1>12. ASSUME AppendMarks PROVE ReportInv'
  BY <1>12 DEF AppendMarks, Goes, Replies
<1>10. ASSUME ScanKilled PROVE ReportInv'
  BY <1>10 DEF ScanKilled, Goes, Replies
<1> QED BY <1>1, <1>2, <1>3, <1>4, <1>5, <1>6, <1>7, <1>8, <1>9, <1>10,
    <1>11, <1>12 DEF ScanNext

(* Only the merge answers that the provider failed.                         *)
LEMMA FatalStep ==
  ASSUME ScanInv, ScanNext
  PROVE  FatalInv'
<1>1. CASE Merge
  <2>1. CASE \E b \in Batches : Fatal(Result(b))
    <3>1. PICK b \in Batches : Fatal(Result(b))
      BY <2>1
    <3>2. "fatal" \in {first[b], second[b]}
      BY <3>1 DEF Fatal, Result
    <3>3. first' = first /\ second' = second
      BY <1>1 DEF Merge, batchVars
    <3> QED BY <3>2, <3>3, ScanFixed DEF FatalInv
  <2>2. CASE ~\E b \in Batches : Fatal(Result(b))
    BY <1>1, <2>2 DEF Merge, Goes, Replies, FatalInv, ScanInv, StageInv
  <2> QED BY <2>1, <2>2
<1>2. CASE ~Merge
  BY <1>2 DEF ScanNext, ApplyApprovedGoals, RecordStarted, EnsureMap, Prepare, StartBatch,
      BatchEnds, BeginRetries, AnswerUnsaved, AppendReport, AppendMarks, ScanKilled, Goes, Replies, FatalInv, ScanInv, StageInv
<1> QED BY <1>1, <1>2

(* The invariant of the scan is inductive in the composition.               *)
LEMMA ScanInductive == ScanInv /\ [AnalysisNext]_analysisVars => ScanInv'
<1> SUFFICES ASSUME ScanInv, [AnalysisNext]_analysisVars PROVE ScanInv'
  OBVIOUS
<1>1. CASE ScanNext
  BY <1>1, ScanTypeStep, RoundStep, StageStep, ReportStep, FatalStep DEF ScanInv
<1>2. CASE UNCHANGED scanVars
  <2>1. /\ UNCHANGED <<waiting, flying, attempt, goals, first, second, scanStage, started, map>>
        /\ UNCHANGED <<report, saved, reply, inWorkspace, earlier>>
    BY <1>2 DEF scanVars
  <2>2. Batches' = Batches
    BY <2>1 DEF Batches, BatchCount
  <2>3. /\ Retries' = Retries /\ Retried' = Retried /\ Materialized' = Materialized
        /\ \A b \in Batches : (Result(b))' = Result(b)
    BY <2>1, <2>2 DEF Retries, Retried, Materialized, Result, Merged, GoalsOf, LastGoal, Degraded,
        BatchOf
  <2>4. BatchTypes' /\ RoundInv'
    BY <2>1, <2>2, <2>3 DEF ScanInv, BatchTypes, ScanTypeOK, RoundInv
  <2>5. StageInv' /\ SavedWasStarted' /\ FatalInv' /\ ReportInv'
    BY <2>1, <2>2, <2>3 DEF ScanInv, StageInv, Begun, SavedWasStarted, FatalInv, ReportInv,
        Fatal
  <2> QED BY <2>4, <2>5 DEF ScanInv
<1> QED BY <1>1, <1>2, AnalysisStep

(* The report of the merge keeps decisions, and is whole or partial.        *)
LEMMA MergeIsHonest ==
  ASSUME ScanInv, report # NoReport
  PROVE  DecidedNotLost /\ WholeOrPartial
<1> DEFINE assessed == UNION {Merged(b) : b \in Batches}
           grounded == {g \in assessed : Result(BatchOf(g)) # "bare"}
<1>1. /\ report.decided = grounded /\ report.unverified = (1 .. goals) \ grounded
      /\ report.degraded = {b \in Batches : Degraded(b)}
      /\ report.seeded = (map \in {"seeded", "unsaved"})
      /\ report.partial = (\/ grounded # 1 .. goals
                           \/ \E b \in Batches : Degraded(b) \/ Result(b) = "copied"
                           \/ map = "missing")
  <2>1. report = Materialized
    BY DEF ScanInv, ReportInv
  <2> QED BY <2>1 DEF Materialized
<1>2. grounded \subseteq 1 .. goals /\ goals \in Nat
  BY MergedGoals DEF ScanInv, BatchTypes
<1>3. DecidedNotLost
  <2> SUFFICES ASSUME NEW g \in 1 .. goals, first[BatchOf(g)] \in {"good", "copied"},
                      second[BatchOf(g)] \notin Values
               PROVE  g \in report.decided
    BY DEF DecidedNotLost
  <2>1. Result(BatchOf(g)) \in {"good", "copied"}
    BY DEF Result, Values, Errors
  <2>2. BatchOf(g) \in Batches /\ g \in GoalsOf(BatchOf(g))
    BY <1>2, GoalHasBatch
  <2>3. g \in Merged(BatchOf(g))
    BY <2>1, <2>2, MergedGoals
  <2> QED BY <1>1, <2>1, <2>2, <2>3
<1>4. report.decided \cup report.unverified = 1 .. goals
  BY <1>1, <1>2
<1>5. ASSUME ~report.partial
      PROVE  /\ \A g \in 1 .. goals : "good" \in {first[BatchOf(g)], second[BatchOf(g)]}
             /\ report.degraded = {} /\ (inWorkspace => report.seeded)
  <2>1. /\ grounded = 1 .. goals /\ map # "missing"
        /\ \A b \in Batches : ~Degraded(b) /\ Result(b) # "copied"
    BY <1>1, <1>5
  <2>2. ASSUME NEW g \in 1 .. goals PROVE "good" \in {first[BatchOf(g)], second[BatchOf(g)]}
    <3>1. PICK b \in Batches : g \in Merged(b)
      BY <2>1
    <3>2. BatchOf(g) = b /\ Result(b) \in {"good", "copied", "bare", "omits"}
      BY <3>1, MergedGoals
    <3>3. Result(b) # "bare"
      BY <2>1, <3>2
    <3>4. Result(b) # "omits"
      BY <2>1 DEF Degraded
    <3>5. Result(b) = "good"
      BY <2>1, <3>2, <3>3, <3>4
    <3> QED BY <3>2, <3>5 DEF Result
  <2>3. inWorkspace => report.seeded
    BY <1>1, <2>1 DEF ScanInv, ReportInv
  <2> QED BY <1>1, <2>1, <2>2, <2>3
<1> QED BY <1>3, <1>4, <1>5 DEF WholeOrPartial

(* Rounds that run only retries keep the bounds.                            *)
LEMMA RoundsAreBounded ==
  ASSUME ScanInv
  PROVE  RunsBounded
<1>1. goals \in Nat /\ attempt \in 0 .. 2
  BY DEF ScanInv, BatchTypes, ScanTypeOK
<1>2. ASSUME attempt > 0 PROVE Cardinality(Retried) <= RetryLimit
  <2>1. CASE attempt = 1
    BY <2>1, FS_EmptySet, ScanAssumption DEF ScanInv, RoundInv
  <2>2. CASE attempt = 2
    <3>1. Retried \subseteq Retries /\ IsFiniteSet(Retries) /\ IsFiniteSet(Retried)
      BY <1>1, <2>2, RetriesBounded, BatchesFinite DEF ScanInv, RoundInv
    <3>2. Cardinality(Retried) <= Cardinality(Retries) /\ Cardinality(Retried) \in Nat
      BY <3>1, FS_Subset, FS_CardinalityType
    <3> QED BY <1>1, <3>2, RetriesBounded, ScanAssumption
  <2> QED BY <1>1, <1>2, <2>1, <2>2
<1>3. ASSUME attempt = 2 PROVE \A b \in flying \cup Retried : NeedsRetry(first[b])
  BY <1>1, <1>3, RetriesBounded DEF ScanInv, RoundInv
<1> QED BY <1>2, <1>3 DEF ScanInv, RoundInv, RunsBounded, Retried

(* A batch that failed fatally is not retried, so no report hides it.       *)
LEMMA FatalIsKept ==
  ASSUME ScanInv
  PROVE  OnlyFatalFails
<1>1. ASSUME report # NoReport, NEW b \in Batches, first[b] = "fatal" PROVE FALSE
  <2>1. attempt = 2 /\ ~Fatal(Result(b)) /\ goals \in Nat
    BY <1>1 DEF ScanInv, ReportInv, BatchTypes
  <2>2. ~NeedsRetry(first[b])
    BY <1>1 DEF NeedsRetry
  <2>3. b \notin Retried
    BY <2>1, <2>2, RetriesBounded DEF ScanInv, RoundInv
  <2>4. second[b] = ""
    BY <1>1, <2>3 DEF Retried
  <2> QED BY <1>1, <2>1, <2>4 DEF Result, Fatal, Values, Errors
<1> QED BY <1>1 DEF OnlyFatalFails, ScanInv, FatalInv

(* analyzer/scan.rs and service/scan.rs, for any number of goals, size of   *)
(* batch, concurrency and retry limit: the provider is asked a bounded      *)
(* number of times, no decision is lost to a failed retry, a report says    *)
(* when it is not whole, only a failure all runs share fails the scan, what *)
(* is saved was started, and an answer of success means that all of it is   *)
(* in the ledger, whichever of the appends may fail.                        *)
THEOREM ScansAreSound == AnalysisSpec => []ScanSound
<1>1. AnalysisInit => ScanInv
  BY ScanStart DEF AnalysisInit
<1>2. ScanInv => ScanSound
  <2> SUFFICES ASSUME ScanInv PROVE ScanSound
    OBVIOUS
  <2>1. DecidedNotLost /\ WholeOrPartial
    BY MergeIsHonest DEF DecidedNotLost, WholeOrPartial
  <2> QED BY <2>1, RoundsAreBounded, FatalIsKept DEF ScanSound, ScanInv, BatchTypes
<1> QED BY <1>1, <1>2, ScanInductive, PTL DEF AnalysisSpec

-----------------------------------------------------------------------------
(* The requests.                                                            *)

\* What a request is refused with, before and by its handler.
EarlyCodes ==
    {"update_install_from_volume", "update_install_translocated",
     "update_install_parent_unwritable", "update_install_bundle_missing",
     "launch_at_login_unavailable", "provider_preference_unavailable",
     "context_file_inspection_failed", "backup_schedule_status_failed",
     "report_history_load_failed", "report_finding_load_failed", "latest_report_protected",
     "report_already_deleted", "report_not_found", "goal_context_unavailable",
     "recommendation_prompt_failed", "reliability_event_rejected", "approved_goals_required",
     "goal_set_incomplete", "workspace_load_failed", "repository_unavailable", "map_not_found",
     "protocol_version", "feature_paused", "feature_control_unavailable", "method_not_found",
     "workspace_required", "invalid_params"}

\* What a handler fails with when its work may be done in part.
LateCodes ==
    {"update_check_failed", "update_download_failed", "update_install_failed",
     "launch_at_login_failed", "provider_preference_failed", "workspace_create_failed",
     "workspace_resume_failed", "workspace_open_failed", "workspace_context_update_failed",
     "recovery_export_failed", "backup_export_failed", "backup_import_failed",
     "backup_schedule_enable_failed", "backup_schedule_disable_failed",
     "backup_schedule_run_failed", "report_delete_failed", "word_report_export_failed",
     "goal_approval_failed", "goal_replacement_failed", "goal_generation_failed",
     "action_transition_failed", "instrumentation_persistence_failed", "clipboard_failed",
     "reliability_persistence_failed", "report_persistence_failed", "map_generation_failed",
     "map_persistence_failed"} \cup providerFailures

Codes == EarlyCodes \cup LateCodes \cup {""}
Says == {"", "yes", "no"}
Verdicts == [ok : BOOLEAN, code : Codes, told : Says, known : BOOLEAN, due : BOOLEAN]
Lines == [id : Nat, kind : {"progress", "result", "error"}, code : Codes, told : Says,
          known : BOOLEAN, due : BOOLEAN, list : BOOLEAN]

\* Frames, answers and lines are of their kinds, and a handler is looked up
\* for a method that has one.
RequestTypes ==
    /\ RequestsTypeOK /\ frames \in Seq(First \cup Later \cup Bad)
    /\ taken + Len(frames) <= MaxFrames
    /\ answer \in Verdicts /\ output \in Seq(Lines)
    /\ stage \in {"checks", "work"} => current.method \in Methods

\* A request is answered by the time that the next one is read.
Handling == stage \in {"admit", "checks", "work", "finalize", "alert", "write"}
OrderInv ==
    /\ AnswersInOrder
    /\ Handling =>
          taken > 0 /\ \A i \in DOMAIN output : Terminal(output[i]) => output[i].id < taken
    /\ stage \in {"reading", "opened"} =>
          \A n \in 1 .. taken : \E i \in DOMAIN output : output[i].id = n /\ Terminal(output[i])

\* A request that will be refused, or was, has done nothing.
EffectInv ==
    /\ stage \in {"admit", "checks", "work"} => taken \notin worked
    /\ stage \in {"finalize", "alert", "write"} /\ answer.code \in EarlyCodes => taken \notin worked
    /\ \A i \in DOMAIN output : ~Terminal(output[i]) => output[i].code = "" /\ output[i].told = ""
    /\ \A i \in DOMAIN output : output[i].code \in EarlyCodes => output[i].id \notin worked

\* The records are made before the answer that speaks of them, the outcome
\* before the alert.
Vouching ==
    \/ answer.told = "yes"
    \/ answer.ok /\ answer.known /\ answer.told = "" /\ current.method # "providers.detect"
RecordInv ==
    /\ stage \in {"admit", "checks", "work", "finalize"} => taken \notin recorded
    /\ stage = "alert" => taken \in recorded /\ answer.known /\ HasWorkspace(current, answer)
    /\ stage = "write" =>
          /\ Vouching => taken \in recorded /\ (answer.due => taken \in alerted)
          /\ answer.told = "no" /\ ~answer.known => taken \notin recorded
    /\ TelemetryTold

\* Only a process that still has to read its file has one.
StagedInv ==
    /\ mode = "stdin" => ~staged
    /\ killed => stage = "ended"
    /\ staged => stage \in {"reading", "opened", "refused"} \/ killed

RequestsInv == RequestTypes /\ OrderInv /\ EffectInv /\ RecordInv /\ StagedInv

(* The two kinds of codes have none in common.                              *)
LEMMA CodesApart ==
  /\ EarlyCodes \cap LateCodes = {} /\ "" \notin EarlyCodes /\ "" \notin LateCodes
  /\ {"protocol_version", "feature_paused", "feature_control_unavailable",
      "method_not_found", "workspace_required", "invalid_params"} \subseteq EarlyCodes
BY DEF EarlyCodes, LateCodes, providerFailures

\* Handlers that refuse with codes of the one kind and fail with codes of the
\* other.
Apart(S) == \A h \in S : h.early \subseteq EarlyCodes /\ h.late \subseteq LateCodes

(* Every handler of the dispatch table is of that kind.                     *)
LEMMA DispatchApart == Apart(DISPATCH)
<1>1. Apart(systemHandlers)
  BY DEF Apart, Handler, EarlyCodes, LateCodes, systemHandlers
<1>2. Apart(providerHandlers)
  BY DEF Apart, Handler, EarlyCodes, LateCodes, providerHandlers
<1>3. Apart(updateHandlers)
  BY DEF Apart, Handler, EarlyCodes, LateCodes, updateHandlers
<1>4. Apart(settingsHandlers)
  BY DEF Apart, Handler, EarlyCodes, LateCodes, settingsHandlers
<1>5. Apart(contextHandlers)
  BY DEF Apart, Handler, EarlyCodes, LateCodes, contextHandlers
<1>6. Apart(workspaceHandlers)
  BY DEF Apart, Handler, EarlyCodes, LateCodes, workspaceHandlers
<1>7. Apart(backupHandlers)
  BY DEF Apart, Handler, EarlyCodes, LateCodes, backupHandlers
<1>8. Apart(scheduleHandlers)
  BY DEF Apart, Handler, EarlyCodes, LateCodes, scheduleHandlers
<1>9. Apart(reportHandlers)
  BY DEF Apart, Handler, EarlyCodes, LateCodes, reportHandlers
<1>10. Apart(goalHandlers)
  BY DEF Apart, Handler, EarlyCodes, LateCodes, goalHandlers
<1>11. Apart(actionHandlers)
  BY DEF Apart, Handler, EarlyCodes, LateCodes, actionHandlers
<1>12. Apart(instrumentationHandlers)
  BY DEF Apart, Handler, EarlyCodes, LateCodes, instrumentationHandlers
<1>13. Apart(promptHandlers)
  BY DEF Apart, Handler, EarlyCodes, LateCodes, promptHandlers
<1>14. Apart(reliabilityHandlers)
  BY DEF Apart, Handler, EarlyCodes, LateCodes, reliabilityHandlers
<1>15. Apart(scanHandlers)
  BY DEF Apart, Handler, EarlyCodes, LateCodes, scanHandlers
<1>16. Apart(mapHandlers)
  BY DEF Apart, Handler, EarlyCodes, LateCodes, mapHandlers
<1> QED BY <1>1, <1>2, <1>3, <1>4, <1>5, <1>6, <1>7, <1>8, <1>9, <1>10, <1>11, <1>12, <1>13, <1>14,
    <1>15, <1>16 DEF Apart, DISPATCH

(* The handler of a method is the row of the table.                         *)
LEMMA HandlerFound ==
  ASSUME NEW m \in Methods
  PROVE  HandlerOf(m).early \subseteq EarlyCodes /\ HandlerOf(m).late \subseteq LateCodes
<1>1. HandlerOf(m) \in DISPATCH
  BY DEF Methods, HandlerOf
<1> QED BY <1>1, DispatchApart DEF Apart

(* Nothing was read.                                                        *)
LEMMA RequestsStart == RequestsInit => RequestsInv
<1> SUFFICES ASSUME RequestsInit PROVE RequestsInv
  OBVIOUS
<1> /\ mode \in {"stdin", "file"} /\ Len(frames) <= MaxFrames /\ taken = 0 /\ stage = "reading"
    /\ output = <<>> /\ worked = {} /\ recorded = {} /\ alerted = {} /\ killed = FALSE /\ answer = Success
    /\ staged = (mode = "file")
  BY DEF RequestsInit
<1>1. RequestTypes
  <2>1. frames \in Seq(First \cup Later \cup Bad)
    <3> DEFINE All == First \cup Later \cup Bad
    <3>1. \/ frames = <<>> \/ \E f \in All : frames = <<f>>
          \/ \E f \in All, h \in All : frames = <<f, h>>
      BY DEF RequestsInit
    <3> HIDE DEF All
    <3>2. frames \in Seq(All)
      <4>1. CASE frames = <<>>
        BY ONLY <4>1
      <4>2. CASE \E f \in All : frames = <<f>>
        BY ONLY <4>2
      <4>3. CASE \E f \in All, h \in All : frames = <<f, h>>
        BY ONLY <4>3
      <4> QED BY ONLY <3>1, <4>1, <4>2, <4>3
    <3> QED BY <3>2 DEF All
  <2>2. answer \in Verdicts
    BY DEF Success, Verdicts, Codes, Says
  <2>3. output \in Seq(Lines)
    OBVIOUS
  <2>4. staged \in BOOLEAN
    BY Zenon
  <2>5. Len(frames) \in Nat
    BY <2>1
  <2>6. RequestsTypeOK
    <3>1. /\ mode \in {"stdin", "file"} /\ taken = 0 /\ stage = "reading" /\ worked = {}
          /\ recorded = {} /\ alerted = {} /\ killed \in BOOLEAN
      OBVIOUS
    <3>2. /\ taken \in 0 .. MaxFrames /\ worked \subseteq 1 .. taken /\ recorded \subseteq 1 .. taken
          /\ alerted \subseteq 1 .. taken
      BY ONLY <3>1, RequestsAssumption
    <3> QED BY ONLY <2>4, <3>1, <3>2 DEF RequestsTypeOK
  <2>7. taken + Len(frames) <= MaxFrames /\ stage \notin {"checks", "work"}
    BY <2>5
  <2> QED BY ONLY <2>1, <2>2, <2>3, <2>6, <2>7 DEF RequestTypes
<1>2. OrderInv
  BY DEF OrderInv, AnswersInOrder, Handling
<1>3. EffectInv /\ RecordInv
  BY DEF EffectInv, RecordInv, TelemetryTold
<1>4. StagedInv
  <2>1. mode = "stdin" => ~staged
    OBVIOUS
  <2> QED BY <2>1 DEF StagedInv
<1> QED BY <1>1, <1>2, <1>3, <1>4 DEF RequestsInv

(* Reading takes one frame, or ends.                                        *)
LEMMA TakeEffect ==
  ASSUME RequestTypes, frames # <<>>, Take(Head(frames))
  PROVE  /\ Len(frames) \in Nat \ {0}
         /\ Tail(frames) \in Seq(First \cup Later \cup Bad) /\ Len(Tail(frames)) = Len(frames) - 1
         /\ \/ stage' = "ended" /\ UNCHANGED <<taken, current>>
            \/ stage' = "admit" /\ taken' = taken + 1
BY DEF RequestTypes, Take, Advance

(* A line is put at the end of the output.                                  *)
LEMMA LineAdded ==
  ASSUME NEW out \in Seq(Lines), NEW line \in Lines
  PROVE  /\ Append(out, line) \in Seq(Lines) /\ Len(out) \in Nat
         /\ DOMAIN out = 1 .. Len(out) /\ DOMAIN Append(out, line) = 1 .. Len(out) + 1
         /\ \A i \in 1 .. Len(out) : Append(out, line)[i] = out[i]
         /\ Append(out, line)[Len(out) + 1] = line
         /\ \A i \in DOMAIN Append(out, line) :
               (i \in DOMAIN out /\ Append(out, line)[i] = out[i]) \/ Append(out, line)[i] = line
OBVIOUS

(* What a handler returns is a verdict.                                     *)
LEMMA SuccessVerdict == Success \in Verdicts /\ Success.code = ""
BY DEF Success, Verdicts, Codes, Says

(* A failure is a verdict with its code.                                    *)
LEMMA FailsEffect ==
  ASSUME NEW code \in EarlyCodes \cup LateCodes, Fails(code)
  PROVE  answer' \in Verdicts /\ answer'.code = code
BY DEF Fails, Answers, Success, Verdicts, Codes, Says

(* What the answer says of its records is the acknowledgement it got.       *)
LEMMA FinishedEffect ==
  ASSUME NEW a \in Verdicts, NEW made \in BOOLEAN, Finished(a, made)
  PROVE  /\ answer' \in Verdicts /\ answer'.code = a.code /\ answer'.ok = a.ok
         /\ answer'.known = a.known /\ answer'.due = a.due /\ stage' = "write"
         /\ answer'.told = "yes" => made
         /\ answer'.ok /\ HasWorkspace(current, a) /\ answer'.told = ""
               /\ current.method # "providers.detect" => made
<1>1. Told(current, a, made) \in Says
  BY DEF Told, Says
<1>2. answer' = [a EXCEPT !.told = Told(current, a, made)] /\ stage' = "write"
  BY DEF Finished, Answers, Advance
<1>3. /\ answer'.code = a.code /\ answer'.ok = a.ok /\ answer'.known = a.known
      /\ answer'.due = a.due /\ answer'.told = Told(current, a, made) /\ answer' \in Verdicts
  BY <1>1, <1>2 DEF Verdicts
<1>4. /\ Told(current, a, made) = "yes" => made
      /\ a.ok /\ HasWorkspace(current, a) /\ Told(current, a, made) = ""
            /\ current.method # "providers.detect" => made
  BY DEF Told
<1> QED BY <1>2, <1>3, <1>4

(* The outcome is recorded before anything speaks of it.                    *)
LEMMA FinalizeEffect ==
  ASSUME RequestTypes, Finalize
  PROVE  /\ answer' \in Verdicts /\ answer'.code = answer.code /\ answer'.ok = answer.ok
         /\ recorded' \in {recorded, recorded \cup {taken}} /\ stage' \in {"alert", "write"}
         /\ stage' = "alert" => taken \in recorded' /\ answer'.known /\ HasWorkspace(current, answer')
         /\ stage' = "write" /\ Vouching' => taken \in recorded' /\ ~answer'.due
         /\ stage' = "write" /\ ~answer'.known => recorded' = recorded
<1> DEFINE known == HasWorkspace(current, answer)
           due(slow) == known /\ AlertFor(current, answer, slow)
           a(slow) == [answer EXCEPT !.known = known, !.due = due(slow)]
<1>1. PICK slow \in BOOLEAN :
         \/ /\ recorded' \in IF known THEN {recorded, recorded \cup {taken}} ELSE {recorded}
            /\ Finished(a(slow), FALSE)
         \/ /\ known /\ recorded' = recorded \cup {taken}
            /\ IF due(slow) THEN Answers(a(slow)) /\ Advance("alert") ELSE Finished(a(slow), TRUE)
  BY DEF Finalize
<1>2. known \in BOOLEAN /\ due(slow) \in BOOLEAN
  BY DEF HasWorkspace, AlertFor
<1>3. answer \in Verdicts /\ UNCHANGED current
  BY DEF RequestTypes, Finalize
<1>4. /\ a(slow) \in Verdicts /\ a(slow).code = answer.code /\ a(slow).ok = answer.ok
      /\ a(slow).known = known /\ a(slow).due = due(slow)
  <2> HIDE DEF known, due
  <2> QED BY <1>2, <1>3 DEF Verdicts
<1>5. \A v : v.ok = answer.ok => HasWorkspace(current, v) = known
  BY DEF HasWorkspace
<1>6. due(slow) => known
  OBVIOUS
<1> HIDE DEF known, due, a
<1>7. CASE /\ recorded' \in IF known THEN {recorded, recorded \cup {taken}} ELSE {recorded}
           /\ Finished(a(slow), FALSE)
  <2>1. /\ answer' \in Verdicts /\ answer'.code = answer.code /\ answer'.ok = answer.ok
        /\ answer'.known = known /\ stage' = "write" /\ ~(answer'.told = "yes")
        /\ ~(answer'.ok /\ known /\ answer'.told = "" /\ current.method # "providers.detect")
    BY <1>4, <1>5, <1>7, FinishedEffect
  <2> QED BY <1>3, <1>7, <2>1 DEF Vouching
<1>8. CASE /\ known /\ recorded' = recorded \cup {taken}
           /\ due(slow) /\ Answers(a(slow)) /\ Advance("alert")
  <2>1. answer' = a(slow) /\ stage' = "alert"
    BY <1>8 DEF Answers, Advance
  <2>2. HasWorkspace(current, answer')
    BY <1>4, <1>5, <1>8, <2>1
  <2> QED BY <1>4, <1>8, <2>1, <2>2
<1>9. CASE /\ known /\ recorded' = recorded \cup {taken}
           /\ ~due(slow) /\ Finished(a(slow), TRUE)
  <2>1. /\ answer' \in Verdicts /\ answer'.code = answer.code /\ answer'.ok = answer.ok
        /\ answer'.known = known /\ stage' = "write" /\ answer'.due = due(slow)
    BY <1>4, <1>9, FinishedEffect
  <2> QED BY <1>9, <2>1
<1> QED BY <1>1, <1>7, <1>8, <1>9

(* The alert is recorded before anything speaks of it.                      *)
LEMMA AlertEffect ==
  ASSUME RequestTypes, RaiseAlert, HasWorkspace(current, answer)
  PROVE  /\ answer' \in Verdicts /\ answer'.code = answer.code /\ answer'.known = answer.known
         /\ alerted' \in {alerted, alerted \cup {taken}} /\ stage' = "write"
         /\ Vouching' => taken \in alerted'
<1>1. answer \in Verdicts /\ UNCHANGED current
  BY DEF RequestTypes, RaiseAlert
<1>2. CASE alerted' = alerted \cup {taken} /\ Finished(answer, TRUE)
  BY <1>1, <1>2, FinishedEffect
<1>3. CASE alerted' \in {alerted, alerted \cup {taken}} /\ Finished(answer, FALSE)
  <2>1. /\ answer' \in Verdicts /\ answer'.code = answer.code /\ answer'.known = answer.known
        /\ stage' = "write" /\ ~(answer'.told = "yes")
        /\ ~(answer'.ok /\ answer'.told = "" /\ current.method # "providers.detect")
    BY <1>1, <1>3, FinishedEffect
  <2> QED BY <1>1, <1>3, <2>1 DEF Vouching
<1> QED BY <1>2, <1>3 DEF RaiseAlert

(* A progress line belongs to the request and says nothing else.            *)
LEMMA ProgressEffect ==
  ASSUME RequestTypes, Progress
  PROVE  \E line \in Lines :
            /\ output' = Append(output, line) /\ output' \in Seq(Lines)
            /\ line.id = taken /\ line.kind = "progress" /\ line.code = "" /\ line.told = ""
<1> DEFINE line == [id |-> taken, kind |-> "progress", code |-> "", told |-> "",
                    known |-> FALSE, due |-> FALSE, list |-> FALSE]
<1>1. line \in Lines
  <2>1. taken \in Nat /\ "" \in Codes /\ "" \in Says
    BY DEF RequestTypes, RequestsTypeOK, Codes, Says
  <2> QED BY <2>1 DEF Lines
<1>2. output' = Append(output, line) /\ output \in Seq(Lines)
  BY DEF Progress, RequestTypes
<1> HIDE DEF line
<1>3. output' \in Seq(Lines)
  BY <1>1, <1>2
<1>4. line.id = taken /\ line.kind = "progress" /\ line.code = "" /\ line.told = ""
  BY DEF line
<1> QED BY <1>1, <1>2, <1>3, <1>4

(* The answer's line repeats the verdict, unless the process ends.          *)
LEMMA AnswerEffect ==
  ASSUME RequestTypes, WriteAnswer
  PROVE  /\ output' \in Seq(Lines)
         /\ \/ output' = output /\ stage' = "ended"
            \/ \E line \in Lines :
                 /\ output' = Append(output, line)
                 /\ line.id = taken /\ line.code = answer.code /\ line.told = answer.told
                 /\ line.kind \in {"result", "error"} /\ (line.kind = "result" => answer.ok)
                 /\ line.known = answer.known /\ line.due = answer.due
                 /\ line.list = (current.method = "providers.detect")
<1> DEFINE line == [id |-> taken, code |-> answer.code,
                    kind |-> IF answer.ok THEN "result" ELSE "error",
                    told |-> answer.told, known |-> answer.known, due |-> answer.due,
                    list |-> current.method = "providers.detect"]
<1>1. taken \in Nat /\ answer \in Verdicts /\ output \in Seq(Lines)
  BY DEF RequestTypes, RequestsTypeOK
<1>2. line \in Lines
  BY <1>1 DEF Lines, Verdicts
<1>3. /\ line.id = taken /\ line.code = answer.code /\ line.told = answer.told
      /\ line.kind \in {"result", "error"} /\ (line.kind = "result" => answer.ok)
      /\ line.known = answer.known /\ line.due = answer.due
      /\ line.list = (current.method = "providers.detect")
  OBVIOUS
<1>4. output' = Append(output, line) \/ (output' = output /\ stage' = "ended")
  BY DEF WriteAnswer, Advance
<1> HIDE DEF line
<1> QED BY <1>1, <1>2, <1>3, <1>4

(* Every step leaves values of the right kind.                              *)
LEMMA RequestTypeStep ==
  ASSUME RequestsInv, RequestsNext
  PROVE  RequestTypes'
<1> USE RequestsAssumption DEF RequestsInv, RequestTypes, RequestsTypeOK, Advance
<1>1. ASSUME ReadStdin PROVE RequestTypes'
  <2>1. CASE frames = <<>>
    BY <1>1, <2>1 DEF ReadStdin
  <2>2. CASE frames # <<>>
    <3>1. Take(Head(frames)) /\ frames' = Tail(frames)
          /\ UNCHANGED <<mode, answer, output, worked, recorded, alerted, staged, killed>>
      BY <1>1, <2>2 DEF ReadStdin
    <3> QED BY <2>2, <3>1, TakeEffect
  <2> QED BY <2>1, <2>2
<1>2. ASSUME OpenRequestFile PROVE RequestTypes'
  BY <1>2 DEF OpenRequestFile
<1>3. ASSUME ReadRequestFile PROVE RequestTypes'
  <2>1. /\ frames' = <<>> /\ staged' = FALSE
        /\ UNCHANGED <<mode, answer, output, worked, recorded, alerted, killed>>
    BY <1>3 DEF ReadRequestFile
  <2>4. frames' \in Seq(First \cup Later \cup Bad) /\ Len(frames') = 0 /\ Len(frames) \in Nat
    BY <2>1
  <2>5. UNCHANGED <<mode, answer, output, worked, recorded, alerted, killed>> /\ staged' \in BOOLEAN
    BY <2>1
  <2>6. RequestTypes
    OBVIOUS
  <2>2. CASE Len(frames) = 1 /\ Take(Head(frames))
    <3>1. frames # <<>>
      BY <2>2
    <3>2. \/ stage' = "ended" /\ UNCHANGED <<taken, current>>
          \/ stage' = "admit" /\ taken' = taken + 1
      BY <2>2, <3>1, TakeEffect
    <3> QED BY ONLY <2>2, <2>4, <2>5, <2>6, <3>2, RequestsAssumption
        DEF RequestTypes, RequestsTypeOK
  <2>3. CASE stage' = "ended" /\ UNCHANGED <<taken, current>>
    BY ONLY <2>3, <2>4, <2>5, <2>6, RequestsAssumption DEF RequestTypes, RequestsTypeOK
  <2> QED BY <1>3, <2>2, <2>3 DEF ReadRequestFile
<1>4. ASSUME Admit PROVE RequestTypes'
  <2>1. \/ stage' = "checks" /\ UNCHANGED answer /\ current.method \in Methods
        \/ stage' = "finalize" /\ answer' \in Verdicts
    <3>1. PICK control \in ControlState :
             IF Refusal(current, control) = "" THEN stage' = "checks" /\ UNCHANGED answer
             ELSE stage' = "finalize" /\ Fails(Refusal(current, control))
      BY <1>4 DEF Admit
    <3>2. Refusal(current, control) \in EarlyCodes \cup {""}
      BY CodesApart DEF Refusal
    <3>3. Refusal(current, control) = "" => current.method \in Methods
      BY DEF Refusal
    <3>4. \A c \in EarlyCodes : Fails(c) => answer' \in Verdicts
      BY FailsEffect
    <3> QED BY <3>1, <3>2, <3>3, <3>4
  <2> QED BY <1>4, <2>1 DEF Admit
<1>5. ASSUME Check PROVE RequestTypes'
  <2>1. \/ stage' = "work" /\ UNCHANGED answer
        \/ stage' = "finalize" /\ answer' \in Verdicts
    BY <1>5, FailsEffect, CodesApart, HandlerFound DEF Check
  <2>2. UNCHANGED <<mode, frames, taken, current, output, worked, recorded, alerted, staged, killed>>
    BY <1>5 DEF Check
  <2>3. current.method \in Methods
    BY <1>5 DEF Check
  <2> QED BY <2>1, <2>2, <2>3
<1>6. ASSUME Progress PROVE RequestTypes'
  <2>1. UNCHANGED <<mode, frames, taken, current, stage, answer, worked, recorded, alerted, staged, killed>>
    BY <1>6 DEF Progress
  <2> QED BY <1>6, <2>1, ProgressEffect
<1>7. ASSUME Work PROVE RequestTypes'
  <2>1. answer' \in Verdicts
    BY <1>7, FailsEffect, HandlerFound, SuccessVerdict DEF Work, Answers
  <2>2. worked' \subseteq 1 .. taken'
    <3>1. taken \in 1 .. taken
      BY <1>7 DEF Work, OrderInv, Handling
    <3> QED BY <1>7, <3>1 DEF Work
  <2> QED BY <1>7, <2>1, <2>2 DEF Work
<1>8. ASSUME Finalize PROVE RequestTypes'
  <2>1. answer' \in Verdicts /\ recorded' \in {recorded, recorded \cup {taken}}
        /\ stage' \in {"alert", "write"}
    BY <1>8, FinalizeEffect
  <2>2. recorded' \subseteq 1 .. taken'
    <3>1. taken \in 1 .. taken
      BY <1>8 DEF Finalize, OrderInv, Handling
    <3>2. taken' = taken
      BY <1>8 DEF Finalize
    <3> QED BY <2>1, <3>1, <3>2
  <2>3. UNCHANGED <<mode, frames, taken, current, output, worked, alerted, staged, killed>>
    BY <1>8 DEF Finalize
  <2> QED BY <2>1, <2>2, <2>3
<1>11. ASSUME RaiseAlert PROVE RequestTypes'
  <2>1. answer' \in Verdicts /\ alerted' \in {alerted, alerted \cup {taken}} /\ stage' = "write"
    BY <1>11, AlertEffect DEF RaiseAlert, RecordInv
  <2>2. alerted' \subseteq 1 .. taken'
    <3>1. taken \in 1 .. taken
      BY <1>11 DEF RaiseAlert, OrderInv, Handling
    <3>2. taken' = taken
      BY <1>11 DEF RaiseAlert
    <3> QED BY <2>1, <3>1, <3>2
  <2>3. UNCHANGED <<mode, frames, taken, current, output, worked, recorded, staged, killed>>
    BY <1>11 DEF RaiseAlert
  <2> QED BY <2>1, <2>2, <2>3
<1>9. ASSUME WriteAnswer PROVE RequestTypes'
  <2>1. output' \in Seq(Lines)
    BY <1>9, AnswerEffect
  <2>2. stage' \in {"reading", "ended"}
    BY <1>9 DEF WriteAnswer
  <2> QED BY <1>9, <2>1, <2>2 DEF WriteAnswer
<1>10. ASSUME Kill PROVE RequestTypes'
  BY <1>10 DEF Kill
<1> QED BY <1>1, <1>2, <1>3, <1>4, <1>5, <1>6, <1>7, <1>8, <1>9, <1>10, <1>11
    DEF RequestsNext

(* A line of the request that is handled keeps the order.                   *)
LEMMA OrderKept ==
  ASSUME RequestsInv, Handling, NEW line \in Lines, line.id = taken, taken' = taken,
         output' = Append(output, line)
  PROVE  /\ AnswersInOrder'
         /\ Terminal(line) => \A n \in 1 .. taken :
               \E i \in DOMAIN output' : output'[i].id = n /\ Terminal(output'[i])
         /\ ~Terminal(line) =>
               \A i \in DOMAIN output' : Terminal(output'[i]) => output'[i].id < taken
<1> DEFINE last == Len(output)
<1>1. /\ last \in Nat /\ DOMAIN output = 1 .. last /\ DOMAIN output' = 1 .. last + 1
      /\ \A i \in 1 .. last : output'[i] = output[i]
      /\ output'[last + 1] = line
  BY LineAdded DEF RequestsInv, RequestTypes
<1>2. /\ \A i \in 1 .. last : output[i].id \in 1 .. taken
      /\ \A i, j \in 1 .. last : i < j => output[i].id <= output[j].id
      /\ \A i, j \in 1 .. last : i < j /\ Terminal(output[i]) => output[i].id < output[j].id
      /\ \A n \in 1 .. taken - 1 : \E i \in 1 .. last : output[i].id = n /\ Terminal(output[i])
      /\ \A i \in 1 .. last : Terminal(output[i]) => output[i].id < taken
      /\ taken \in Nat /\ taken > 0
  <2>1. AnswersInOrder /\ taken > 0
        /\ \A i \in DOMAIN output : Terminal(output[i]) => output[i].id < taken
    BY DEF RequestsInv, OrderInv
  <2>2. taken \in Nat
    BY DEF RequestsInv, RequestTypes, RequestsTypeOK
  <2> QED BY ONLY <1>1, <2>1, <2>2 DEF AnswersInOrder
<1> HIDE DEF last
<1>3. \A i \in DOMAIN output' : i \in 1 .. last \/ i = last + 1
  BY <1>1
<1>4. \A i \in DOMAIN output' : output'[i].id \in 1 .. taken
  BY <1>1, <1>2, <1>3
<1>5. ASSUME NEW i \in DOMAIN output', NEW j \in DOMAIN output', i < j
      PROVE  /\ output'[i].id <= output'[j].id
             /\ Terminal(output'[i]) => output'[i].id < output'[j].id
  <2>1. i \in 1 .. last /\ output'[i] = output[i]
    BY <1>1, <1>5
  <2>2. CASE j \in 1 .. last
    BY <1>1, <1>2, <1>5, <2>1, <2>2
  <2>3. CASE j = last + 1
    BY <1>1, <1>2, <2>1, <2>3
  <2> QED BY <1>3, <2>2, <2>3
<1>6. ASSUME NEW n \in 1 .. taken - 1
      PROVE  \E i \in DOMAIN output' : output'[i].id = n /\ Terminal(output'[i])
  <2>1. PICK i \in 1 .. last : output[i].id = n /\ Terminal(output[i])
    BY <1>2
  <2> QED BY <1>1, <2>1
<1>7. AnswersInOrder'
  <2>1. \A n \in 1 .. taken' - 1 :
           \E i \in DOMAIN output' : output'[i].id = n /\ Terminal(output'[i])
    BY <1>6
  <2>2. \A i \in DOMAIN output' : output'[i].id \in 1 .. taken'
    BY <1>4
  <2> QED BY ONLY <1>5, <2>1, <2>2 DEF AnswersInOrder, Terminal
<1>8. ASSUME Terminal(line), NEW n \in 1 .. taken
      PROVE  \E i \in DOMAIN output' : output'[i].id = n /\ Terminal(output'[i])
  <2>1. CASE n \in 1 .. taken - 1
    BY <1>6, <2>1
  <2>2. CASE n = taken
    BY <1>1, <1>8, <2>2
  <2> QED BY <1>2, <2>1, <2>2
<1>9. ASSUME ~Terminal(line), NEW i \in DOMAIN output', Terminal(output'[i])
      PROVE  output'[i].id < taken
  <2>1. i # last + 1
    BY <1>1, <1>9
  <2> QED BY <1>1, <1>2, <1>3, <1>9, <2>1
<1> QED BY <1>7, <1>8, <1>9

(* A new request comes after every answer.                                  *)
LEMMA OrderTaken ==
  ASSUME RequestsInv, stage \in {"reading", "opened"}, UNCHANGED output,
         \/ stage' = "ended" /\ UNCHANGED <<taken, current>>
         \/ stage' = "admit" /\ taken' = taken + 1
  PROVE  OrderInv'
<1>1. /\ \A i \in DOMAIN output : output[i].id \in 1 .. taken
      /\ \A n \in 1 .. taken : \E i \in DOMAIN output : output[i].id = n /\ Terminal(output[i])
      /\ taken \in Nat
  BY DEF RequestsInv, OrderInv, AnswersInOrder, RequestTypes, RequestsTypeOK
<1>2. CASE stage' = "ended" /\ UNCHANGED <<taken, current>>
  BY <1>2 DEF RequestsInv, OrderInv, AnswersInOrder, Handling, Terminal
<1>3. CASE stage' = "admit" /\ taken' = taken + 1
  <2>1. /\ \A i \in DOMAIN output : output[i].id \in 1 .. taken' /\ output[i].id < taken'
        /\ taken' > 0 /\ taken' - 1 = taken
    BY <1>1, <1>3
  <2>2. AnswersInOrder'
    BY <1>1, <2>1 DEF RequestsInv, OrderInv, AnswersInOrder, Terminal
  <2> QED BY <1>3, <2>1, <2>2 DEF OrderInv, Handling, Terminal
<1> QED BY <1>2, <1>3

(* Requests are answered in turn.                                           *)
LEMMA OrderStep ==
  ASSUME RequestsInv, RequestsNext
  PROVE  OrderInv'
<1>1. CASE ReadStdin \/ ReadRequestFile
  <2>1. UNCHANGED output /\ stage \in {"reading", "opened"}
    BY <1>1 DEF ReadStdin, ReadRequestFile
  <2>2. \/ stage' = "ended" /\ UNCHANGED <<taken, current>>
        \/ stage' = "admit" /\ taken' = taken + 1
    BY <1>1 DEF ReadStdin, ReadRequestFile, Take, Advance
  <2> QED BY <2>1, <2>2, OrderTaken
<1>2. CASE Progress
  <2>1. PICK line \in Lines : output' = Append(output, line) /\ line.id = taken
                              /\ line.kind = "progress"
    BY <1>2, ProgressEffect DEF RequestsInv
  <2>2. stage = "work" /\ UNCHANGED <<taken, stage>>
    BY <1>2 DEF Progress
  <2>3. Handling /\ ~Terminal(line) /\ taken > 0
    BY <2>1, <2>2 DEF Handling, Terminal, RequestsInv, OrderInv
  <2>4. AnswersInOrder' /\ \A i \in DOMAIN output' : Terminal(output'[i]) => output'[i].id < taken
    BY <2>1, <2>2, <2>3, OrderKept
  <2> QED BY <2>2, <2>3, <2>4 DEF OrderInv, Terminal
<1>3. CASE WriteAnswer
  <2>1. stage = "write" /\ UNCHANGED taken /\ stage' \in {"reading", "ended"}
    BY <1>3 DEF WriteAnswer, Advance
  <2>2. Handling
    BY <2>1 DEF Handling
  <2>3. CASE output' = output /\ stage' = "ended"
    BY <2>1, <2>3 DEF RequestsInv, OrderInv, AnswersInOrder, Handling, Terminal
  <2>4. CASE \E line \in Lines : output' = Append(output, line) /\ line.id = taken
                                 /\ line.kind \in {"result", "error"}
    <3>1. PICK line \in Lines : output' = Append(output, line) /\ line.id = taken
                                /\ line.kind \in {"result", "error"}
      BY <2>4
    <3>2. Terminal(line)
      BY <3>1 DEF Terminal
    <3>3. AnswersInOrder' /\ \A n \in 1 .. taken :
             \E i \in DOMAIN output' : output'[i].id = n /\ Terminal(output'[i])
      BY <2>1, <2>2, <3>1, <3>2, OrderKept
    <3> QED BY <2>1, <3>3 DEF OrderInv, Handling, Terminal
  <2> QED BY <1>3, <2>3, <2>4, AnswerEffect DEF RequestsInv
<1>4. ASSUME \/ OpenRequestFile \/ Admit \/ Check \/ Work \/ Finalize \/ RaiseAlert \/ Kill
      PROVE  OrderInv'
  <2>1. UNCHANGED <<taken, output>> /\ (Handling' => Handling)
        /\ (stage' \in {"reading", "opened"} => stage \in {"reading", "opened"})
    BY <1>4 DEF OpenRequestFile, Admit, Check, Work, Finalize, RaiseAlert, Finished, Kill, Advance,
        Handling
  <2> QED BY <2>1 DEF RequestsInv, OrderInv, AnswersInOrder, Terminal
<1> QED BY <1>1, <1>2, <1>3, <1>4 DEF RequestsNext

(* A refused request has done nothing.                                      *)
LEMMA EffectStep ==
  ASSUME RequestsInv, RequestsNext
  PROVE  EffectInv'
<1>1. CASE ReadStdin \/ ReadRequestFile
  <2>1. UNCHANGED <<output, worked>>
    BY <1>1 DEF ReadStdin, ReadRequestFile
  <2>2. stage' = "ended" \/ (stage' = "admit" /\ taken' = taken + 1)
    BY <1>1 DEF ReadStdin, ReadRequestFile, Take, Advance
  <2>3. taken + 1 \notin worked
    BY DEF RequestsInv, RequestTypes, RequestsTypeOK
  <2> QED BY <2>1, <2>2, <2>3 DEF RequestsInv, EffectInv, Terminal
<1>2. CASE Progress
  <2>1. PICK line \in Lines :
           /\ output' = Append(output, line) /\ line.id = taken
           /\ line.kind = "progress" /\ line.code = "" /\ line.told = ""
    BY <1>2, ProgressEffect DEF RequestsInv
  <2>2. stage = "work" /\ UNCHANGED <<taken, stage, worked, answer>>
    BY <1>2 DEF Progress
  <2>3. \A i \in DOMAIN output' :
           (i \in DOMAIN output /\ output'[i] = output[i]) \/ output'[i] = line
    <3>1. output \in Seq(Lines)
      BY DEF RequestsInv, RequestTypes
    <3>2. output' = Append(output, line)
      BY <2>1
    <3> QED BY ONLY <3>1, <3>2, LineAdded, line \in Lines
  <2> QED BY <2>1, <2>2, <2>3, CodesApart DEF RequestsInv, EffectInv, Terminal
<1>3. CASE WriteAnswer
  <2>1. stage = "write" /\ UNCHANGED <<taken, worked>> /\ stage' \in {"reading", "ended"}
    BY <1>3 DEF WriteAnswer, Advance
  <2>2. CASE output' = output
    BY <2>1, <2>2 DEF RequestsInv, EffectInv, Terminal
  <2>3. CASE \E line \in Lines : /\ output' = Append(output, line) /\ line.id = taken
                                 /\ line.kind \in {"result", "error"} /\ line.code = answer.code
    <3>1. PICK line \in Lines : /\ output' = Append(output, line) /\ line.id = taken
                                /\ line.kind \in {"result", "error"} /\ line.code = answer.code
      BY <2>3
    <3>2. \A i \in DOMAIN output' :
             (i \in DOMAIN output /\ output'[i] = output[i]) \/ output'[i] = line
      <4>1. output \in Seq(Lines)
        BY DEF RequestsInv, RequestTypes
      <4> QED BY ONLY <3>1, <4>1, LineAdded, line \in Lines
    <3> QED BY <2>1, <3>1, <3>2 DEF RequestsInv, EffectInv, Terminal
  <2> QED BY <1>3, <2>2, <2>3, AnswerEffect DEF RequestsInv
<1>4. CASE Admit \/ Check
  <2>1. /\ UNCHANGED <<taken, output, worked>> /\ stage \in {"admit", "checks"}
        /\ stage' \in {"checks", "work", "finalize"}
    BY <1>4 DEF Admit, Check, Advance
  <2> QED BY <2>1 DEF RequestsInv, EffectInv, Terminal
<1>5. CASE Work
  <2>1. /\ UNCHANGED <<taken, output>> /\ stage = "work" /\ stage' = "finalize"
        /\ worked' \subseteq worked \cup {taken}
    BY <1>5 DEF Work, Advance
  <2>2. answer'.code \notin EarlyCodes
    <3>1. CASE Answers(Success)
      BY <3>1, SuccessVerdict, CodesApart DEF Answers
    <3>2. CASE \E code \in HandlerOf(current.method).late : Fails(code)
      <4>1. current.method \in Methods
        BY <2>1 DEF RequestsInv, RequestTypes
      <4>2. PICK code \in LateCodes : Fails(code)
        BY <3>2, <4>1, HandlerFound
      <4>3. answer'.code = code
        BY <4>2, FailsEffect
      <4> QED BY <4>2, <4>3, CodesApart
    <3> QED BY <1>5, <3>1, <3>2 DEF Work
  <2>3. ASSUME NEW i \in DOMAIN output, output[i].code \in EarlyCodes
        PROVE  output[i].id \notin worked'
    <3>1. Terminal(output[i])
      BY <2>3, CodesApart DEF RequestsInv, EffectInv
    <3>2. output[i].id < taken /\ output[i].id \in Nat /\ taken \in Nat
      BY <2>1, <3>1 DEF RequestsInv, OrderInv, AnswersInOrder, Handling, RequestTypes,
          RequestsTypeOK
    <3>3. output[i].id # taken /\ output[i].id \notin worked
      <4>1. output[i].id # taken
        BY ONLY <3>2
      <4> QED BY <2>3, <4>1 DEF RequestsInv, EffectInv
    <3> QED BY <2>1, <3>3
  <2> QED BY <2>1, <2>2, <2>3 DEF RequestsInv, EffectInv, Terminal
<1>6. CASE Finalize \/ RaiseAlert
  <2>1. /\ UNCHANGED <<taken, output, worked>> /\ stage \in {"finalize", "alert"}
        /\ stage' \in {"alert", "write"} /\ answer'.code = answer.code
    BY <1>6, FinalizeEffect, AlertEffect DEF Finalize, RaiseAlert, RequestsInv, RecordInv
  <2> QED BY <2>1 DEF RequestsInv, EffectInv, Terminal
<1>7. CASE OpenRequestFile \/ Kill
  <2>1. UNCHANGED <<taken, output, worked>> /\ stage' \in {"opened", "refused", "ended"}
    BY <1>7 DEF OpenRequestFile, Kill, Advance
  <2> QED BY <2>1 DEF RequestsInv, EffectInv, Terminal
<1> QED BY <1>1, <1>2, <1>3, <1>4, <1>5, <1>6, <1>7 DEF RequestsNext

(* What an answer says of its record is so.                                 *)
LEMMA RecordStep ==
  ASSUME RequestsInv, RequestsNext
  PROVE  RecordInv'
<1>1. CASE ReadStdin \/ ReadRequestFile
  <2>1. UNCHANGED <<output, recorded, alerted>>
    BY <1>1 DEF ReadStdin, ReadRequestFile
  <2>2. stage' = "ended" \/ (stage' = "admit" /\ taken' = taken + 1)
    BY <1>1 DEF ReadStdin, ReadRequestFile, Take, Advance
  <2>3. taken + 1 \notin recorded
    BY DEF RequestsInv, RequestTypes, RequestsTypeOK
  <2> QED BY <2>1, <2>2, <2>3 DEF RequestsInv, RecordInv, TelemetryTold, Vouched
<1>2. CASE Progress
  <2>1. PICK line \in Lines :
           /\ output' = Append(output, line) /\ line.id = taken
           /\ line.kind = "progress" /\ line.code = "" /\ line.told = ""
    BY <1>2, ProgressEffect DEF RequestsInv
  <2>2. stage = "work" /\ UNCHANGED <<taken, stage, recorded, alerted>>
    BY <1>2 DEF Progress
  <2>3. \A i \in DOMAIN output' :
           (i \in DOMAIN output /\ output'[i] = output[i]) \/ output'[i] = line
    <3>1. output \in Seq(Lines)
      BY DEF RequestsInv, RequestTypes
    <3>2. output' = Append(output, line)
      BY <2>1
    <3> QED BY ONLY <3>1, <3>2, LineAdded, line \in Lines
  <2> QED BY <2>1, <2>2, <2>3 DEF RequestsInv, RecordInv, TelemetryTold, Vouched
<1>3. CASE WriteAnswer
  <2>1. stage = "write" /\ UNCHANGED <<taken, recorded, alerted>> /\ stage' \in {"reading", "ended"}
    BY <1>3 DEF WriteAnswer, Advance
  <2>2. CASE output' = output
    BY <2>1, <2>2 DEF RequestsInv, RecordInv, TelemetryTold, Vouched
  <2>3. CASE \E line \in Lines :
                /\ output' = Append(output, line)
                /\ line.id = taken /\ line.told = answer.told
                /\ line.kind = "result" => answer.ok
                /\ line.known = answer.known /\ line.due = answer.due
                /\ line.list = (current.method = "providers.detect")
    <3>1. PICK line \in Lines :
                /\ output' = Append(output, line)
                /\ line.id = taken /\ line.told = answer.told
                /\ line.kind = "result" => answer.ok
                /\ line.known = answer.known /\ line.due = answer.due
                /\ line.list = (current.method = "providers.detect")
      BY <2>3
    <3>2. \A i \in DOMAIN output' :
             (i \in DOMAIN output /\ output'[i] = output[i]) \/ output'[i] = line
      <4>1. output \in Seq(Lines)
        BY DEF RequestsInv, RequestTypes
      <4> QED BY ONLY <3>1, <4>1, LineAdded, line \in Lines
    <3>3. /\ Vouched(line) => line.id \in recorded /\ (line.due => line.id \in alerted)
          /\ line.told = "no" /\ ~line.known => line.id \notin recorded
      <4>1. Vouched(line) => Vouching
        BY <3>1 DEF Vouched, Vouching
      <4> QED BY <2>1, <3>1, <4>1 DEF RequestsInv, RecordInv
    <3> QED BY <2>1, <3>2, <3>3 DEF RequestsInv, RecordInv, TelemetryTold, Vouched
  <2> QED BY <1>3, <2>2, <2>3, AnswerEffect DEF RequestsInv
<1>4. CASE Finalize
  <2>1. UNCHANGED <<taken, output, current, alerted>> /\ stage = "finalize"
    BY <1>4 DEF Finalize
  <2>2. /\ recorded' \in {recorded, recorded \cup {taken}} /\ stage' \in {"alert", "write"}
        /\ stage' = "alert" => taken \in recorded' /\ answer'.known /\ HasWorkspace(current, answer')
        /\ stage' = "write" /\ Vouching' => taken \in recorded' /\ ~answer'.due
        /\ stage' = "write" /\ ~answer'.known => recorded' = recorded
    BY <1>4, FinalizeEffect DEF RequestsInv
  <2>3. taken \notin recorded
    BY <2>1 DEF RequestsInv, RecordInv
  <2>4. ASSUME NEW i \in DOMAIN output, output[i].told = "no", ~output[i].known
        PROVE  output[i].id \notin recorded'
    <3>1. Terminal(output[i])
      BY <2>4 DEF RequestsInv, EffectInv
    <3>2. output[i].id < taken /\ output[i].id \in Nat /\ taken \in Nat
      BY <2>1, <3>1 DEF RequestsInv, OrderInv, AnswersInOrder, Handling, RequestTypes,
          RequestsTypeOK
    <3>3. output[i].id # taken /\ output[i].id \notin recorded
      <4>1. output[i].id # taken
        BY ONLY <3>2
      <4> QED BY <2>4, <4>1 DEF RequestsInv, RecordInv, TelemetryTold
    <3> QED BY <2>2, <3>3
  <2>5. recorded \subseteq recorded'
    BY <2>2
  <2>6. TelemetryTold'
    <3>1. \A i \in DOMAIN output : Vouched(output[i]) =>
             output[i].id \in recorded' /\ (output[i].due => output[i].id \in alerted)
      BY <2>5 DEF RequestsInv, RecordInv, TelemetryTold
    <3>2. alerted \subseteq recorded'
      BY <2>5 DEF RequestsInv, RecordInv, TelemetryTold
    <3> QED BY <2>1, <2>4, <3>1, <3>2 DEF TelemetryTold, Vouched
  <2>7. stage' = "alert" => HasWorkspace(current, answer)'
    BY <2>1, <2>2 DEF HasWorkspace
  <2> QED BY <2>1, <2>2, <2>3, <2>6, <2>7 DEF RecordInv
<1>6. CASE RaiseAlert
  <2>1. UNCHANGED <<taken, output, recorded>> /\ stage = "alert"
    BY <1>6 DEF RaiseAlert
  <2>2. taken \in recorded /\ answer.known /\ HasWorkspace(current, answer)
    BY <2>1 DEF RequestsInv, RecordInv
  <2>3. /\ alerted' \in {alerted, alerted \cup {taken}} /\ stage' = "write"
        /\ Vouching' => taken \in alerted'
        /\ answer'.known
    BY <1>6, <2>2, AlertEffect DEF RequestsInv
  <2>4. TelemetryTold'
    <3>1. /\ \A i \in DOMAIN output : Vouched(output[i]) =>
                 output[i].id \in recorded /\ (output[i].due => output[i].id \in alerted')
          /\ \A i \in DOMAIN output :
                 output[i].told = "no" /\ ~output[i].known => output[i].id \notin recorded
          /\ alerted' \subseteq recorded
      BY <2>2, <2>3 DEF RequestsInv, RecordInv, TelemetryTold
    <3> QED BY <2>1, <3>1 DEF TelemetryTold, Vouched
  <2> QED BY <2>1, <2>2, <2>3, <2>4 DEF RecordInv
<1>5. CASE \/ OpenRequestFile \/ Admit \/ Check \/ Work \/ Kill
  <2>1. /\ UNCHANGED <<taken, output, recorded, alerted>> /\ stage' \notin {"write", "alert"}
        /\ stage' \in {"admit", "checks", "work", "finalize"} =>
              stage \in {"admit", "checks", "work", "finalize"}
    BY <1>5 DEF OpenRequestFile, Admit, Check, Work, Kill, Advance
  <2> QED BY <2>1 DEF RequestsInv, RecordInv, TelemetryTold, Vouched
<1> QED BY <1>1, <1>2, <1>3, <1>4, <1>5, <1>6 DEF RequestsNext

(* The staging file is gone once the request was read.                      *)
LEMMA StagedStep ==
  ASSUME RequestsInv, RequestsNext
  PROVE  StagedInv'
<1> USE DEF RequestsInv, StagedInv, Advance
<1>1. CASE ReadStdin
  BY <1>1 DEF ReadStdin, Take
<1>2. CASE OpenRequestFile
  BY <1>2 DEF OpenRequestFile
<1>3. CASE ReadRequestFile
  BY <1>3 DEF ReadRequestFile, Take
<1>4. CASE Admit \/ Check \/ Progress \/ Work \/ Finalize \/ RaiseAlert \/ WriteAnswer
  <2>1. UNCHANGED <<mode, staged, killed>> /\ ~(stage \in {"reading", "opened", "refused", "ended"})
    BY <1>4 DEF Admit, Check, Progress, Work, Finalize, RaiseAlert, WriteAnswer
  <2> QED BY <2>1
<1>5. CASE Kill
  BY <1>5 DEF Kill
<1> QED BY <1>1, <1>2, <1>3, <1>4, <1>5 DEF RequestsNext

(* The invariant of the requests is inductive in the composition.           *)
LEMMA RequestsInductive == RequestsInv /\ [AnalysisNext]_analysisVars => RequestsInv'
<1> SUFFICES ASSUME RequestsInv, [AnalysisNext]_analysisVars PROVE RequestsInv'
  OBVIOUS
<1>1. CASE RequestsNext
  BY <1>1, RequestTypeStep, OrderStep, EffectStep, RecordStep, StagedStep DEF RequestsInv
<1>2. CASE UNCHANGED requestVars
  <2> USE <1>2 DEF requestVars, RequestsInv
  <2>1. RequestTypes' /\ OrderInv'
    BY DEF RequestTypes, RequestsTypeOK, OrderInv, AnswersInOrder, Handling, Terminal
  <2>2. EffectInv' /\ StagedInv'
    BY DEF EffectInv, StagedInv, Terminal
  <2>3. RecordInv'
    <3>1. TelemetryTold'
      BY DEF RecordInv, TelemetryTold, Vouched
    <3>2. (Vouching' <=> Vouching) /\ (HasWorkspace(current, answer)' <=> HasWorkspace(current, answer))
      BY DEF Vouching, HasWorkspace
    <3> QED BY <3>1, <3>2 DEF RecordInv
  <2> QED BY <2>1, <2>2, <2>3
<1> QED BY <1>1, <1>2, AnalysisStep

(* main.rs, protocol.rs and service.rs, for any number of frames and of     *)
(* progress lines: every request is answered once and in turn, a refused    *)
(* request has done nothing, an answer that vouches for its reliability     *)
(* record has it and its alert in the ledger, whichever of the appends may  *)
(* fail, and no staging file outlives a process that could remove it.      *)
THEOREM RequestsAreAnswered == AnalysisSpec => []RequestsSound
<1>1. AnalysisInit => RequestsInv
  BY RequestsStart DEF AnalysisInit
<1>2. RequestsInv => RequestsSound
  <2> SUFFICES ASSUME RequestsInv PROVE RequestsSound
    OBVIOUS
  <2>1. \A h \in DISPATCH : h.early \subseteq EarlyCodes
    BY DispatchApart DEF Apart
  <2>2. RefusedDidNothing
    <3> DEFINE handlers == UNION {h.early : h \in DISPATCH}
               service == {"protocol_version", "feature_paused", "feature_control_unavailable",
                           "method_not_found", "workspace_required", "invalid_params"}
    <3>1. handlers \subseteq EarlyCodes /\ service \subseteq EarlyCodes
      BY ONLY <2>1, CodesApart
    <3>2. \A i \in DOMAIN output : output[i].code \in EarlyCodes => output[i].id \notin worked
      BY DEF RequestsInv, EffectInv
    <3>3. RefusedDidNothing <=>
             \A i \in DOMAIN output : output[i].code \in handlers \cup service
                                          => output[i].id \notin worked
      BY DEF RefusedDidNothing
    <3> HIDE DEF handlers, service
    <3> QED BY ONLY <3>1, <3>2, <3>3
  <2>3. StagingRemoved
    BY DEF StagingRemoved, RequestsInv, StagedInv
  <2> QED BY <2>2, <2>3 DEF RequestsInv, RequestTypes, OrderInv, RecordInv, RequestsSound
<1> QED BY <1>1, <1>2, RequestsInductive, PTL DEF AnalysisSpec
=============================================================================
