----------------------------- MODULE PartsProofs -----------------------------
(***************************************************************************)
(* The parts MCParts puts side by side share no variable, so each is       *)
(* proved about on its own, from its own assumption; a step of PartsNext   *)
(* is a step of the part, or leaves it alone.                              *)
(***************************************************************************)
EXTENDS MCParts, SchedulerProofs, SequenceTheorems

\* Numbers have a least one.
LEMMA LeastIsOne ==
    ASSUME NEW S \in SUBSET Nat, S # {}
    PROVE  (CHOOSE x \in S : \A y \in S : x <= y) \in S
  BY Least

-----------------------------------------------------------------------------
(* Ingestion on the host of the API *)

USE IngestAssumption

AtFile == {"open", "write", "rename"}
WritesPart(c, d) == c \in last /\ fd[c] = "part" /\ Current(c) = d

\* A call that has a file open is at a day of its list.
CallsAtFile ==
    \A c \in Callers :
        /\ step[c] \in AtFile => todo[c] # {}
        /\ step[c] # "write" => fd[c] = "none" /\ c \notin last
        /\ source = "binance" => step[c] # "rename" /\ fd[c] # "part"
        /\ c \in last /\ fd[c] = "target" => target[Current(c)] # "none"

\* A month that another call has begun since this one found it missing.
FoundMissing ==
    source = "binance" =>
        \A c \in Callers : step[c] = "open" /\ target[Current(c)] # "none" =>
            Current(c) \in overlapped

\* A day that only one call ever had in hand: its part file is that call's.
OneAtDay ==
    source = "aws" =>
        \A c \in Callers : step[c] \in {"write", "rename"} /\ Current(c) \notin overlapped =>
            /\ \A o \in Callers : step[o] \in {"write", "rename"} /\ Current(o) = Current(c) =>
                  o = c
            /\ step[c] = "write" => fd[c] = "part" /\ c \in last /\ part[Current(c)] = "half"
            /\ step[c] = "rename" => part[Current(c)] = "whole"

\* Half a part file is being written, or of a day no call is at any more.
PartIsExplained ==
    source = "aws" =>
        \A d \in Days : part[d] = "half" =>
            \/ \E c \in Callers : WritesPart(c, d)
            \/ \A c \in Callers : step[c] \in {"write", "rename"} => Current(c) # d

IngestInv == /\ HalfIsExplained /\ CallsAtFile /\ FoundMissing /\ OneAtDay
             /\ PartIsExplained

LEMMA DayInHand ==
    ASSUME IngestTypeOK, NEW c \in Callers, todo[c] # {}
    PROVE  Current(c) \in todo[c] /\ Current(c) \in Days
<1>1. todo[c] \in SUBSET Days /\ todo[c] \in SUBSET Nat
  BY IngestAssumption DEF IngestTypeOK
<1>2. Current(c) \in todo[c]
  BY <1>1, LeastIsOne DEF Current, Min
<1> QED
  BY <1>1, <1>2

\* What is left of a step whose call reads or writes no file: others stay.
LEMMA BetweenFiles ==
    ASSUME IngestInv, NEW c \in Callers,
           Begin(c) \/ Fetch(c) \/ Pass(c) \/ Return(c)
    PROVE  IngestInv' /\ WholeStaysWhole
<1> USE DEF Goto, DayDone
<1>1. /\ IngestTypeOK
      /\ step[c] \in {"idle", "loop"} /\ c \notin last /\ fd[c] = "none"
  BY DEF IngestInv, HalfIsExplained, CallsAtFile, Begin, Fetch, Pass, Return
<1>2. /\ UNCHANGED <<source, target, part, fd, last, crashes, cut, overlapped>>
      /\ \E s \in {"idle", "loop", "open"} : step' = [step EXCEPT ![c] = s]
      /\ \E S \in SUBSET Days : todo' = [todo EXCEPT ![c] = S]
      /\ calls' \in 0 .. MaxCalls
      /\ step'[c] = "open" => todo' = todo /\ todo[c] # {}
                              /\ (source = "binance" => target[Current(c)] = "none")
  <2> USE <1>1 DEF IngestTypeOK
  <2>1. CASE Begin(c)
    <3>1. Missing \in SUBSET Days
      BY DEF Missing
    <3> QED
      BY <2>1, <3>1 DEF Begin
  <2>2. CASE Fetch(c)
    <3>1. todo[c] \in SUBSET Days /\ todo' = [todo EXCEPT ![c] = todo[c]]
      BY <2>2 DEF Fetch
    <3> QED
      BY <2>2, <3>1 DEF Fetch
  <2>3. CASE Pass(c)
    <3>1. todo[c] \ {Current(c)} \in SUBSET Days
      OBVIOUS
    <3> QED
      BY <2>3, <3>1 DEF Pass
  <2>4. CASE Return(c)
    BY <2>4 DEF Return
  <2> QED
    BY <2>1, <2>2, <2>3, <2>4
<1>3. \A o \in Callers : o # c => step'[o] = step[o] /\ Current(o)' = Current(o)
                                  /\ todo'[o] = todo[o]
  BY <1>1, <1>2 DEF IngestTypeOK, Current
<1>4. step'[c] \in {"idle", "loop", "open"}
  BY <1>1, <1>2 DEF IngestTypeOK
<1>5. step'[c] = "open" => Current(c)' = Current(c) /\ todo'[c] # {}
  BY <1>2 DEF Current
<1>6. IngestTypeOK'
  BY <1>1, <1>2 DEF IngestTypeOK
<1> HIDE DEF Goto, DayDone
<1>7. HalfIsExplained'
  <2> SUFFICES ASSUME NEW e \in Days, target[e] = "half"
               PROVE  /\ \/ \E o \in last : fd[o] = "target" /\ Current(o)' = e
                         \/ e \in cut
                      /\ source = "aws" => e \in overlapped
    BY <1>2, <1>6 DEF HalfIsExplained
  <2>1. \A o \in last : o # c /\ o \in Callers
    BY <1>1 DEF IngestTypeOK
  <2> QED
    BY <2>1, <1>3 DEF IngestInv, HalfIsExplained
<1>8. CallsAtFile'
  BY <1>1, <1>2, <1>3, <1>4, <1>5 DEF IngestInv, CallsAtFile, AtFile
<1>9. FoundMissing'
  BY <1>1, <1>2, <1>3, <1>4, <1>5 DEF IngestInv, FoundMissing
<1>10. OneAtDay'
  BY <1>1, <1>2, <1>3, <1>4 DEF IngestInv, OneAtDay
<1>11. PartIsExplained'
  BY <1>1, <1>2, <1>3, <1>4 DEF IngestInv, PartIsExplained, WritesPart
<1> QED
  BY <1>2, <1>7, <1>8, <1>9, <1>10, <1>11 DEF IngestInv, WholeStaysWhole

LEMMA OpenStep ==
    ASSUME IngestInv, NEW c \in Callers, Open(c)
    PROVE  IngestInv' /\ WholeStaysWhole
<1> DEFINE d == Current(c)
<1> USE DEF Goto
<1>1. /\ IngestTypeOK
      /\ step[c] = "open" /\ c \notin last /\ fd[c] = "none" /\ todo[c] # {}
      /\ UNCHANGED <<source, todo, calls, crashes, cut>>
  BY DEF IngestInv, HalfIsExplained, CallsAtFile, Open, AtFile
<1>2. d \in Days
  BY <1>1, DayInHand
<1>3. \A o \in Callers : Current(o)' = Current(o) /\ (o # c => step'[o] = step[o])
  BY <1>1 DEF IngestTypeOK, Current, Open
<1>4. /\ step'[c] = "write" /\ step' \in [Callers -> {"idle", "loop", "open", "write", "rename"}]
      /\ last' = (last \ Others(c, IF source = "aws" THEN "part" ELSE "target")) \union {c}
      /\ fd' = [fd EXCEPT ![c] = IF source = "aws" THEN "part" ELSE "target"]
  BY <1>1 DEF IngestTypeOK, Open
<1>5. /\ overlapped \subseteq overlapped' /\ overlapped' \subseteq Days
      /\ (\E o \in Callers \ {c} : InHand(o, d)) => d \in overlapped'
  BY <1>1, <1>2 DEF IngestTypeOK, Open
<1>6. \A o \in Callers \ {c} : step[o] \in AtFile /\ Current(o) = d => d \in overlapped'
  BY <1>5 DEF InHand, AtFile
<1>7. source = "aws" => target' = target /\ part' = [part EXCEPT ![d] = "half"]
  BY DEF Open
<1>8. source = "binance" => part' = part /\ target' = [target EXCEPT ![d] = "half"]
  BY DEF Open
<1>9. source \in {"aws", "binance"}
  BY <1>1, IngestAssumption DEF IngestTypeOK
<1>10. IngestTypeOK'
  BY <1>1, <1>2, <1>4, <1>5, <1>7, <1>8, <1>9 DEF IngestTypeOK
<1>11. \A o \in last : Current(o) # d \/ (source = "aws" /\ fd[o] = "target") => o \in last'
  BY <1>4 DEF Others
<1>12. \A o \in Callers : o # c => fd'[o] = fd[o]
  BY <1>1, <1>4 DEF IngestTypeOK
<1>13. fd'[c] = IF source = "aws" THEN "part" ELSE "target"
  BY <1>1, <1>4 DEF IngestTypeOK
<1>14. last' \subseteq last \union {c} /\ c \in last'
  BY <1>4
<1>15. /\ \A e \in Days : e # d => target'[e] = target[e] /\ part'[e] = part[e]
       /\ source = "aws" => part'[d] = "half" /\ target'[d] = target[d]
       /\ source = "binance" => target'[d] = "half"
  BY <1>1, <1>2, <1>7, <1>8, <1>9 DEF IngestTypeOK
<1> HIDE DEF d, Goto
<1>16. d = Current(c)
  BY DEF d
<1>17. HalfIsExplained'
  <2> SUFFICES ASSUME NEW e \in Days, target'[e] = "half"
               PROVE  /\ \/ \E o \in last' : fd'[o] = "target" /\ Current(o)' = e
                         \/ e \in cut
                      /\ source = "aws" => e \in overlapped'
    BY <1>1, <1>10 DEF HalfIsExplained
  <2>1. CASE e = d /\ source = "binance"
    BY <2>1, <1>3, <1>13, <1>14, <1>16
  <2>2. CASE e # d \/ source = "aws"
    <3>1. target[e] = "half"
      BY <2>2, <1>15
    <3>2. source = "aws" => e \in overlapped'
      BY <3>1, <1>5 DEF IngestInv, HalfIsExplained
    <3>3. CASE e \in cut
      BY <3>2, <3>3
    <3>4. CASE \E o \in last : fd[o] = "target" /\ Current(o) = e
      <4>1. PICK o \in last : fd[o] = "target" /\ Current(o) = e
        BY <3>4
      <4>2. o \in last' /\ o \in Callers /\ o # c
        BY <4>1, <2>2, <1>1, <1>11 DEF IngestTypeOK
      <4> QED
        BY <4>1, <4>2, <3>2, <1>3, <1>12
    <3> QED
      BY <3>1, <3>3, <3>4 DEF IngestInv, HalfIsExplained
  <2> QED
    BY <2>1, <2>2, <1>9
<1>18. CallsAtFile'
  <2> SUFFICES ASSUME NEW o \in Callers
               PROVE  /\ step'[o] \in AtFile => todo[o] # {}
                      /\ step'[o] # "write" => fd'[o] = "none" /\ o \notin last'
                      /\ source = "binance" => step'[o] # "rename" /\ fd'[o] # "part"
                      /\ o \in last' /\ fd'[o] = "target" => target'[Current(o)] # "none"
    BY <1>1, <1>3 DEF CallsAtFile, AtFile
  <2>1. CASE o = c
    BY <2>1, <1>1, <1>4, <1>9, <1>13, <1>15, <1>16
  <2>2. CASE o # c
    <3>1. /\ step[o] \in AtFile => todo[o] # {}
          /\ step[o] # "write" => fd[o] = "none" /\ o \notin last
          /\ source = "binance" => step[o] # "rename" /\ fd[o] # "part"
          /\ o \in last /\ fd[o] = "target" => target[Current(o)] # "none"
      BY DEF IngestInv, CallsAtFile
    <3>2. o \in last => Current(o) \in Days
      BY <3>1, <1>1, DayInHand DEF AtFile
    <3> QED
      BY <2>2, <3>1, <3>2, <1>3, <1>9, <1>12, <1>14, <1>15
  <2> QED
    BY <2>1, <2>2
<1>19. FoundMissing'
  <2> SUFFICES ASSUME source = "binance", NEW o \in Callers, step'[o] = "open",
                      target'[Current(o)] # "none"
               PROVE  Current(o) \in overlapped'
    BY <1>1, <1>3 DEF FoundMissing
  <2>1. o # c /\ step[o] = "open" /\ Current(o) \in Days
    BY <1>1, <1>3, <1>4, DayInHand DEF IngestInv, CallsAtFile, AtFile
  <2> QED
    BY <2>1, <1>5, <1>6, <1>15 DEF IngestInv, FoundMissing, AtFile
<1>20. OneAtDay'
  <2> SUFFICES ASSUME source = "aws", NEW x \in Callers, step'[x] \in {"write", "rename"},
                      Current(x) \notin overlapped'
               PROVE  /\ \A o \in Callers : step'[o] \in {"write", "rename"}
                                            /\ Current(o) = Current(x) => o = x
                      /\ step'[x] = "write" => fd'[x] = "part" /\ x \in last'
                                               /\ part'[Current(x)] = "half"
                      /\ step'[x] = "rename" => part'[Current(x)] = "whole"
    BY <1>1, <1>3 DEF OneAtDay
  <2>1. CASE x = c
    BY <2>1, <1>3, <1>4, <1>6, <1>13, <1>14, <1>15, <1>16 DEF AtFile
  <2>2. CASE x # c
    <3>1. Current(x) # d
      BY <2>2, <1>3, <1>6 DEF AtFile
    <3>2. Current(x) \in Days /\ Current(x) \notin overlapped /\ step[x] = step'[x]
      BY <2>2, <1>1, <1>3, <1>5, DayInHand DEF IngestInv, CallsAtFile, AtFile
    <3>3. /\ \A o \in Callers : step[o] \in {"write", "rename"} /\ Current(o) = Current(x)
                                => o = x
          /\ step[x] = "write" => fd[x] = "part" /\ x \in last /\ part[Current(x)] = "half"
          /\ step[x] = "rename" => part[Current(x)] = "whole"
      BY <3>2 DEF IngestInv, OneAtDay
    <3>4. \A o \in Callers : step'[o] \in {"write", "rename"} /\ Current(o) = Current(x)
                             => o = x
      BY <3>1, <3>3, <1>3, <1>16
    <3>5. part'[Current(x)] = part[Current(x)]
      BY <3>1, <3>2, <1>15
    <3>6. fd'[x] = fd[x] /\ (x \in last => x \in last')
      BY <2>2, <3>1, <1>11, <1>12
    <3> QED
      BY <3>2, <3>3, <3>4, <3>5, <3>6
  <2> QED
    BY <2>1, <2>2
<1>21. PartIsExplained'
  <2> SUFFICES ASSUME source = "aws", NEW e \in Days, part'[e] = "half"
               PROVE  \/ \E o \in Callers : o \in last' /\ fd'[o] = "part" /\ Current(o) = e
                      \/ \A o \in Callers : step'[o] \in {"write", "rename"} => Current(o) # e
    BY <1>1, <1>3 DEF PartIsExplained, WritesPart
  <2>1. CASE e = d
    BY <2>1, <1>13, <1>14, <1>16
  <2>2. CASE e # d
    BY <2>2, <1>1, <1>3, <1>11, <1>12, <1>15, <1>16 DEF IngestInv, PartIsExplained, WritesPart
  <2> QED
    BY <2>1, <2>2
<1>22. WholeStaysWhole
  <2> SUFFICES ASSUME NEW e \in Days, target[e] = "whole", target'[e] # "whole"
               PROVE  e \in overlapped'
    BY DEF WholeStaysWhole
  <2>1. e = d /\ source = "binance"
    BY <1>9, <1>15
  <2> QED
    BY <2>1, <1>1, <1>5, <1>16 DEF IngestInv, FoundMissing
<1> QED
  BY <1>17, <1>18, <1>19, <1>20, <1>21, <1>22 DEF IngestInv

LEMMA WriteStep ==
    ASSUME IngestInv, NEW c \in Callers, Write(c)
    PROVE  IngestInv' /\ WholeStaysWhole
<1> DEFINE d == Current(c)
<1> USE DEF Goto, DayDone
<1>1. /\ IngestTypeOK
      /\ step[c] = "write" /\ todo[c] # {}
      /\ UNCHANGED <<source, calls, crashes, cut, overlapped>>
  BY DEF IngestInv, HalfIsExplained, CallsAtFile, Write, AtFile
<1>2. d \in Days /\ todo[c] \ {d} \subseteq Days
  BY <1>1, DayInHand DEF IngestTypeOK
<1>3. \A o \in Callers : o # c => /\ Current(o)' = Current(o) /\ step'[o] = step[o]
                                  /\ todo'[o] = todo[o] /\ fd'[o] = fd[o]
  BY <1>1 DEF IngestTypeOK, Current, Write
<1>4. /\ source = "aws" => step'[c] = "rename" /\ Current(c)' = d /\ todo'[c] = todo[c]
      /\ source = "binance" => step'[c] = "loop"
      /\ fd'[c] = "none" /\ last' = last \ {c}
  BY <1>1 DEF IngestTypeOK, Write, Current
<1>5. /\ \A e \in Days : target'[e] = IF c \in last /\ fd[c] = "target" /\ e = d
                                      THEN "whole" ELSE target[e]
      /\ \A e \in Days : part'[e] = IF c \in last /\ fd[c] = "part" /\ e = d
                                    THEN "whole" ELSE part[e]
  BY <1>1, <1>2 DEF IngestTypeOK, Write
<1>6. IngestTypeOK'
  BY <1>1, <1>2 DEF IngestTypeOK, Write
<1>7. source \in {"aws", "binance"} /\ \A o \in last : o \in Callers
  BY <1>1 DEF IngestTypeOK
<1>8. \A o \in Callers : step[o] \in AtFile => todo[o] # {} /\ Current(o) \in Days
  BY <1>1, DayInHand DEF IngestInv, CallsAtFile
<1>9. d = Current(c)
  OBVIOUS
<1> HIDE DEF d, Goto, DayDone
<1>10. HalfIsExplained'
  <2> SUFFICES ASSUME NEW e \in Days, target'[e] = "half"
               PROVE  /\ \/ \E o \in last' : fd'[o] = "target" /\ Current(o)' = e
                         \/ e \in cut
                      /\ source = "aws" => e \in overlapped
    BY <1>1, <1>6 DEF HalfIsExplained
  <2>1. target[e] = "half" /\ ~(c \in last /\ fd[c] = "target" /\ e = d)
    BY <1>5
  <2>2. /\ \/ \E o \in last : fd[o] = "target" /\ Current(o) = e
           \/ e \in cut
        /\ source = "aws" => e \in overlapped
    BY <2>1 DEF IngestInv, HalfIsExplained
  <2>3. \A o \in last : fd[o] = "target" /\ Current(o) = e => o # c
    BY <2>1, <1>9
  <2> QED
    BY <2>2, <2>3, <1>3, <1>4, <1>7
<1>11. CallsAtFile'
  <2> SUFFICES ASSUME NEW o \in Callers
               PROVE  /\ step'[o] \in AtFile => todo'[o] # {}
                      /\ step'[o] # "write" => fd'[o] = "none" /\ o \notin last'
                      /\ source = "binance" => step'[o] # "rename" /\ fd'[o] # "part"
                      /\ o \in last' /\ fd'[o] = "target" => target'[Current(o)'] # "none"
    BY <1>1 DEF CallsAtFile, AtFile
  <2>1. CASE o = c
    BY <2>1, <1>1, <1>4, <1>7 DEF AtFile
  <2>2. CASE o # c
    <3>1. o \in last => step[o] = "write"
      BY DEF IngestInv, CallsAtFile
    <3>2. /\ step[o] \in AtFile => todo[o] # {}
          /\ step[o] # "write" => fd[o] = "none" /\ o \notin last
          /\ source = "binance" => step[o] # "rename" /\ fd[o] # "part"
          /\ o \in last /\ fd[o] = "target" => target[Current(o)] # "none"
      BY DEF IngestInv, CallsAtFile
    <3>3. /\ Current(o)' = Current(o) /\ step'[o] = step[o] /\ todo'[o] = todo[o]
          /\ fd'[o] = fd[o] /\ (o \in last' <=> o \in last)
      BY <2>2, <1>3, <1>4
    <3>4. o \in last => Current(o) \in Days
      BY <3>1, <1>8 DEF AtFile
    <3>5. o \in last /\ fd[o] = "target" => target'[Current(o)] # "none"
      BY <3>2, <3>4, <1>5
    <3> QED
      BY <3>2, <3>3, <3>5
  <2> QED
    BY <2>1, <2>2
<1>12. FoundMissing'
  <2> SUFFICES ASSUME source = "binance", NEW o \in Callers, step'[o] = "open",
                      target'[Current(o)'] # "none"
               PROVE  Current(o)' \in overlapped
    BY <1>1 DEF FoundMissing
  <2>1. o # c /\ step[o] = "open" /\ Current(o)' = Current(o) /\ Current(o) \in Days
    BY <1>3, <1>4, <1>8 DEF AtFile
  <2>2. target[Current(o)] # "none"
    BY <2>1, <1>5, <1>9 DEF IngestInv, CallsAtFile
  <2> QED
    BY <2>1, <2>2 DEF IngestInv, FoundMissing
<1>13. OneAtDay'
  <2> SUFFICES ASSUME source = "aws", NEW x \in Callers, step'[x] \in {"write", "rename"},
                      Current(x)' \notin overlapped
               PROVE  /\ \A o \in Callers : step'[o] \in {"write", "rename"}
                                            /\ Current(o)' = Current(x)' => o = x
                      /\ step'[x] = "write" => fd'[x] = "part" /\ x \in last'
                                               /\ part'[Current(x)'] = "half"
                      /\ step'[x] = "rename" => part'[Current(x)'] = "whole"
    BY <1>1 DEF OneAtDay
  <2>1. \A o \in Callers : Current(o)' = Current(o)
                           /\ (step'[o] \in {"write", "rename"} => step[o] \in {"write", "rename"})
    BY <1>1, <1>3, <1>4, <1>9
  <2>2. \A o \in Callers : step[o] \in {"write", "rename"} /\ Current(o) = Current(x) => o = x
    BY <2>1 DEF IngestInv, OneAtDay
  <2>3. CASE x = c
    BY <2>1, <2>2, <2>3, <1>1, <1>2, <1>4, <1>5, <1>9 DEF IngestInv, OneAtDay
  <2>4. CASE x # c
    <3>1. Current(x) # d /\ Current(x) \in Days
      BY <2>1, <2>2, <2>4, <1>1, <1>8, <1>9 DEF AtFile
    <3>2. /\ \A o \in Callers : step[o] \in {"write", "rename"} /\ Current(o) = Current(x) => o = x
          /\ step[x] = "write" => fd[x] = "part" /\ x \in last /\ part[Current(x)] = "half"
          /\ step[x] = "rename" => part[Current(x)] = "whole"
          /\ Current(x)' = Current(x) /\ step'[x] = step[x] /\ Current(x) \notin overlapped
      BY <2>1, <2>4, <1>1, <1>3 DEF IngestInv, OneAtDay
    <3>3. \A o \in Callers : step'[o] \in {"write", "rename"} /\ Current(o)' = Current(x)' => o = x
      BY <2>1, <3>2
    <3>4. /\ step'[x] = "write" => fd'[x] = "part" /\ x \in last' /\ part'[Current(x)'] = "half"
          /\ step'[x] = "rename" => part'[Current(x)'] = "whole"
      BY <2>1, <2>4, <3>1, <3>2, <1>3, <1>4, <1>5
    <3> QED
      BY <3>3, <3>4
  <2> QED
    BY <2>3, <2>4
<1>14. PartIsExplained'
  <2> SUFFICES ASSUME source = "aws", NEW e \in Days, part'[e] = "half"
               PROVE  \/ \E o \in Callers : o \in last' /\ fd'[o] = "part" /\ Current(o)' = e
                      \/ \A o \in Callers : step'[o] \in {"write", "rename"} => Current(o)' # e
    BY <1>1 DEF PartIsExplained, WritesPart
  <2>1. part[e] = "half" /\ ~(c \in last /\ fd[c] = "part" /\ e = d)
    BY <1>5
  <2> QED
    BY <2>1, <1>1, <1>3, <1>4, <1>9 DEF IngestInv, PartIsExplained, WritesPart
<1>15. WholeStaysWhole
  BY <1>5 DEF WholeStaysWhole
<1> QED
  BY <1>10, <1>11, <1>12, <1>13, <1>14, <1>15 DEF IngestInv

LEMMA FailStep ==
    ASSUME IngestInv, NEW c \in Callers, Fail(c)
    PROVE  IngestInv' /\ WholeStaysWhole
<1> DEFINE d == Current(c)
<1> USE DEF Goto, DayDone
<1>1. /\ IngestTypeOK
      /\ step[c] = "write" /\ todo[c] # {}
      /\ UNCHANGED <<source, target, calls, crashes, overlapped>>
  BY DEF IngestInv, HalfIsExplained, CallsAtFile, Fail, AtFile
<1>2. d \in Days /\ todo[c] \ {d} \subseteq Days
  BY <1>1, DayInHand DEF IngestTypeOK
<1>3. \A o \in Callers : o # c => /\ Current(o)' = Current(o) /\ step'[o] = step[o]
                                  /\ todo'[o] = todo[o]
  BY <1>1 DEF IngestTypeOK, Current, Fail
<1>4. step'[c] = "loop" /\ fd'[c] = "none" /\ last' = last \ {c}
  BY <1>1 DEF IngestTypeOK, Fail
<1>5. /\ \A o \in Callers : fd'[o] \in {fd[o], "none"}
      /\ \A o \in Callers \ {c} : fd[o] # "part" \/ Current(o) # d => fd'[o] = fd[o]
  BY DEF Fail, Others
<1>6. /\ cut \subseteq cut' /\ cut' \subseteq Days
      /\ c \in last /\ fd[c] = "target" => d \in cut'
  BY <1>1, <1>2 DEF IngestTypeOK, Fail, CutShort
<1>7. \A e \in Days : part'[e] = IF source = "aws" /\ e = d THEN "none" ELSE part[e]
  BY <1>1, <1>2 DEF IngestTypeOK, Fail
<1>8. IngestTypeOK'
  <2>1. fd' \in [Callers -> {"none", "part", "target"}]
    BY <1>1 DEF IngestTypeOK, Fail
  <2> QED
    BY <2>1, <1>1, <1>2, <1>4, <1>6 DEF IngestTypeOK, Fail
<1>9. \A o \in last : o \in Callers
  BY <1>1 DEF IngestTypeOK
<1>10. \A o \in Callers : step[o] \in AtFile => todo[o] # {} /\ Current(o) \in Days
  BY <1>1, DayInHand DEF IngestInv, CallsAtFile
<1>11. d = Current(c)
  OBVIOUS
<1> HIDE DEF d, Goto, DayDone
<1>12. HalfIsExplained'
  <2> SUFFICES ASSUME NEW e \in Days, target[e] = "half"
               PROVE  /\ \/ \E o \in last' : fd'[o] = "target" /\ Current(o)' = e
                         \/ e \in cut'
                      /\ source = "aws" => e \in overlapped
    BY <1>1, <1>8 DEF HalfIsExplained
  <2> QED
    BY <1>3, <1>4, <1>5, <1>6, <1>9, <1>11 DEF IngestInv, HalfIsExplained
<1>13. CallsAtFile'
  <2> SUFFICES ASSUME NEW o \in Callers
               PROVE  /\ step'[o] \in AtFile => todo'[o] # {}
                      /\ step'[o] # "write" => fd'[o] = "none" /\ o \notin last'
                      /\ source = "binance" => step'[o] # "rename" /\ fd'[o] # "part"
                      /\ o \in last' /\ fd'[o] = "target" => target[Current(o)'] # "none"
    BY <1>1 DEF CallsAtFile, AtFile
  <2>1. CASE o = c
    BY <2>1, <1>1, <1>4 DEF AtFile
  <2>2. CASE o # c
    BY <2>2, <1>3, <1>4, <1>5 DEF IngestInv, CallsAtFile
  <2> QED
    BY <2>1, <2>2
<1>14. FoundMissing'
  BY <1>1, <1>3, <1>4 DEF IngestInv, FoundMissing
<1>15. OneAtDay'
  <2> SUFFICES ASSUME source = "aws", NEW x \in Callers, step'[x] \in {"write", "rename"},
                      Current(x)' \notin overlapped
               PROVE  /\ \A o \in Callers : step'[o] \in {"write", "rename"}
                                            /\ Current(o)' = Current(x)' => o = x
                      /\ step'[x] = "write" => fd'[x] = "part" /\ x \in last'
                                               /\ part'[Current(x)'] = "half"
                      /\ step'[x] = "rename" => part'[Current(x)'] = "whole"
    BY <1>1 DEF OneAtDay
  <2>1. x # c /\ Current(x) # d /\ Current(x) \in Days
    BY <1>1, <1>3, <1>4, <1>10, <1>11 DEF IngestInv, OneAtDay, AtFile
  <2>2. /\ \A o \in Callers : step[o] \in {"write", "rename"} /\ Current(o) = Current(x) => o = x
        /\ step[x] = "write" => fd[x] = "part" /\ x \in last /\ part[Current(x)] = "half"
        /\ step[x] = "rename" => part[Current(x)] = "whole"
        /\ Current(x)' = Current(x) /\ step'[x] = step[x] /\ Current(x) \notin overlapped
    BY <2>1, <1>1, <1>3 DEF IngestInv, OneAtDay
  <2>3. \A o \in Callers : step'[o] \in {"write", "rename"} /\ Current(o)' = Current(x)' => o = x
    BY <2>1, <2>2, <1>3, <1>4
  <2>4. /\ step'[x] = "write" => fd'[x] = "part" /\ x \in last' /\ part'[Current(x)'] = "half"
        /\ step'[x] = "rename" => part'[Current(x)'] = "whole"
    BY <2>1, <2>2, <1>4, <1>5, <1>7
  <2> QED
    BY <2>3, <2>4
<1>16. PartIsExplained'
  <2> SUFFICES ASSUME source = "aws", NEW e \in Days, part'[e] = "half"
               PROVE  \/ \E o \in Callers : o \in last' /\ fd'[o] = "part" /\ Current(o)' = e
                      \/ \A o \in Callers : step'[o] \in {"write", "rename"} => Current(o)' # e
    BY <1>1 DEF PartIsExplained, WritesPart
  <2>1. part[e] = "half" /\ e # d
    BY <1>7
  <2> QED
    BY <2>1, <1>3, <1>4, <1>5, <1>11 DEF IngestInv, PartIsExplained, WritesPart
<1>17. WholeStaysWhole
  BY <1>1 DEF WholeStaysWhole
<1> QED
  BY <1>12, <1>13, <1>14, <1>15, <1>16, <1>17 DEF IngestInv

LEMMA RenameStep ==
    ASSUME IngestInv, NEW c \in Callers, Rename(c)
    PROVE  IngestInv' /\ WholeStaysWhole
<1> DEFINE d == Current(c)
           moved == part[d] # "none"
<1> USE DEF Goto, DayDone
<1>1. /\ IngestTypeOK /\ source = "aws"
      /\ step[c] = "rename" /\ todo[c] # {} /\ c \notin last /\ fd[c] = "none"
      /\ UNCHANGED <<source, last, calls, crashes, cut, overlapped>>
  <2>1. source \in {"aws", "binance"}
    BY DEF IngestInv, HalfIsExplained, IngestTypeOK
  <2> QED
    BY <2>1 DEF IngestInv, HalfIsExplained, CallsAtFile, Rename, AtFile
<1>2. d \in Days /\ todo[c] \ {d} \subseteq Days
  BY <1>1, DayInHand DEF IngestTypeOK
<1>3. \A o \in Callers : o # c => /\ Current(o)' = Current(o) /\ step'[o] = step[o]
                                  /\ todo'[o] = todo[o]
  BY <1>1 DEF IngestTypeOK, Current, Rename
<1>4. step'[c] = "loop"
  BY <1>1 DEF IngestTypeOK, Rename
<1>5. \A o \in Callers :
         /\ o # c /\ Current(o) = d /\ moved /\ fd[o] = "part" => fd'[o] = "target"
         /\ o # c /\ Current(o) = d /\ moved /\ fd[o] = "target" => fd'[o] = "none"
         /\ o = c \/ Current(o) # d \/ ~moved \/ fd[o] = "none" => fd'[o] = fd[o]
  <2>1. CASE ~moved
    BY <2>1 DEF Rename
  <2>2. CASE moved
    <3>1. fd' = [o \in Callers |-> CASE o \in Others(c, "part") -> "target"
                                     [] o \in Others(c, "target") -> "none"
                                     [] OTHER -> fd[o]]
      BY <2>2 DEF Rename
    <3> QED
      BY <3>1, <2>2 DEF Others
  <2> QED
    BY <2>1, <2>2
<1>6. \A e \in Days : /\ target'[e] = IF e = d /\ moved THEN part[d] ELSE target[e]
                      /\ part'[e] = IF e = d THEN "none" ELSE part[e]
  BY <1>1, <1>2 DEF IngestTypeOK, Rename
<1>7. IngestTypeOK'
  <2>1. fd' \in [Callers -> {"none", "part", "target"}]
    BY <1>1, <1>5 DEF IngestTypeOK, Rename
  <2>2. part[d] \in {"none", "half", "whole"}
    BY <1>1, <1>2 DEF IngestTypeOK
  <2>3. step' \in [Callers -> {"idle", "loop", "open", "write", "rename"}]
        /\ todo' \in [Callers -> SUBSET Days]
    BY <1>1, <1>2 DEF IngestTypeOK, Rename
  <2>4. target' \in [Days -> {"none", "half", "whole"}] /\ part' \in [Days -> {"none", "half", "whole"}]
    BY <2>2, <1>1 DEF IngestTypeOK, Rename
  <2> QED
    BY <2>1, <2>3, <2>4, <1>1 DEF IngestTypeOK
<1>8. \A o \in last : o \in Callers
  BY <1>1 DEF IngestTypeOK
<1>9. \A o \in Callers : step[o] \in AtFile => todo[o] # {} /\ Current(o) \in Days
  BY <1>1, DayInHand DEF IngestInv, CallsAtFile
<1>10. d = Current(c)
  OBVIOUS
<1>11. d \notin overlapped => part[d] = "whole"
  BY <1>1 DEF IngestInv, OneAtDay
<1>12. part[d] \in {"none", "half", "whole"} /\ (moved <=> part[d] # "none")
  BY <1>1, <1>2 DEF IngestTypeOK
<1> HIDE DEF d, moved, Goto, DayDone
<1>13. HalfIsExplained'
  <2> SUFFICES ASSUME NEW e \in Days, target'[e] = "half"
               PROVE  /\ \/ \E o \in last : fd'[o] = "target" /\ Current(o)' = e
                         \/ e \in cut
                      /\ e \in overlapped
    BY <1>1, <1>7 DEF HalfIsExplained
  <2>1. CASE e = d /\ moved
    <3>1. part[d] = "half" /\ d \in overlapped
      BY <2>1, <1>6, <1>11
    <3>2. PICK o \in Callers : o \in last /\ fd[o] = "part" /\ Current(o) = d
      BY <3>1, <1>1, <1>2, <1>10 DEF IngestInv, PartIsExplained, WritesPart
    <3> QED
      BY <2>1, <3>1, <3>2, <1>1, <1>3, <1>5
  <2>2. CASE ~(e = d /\ moved)
    <3>1. target[e] = "half"
      BY <2>2, <1>6
    <3>2. \A o \in last : o # c /\ (Current(o) = e => fd'[o] = fd[o])
      BY <2>2, <1>1, <1>5, <1>8
    <3> QED
      BY <3>1, <3>2, <1>1, <1>3, <1>8 DEF IngestInv, HalfIsExplained
  <2> QED
    BY <2>1, <2>2
<1>14. CallsAtFile'
  <2> SUFFICES ASSUME NEW o \in Callers
               PROVE  /\ step'[o] \in AtFile => todo'[o] # {}
                      /\ step'[o] # "write" => fd'[o] = "none" /\ o \notin last
                      /\ o \in last /\ fd'[o] = "target" => target'[Current(o)'] # "none"
    BY <1>1 DEF CallsAtFile, AtFile
  <2>1. CASE o = c
    BY <2>1, <1>1, <1>4, <1>5 DEF AtFile
  <2>2. CASE o # c
    <3>1. /\ step[o] # "write" => fd[o] = "none" /\ o \notin last
          /\ o \in last /\ fd[o] = "target" => target[Current(o)] # "none"
      BY DEF IngestInv, CallsAtFile
    <3>2. step'[o] # "write" => fd'[o] = "none" /\ o \notin last
      BY <2>2, <3>1, <1>3, <1>5
    <3>3. ASSUME o \in last, fd'[o] = "target" PROVE target'[Current(o)] # "none"
      <4>1. Current(o) \in Days
        BY <3>1, <3>3, <1>9 DEF AtFile
      <4>2. CASE Current(o) = d /\ moved
        BY <4>1, <4>2, <1>6, <1>12
      <4>3. CASE ~(Current(o) = d /\ moved)
        BY <4>1, <4>3, <3>1, <3>3, <1>5, <1>6
      <4> QED
        BY <4>2, <4>3
    <3> QED
      BY <2>2, <3>2, <3>3, <1>3, <1>9
  <2> QED
    BY <2>1, <2>2
<1>15. FoundMissing'
  BY <1>1 DEF FoundMissing
<1>16. OneAtDay'
  <2> SUFFICES ASSUME NEW x \in Callers, step'[x] \in {"write", "rename"},
                      Current(x)' \notin overlapped
               PROVE  /\ \A o \in Callers : step'[o] \in {"write", "rename"}
                                            /\ Current(o)' = Current(x)' => o = x
                      /\ step'[x] = "write" => fd'[x] = "part" /\ x \in last
                                               /\ part'[Current(x)'] = "half"
                      /\ step'[x] = "rename" => part'[Current(x)'] = "whole"
    BY <1>1 DEF OneAtDay
  <2>1. x # c /\ Current(x) # d /\ Current(x) \in Days
    BY <1>1, <1>3, <1>4, <1>9, <1>10 DEF IngestInv, OneAtDay, AtFile
  <2>2. /\ \A o \in Callers : step[o] \in {"write", "rename"} /\ Current(o) = Current(x) => o = x
        /\ step[x] = "write" => fd[x] = "part" /\ x \in last /\ part[Current(x)] = "half"
        /\ step[x] = "rename" => part[Current(x)] = "whole"
        /\ Current(x)' = Current(x) /\ step'[x] = step[x] /\ Current(x) \notin overlapped
    BY <2>1, <1>1, <1>3 DEF IngestInv, OneAtDay
  <2>3. \A o \in Callers : step'[o] \in {"write", "rename"} /\ Current(o)' = Current(x)' => o = x
    BY <2>1, <2>2, <1>3, <1>4
  <2>4. /\ step'[x] = "write" => fd'[x] = "part" /\ x \in last /\ part'[Current(x)'] = "half"
        /\ step'[x] = "rename" => part'[Current(x)'] = "whole"
    BY <2>1, <2>2, <1>1, <1>5, <1>6
  <2> QED
    BY <2>3, <2>4
<1>17. PartIsExplained'
  <2> SUFFICES ASSUME NEW e \in Days, part'[e] = "half"
               PROVE  \/ \E o \in Callers : o \in last /\ fd'[o] = "part" /\ Current(o)' = e
                      \/ \A o \in Callers : step'[o] \in {"write", "rename"} => Current(o)' # e
    BY <1>1 DEF PartIsExplained, WritesPart
  <2>1. part[e] = "half" /\ e # d
    BY <1>6
  <2> QED
    BY <2>1, <1>1, <1>3, <1>4, <1>5, <1>10 DEF IngestInv, PartIsExplained, WritesPart
<1>18. WholeStaysWhole
  BY <1>1, <1>6, <1>11 DEF WholeStaysWhole
<1> QED
  BY <1>13, <1>14, <1>15, <1>16, <1>17, <1>18 DEF IngestInv

LEMMA CrashStep ==
    ASSUME IngestInv, NEW c \in Callers, Crash(c)
    PROVE  IngestInv' /\ WholeStaysWhole
<1> DEFINE dead == IF source = "aws" THEN Callers ELSE {c}
<1>1. /\ IngestTypeOK
      /\ UNCHANGED <<source, target, part, calls, overlapped>>
      /\ crashes' \in 0 .. MaxCrashes
  BY DEF IngestInv, HalfIsExplained, IngestTypeOK, Crash
<1>2. /\ \A o \in dead : step'[o] = "idle" /\ fd'[o] = "none" /\ o \notin last'
      /\ \A o \in Callers \ dead : /\ step'[o] = step[o] /\ fd'[o] = fd[o]
                                   /\ todo'[o] = todo[o] /\ Current(o)' = Current(o)
      /\ last' = last \ dead
  BY DEF Crash, Current
<1>3. \A o \in Callers : step[o] \in AtFile => todo[o] # {} /\ Current(o) \in Days
  BY <1>1, DayInHand DEF IngestInv, CallsAtFile
<1>4. \A o \in last : o \in Callers /\ step[o] = "write" /\ Current(o) \in Days
  BY <1>1, <1>3 DEF IngestInv, CallsAtFile, AtFile, IngestTypeOK
<1>5. /\ cut' = cut \union {Current(o) : o \in {o \in dead \intersect last : fd[o] = "target"}}
      /\ step' = [o \in Callers |-> IF o \in dead THEN "idle" ELSE step[o]]
      /\ todo' = [o \in Callers |-> IF o \in dead THEN {} ELSE todo[o]]
      /\ fd' = [o \in Callers |-> IF o \in dead THEN "none" ELSE fd[o]]
  BY DEF Crash
<1>6. /\ cut \subseteq cut' /\ cut' \subseteq Days
      /\ \A o \in dead \intersect last : fd[o] = "target" => Current(o) \in cut'
  BY <1>1, <1>4, <1>5 DEF IngestTypeOK
<1>7. source \in {"aws", "binance"} /\ dead \subseteq Callers
      /\ (source = "aws" => dead = Callers)
  BY <1>1 DEF IngestTypeOK
<1> HIDE DEF dead
<1>8. IngestTypeOK'
  <2>1. /\ step' \in [Callers -> {"idle", "loop", "open", "write", "rename"}]
        /\ todo' \in [Callers -> SUBSET Days]
        /\ fd' \in [Callers -> {"none", "part", "target"}]
    BY <1>1, <1>5 DEF IngestTypeOK
  <2>2. last' \subseteq Callers
    BY <1>1, <1>2 DEF IngestTypeOK
  <2> QED
    BY <2>1, <2>2, <1>1, <1>6 DEF IngestTypeOK
<1>9. HalfIsExplained'
  <2> SUFFICES ASSUME NEW e \in Days, target[e] = "half"
               PROVE  /\ \/ \E o \in last' : fd'[o] = "target" /\ Current(o)' = e
                         \/ e \in cut'
                      /\ source = "aws" => e \in overlapped
    BY <1>1, <1>8 DEF HalfIsExplained
  <2> QED
    BY <1>2, <1>4, <1>6 DEF IngestInv, HalfIsExplained
<1>10. CallsAtFile'
  <2> SUFFICES ASSUME NEW o \in Callers
               PROVE  /\ step'[o] \in AtFile => todo'[o] # {}
                      /\ step'[o] # "write" => fd'[o] = "none" /\ o \notin last'
                      /\ source = "binance" => step'[o] # "rename" /\ fd'[o] # "part"
                      /\ o \in last' /\ fd'[o] = "target" => target[Current(o)'] # "none"
    BY <1>1 DEF CallsAtFile, AtFile
  <2>1. CASE o \in dead
    BY <2>1, <1>2 DEF AtFile
  <2>2. CASE o \notin dead
    BY <2>2, <1>2 DEF IngestInv, CallsAtFile
  <2> QED
    BY <2>1, <2>2
<1>11. FoundMissing'
  BY <1>1, <1>2 DEF IngestInv, FoundMissing
<1>12. OneAtDay' /\ PartIsExplained'
  <2>1. source = "aws" => \A o \in Callers : step'[o] = "idle"
    BY <1>2, <1>7
  <2> QED
    BY <2>1, <1>1 DEF OneAtDay, PartIsExplained
<1>13. WholeStaysWhole
  BY <1>1 DEF WholeStaysWhole
<1> QED
  BY <1>9, <1>10, <1>11, <1>12, <1>13 DEF IngestInv

LEMMA IngestStep ==
    ASSUME IngestInv, [IngestNext]_ingestVars
    PROVE  IngestInv' /\ WholeStaysWhole
<1>1. CASE UNCHANGED ingestVars
  <2> USE <1>1 DEF ingestVars, Current
  <2>1. HalfIsExplained' /\ CallsAtFile'
    BY DEF IngestInv, HalfIsExplained, IngestTypeOK, CallsAtFile
  <2>2. FoundMissing' /\ OneAtDay' /\ PartIsExplained'
    BY DEF IngestInv, FoundMissing, OneAtDay, PartIsExplained, WritesPart
  <2> QED
    BY <2>1, <2>2 DEF IngestInv, WholeStaysWhole
<1>2. CASE IngestNext
  BY <1>2, BetweenFiles, OpenStep, WriteStep, FailStep, RenameStep, CrashStep DEF IngestNext
<1> QED
  BY <1>1, <1>2

LEMMA IngestStarts ==
    ASSUME IngestInit
    PROVE  IngestInv
<1> USE DEF IngestInit
<1>1. IngestTypeOK
  BY DEF IngestTypeOK
<1>2. HalfIsExplained
  BY <1>1 DEF HalfIsExplained
<1> QED
  BY <1>2 DEF IngestInv, CallsAtFile, AtFile, FoundMissing, OneAtDay, PartIsExplained

HIDE IngestAssumption

LEMMA HostInParts ==
    /\ PartsInit => IngestInit
    /\ [PartsNext]_partsVars => [IngestNext]_ingestVars
<1>1. PartsInit => IngestInit
  BY DEF PartsInit
<1>2. ASSUME [PartsNext]_partsVars PROVE [IngestNext]_ingestVars
  BY <1>2 DEF PartsNext, partsVars, OnHost, OnColab, OnKaggle, InJobs, InAccounts,
     InWatchdog, InPool, InPlanner, ingestVars
<1> QED
  BY <1>1, <1>2

\* backend/binance_ingestion.py and backend/aws_blockchain_ingestion.py, called
\* by any number of threads for any range of days and killed at any moment:
\* a target file that is there is whole, or being written, or was cut short,
\* the last two for aws only on a day two calls had in hand at the same time;
\* and a whole file stays whole but on such a day.
THEOREM IngestedFilesWhole == PartsSpec => FilesWhole
<1>1. PartsInit => IngestInv
  BY HostInParts, IngestStarts
<1>2. IngestInv /\ [PartsNext]_partsVars => IngestInv'
  BY HostInParts, IngestStep
<1>3. IngestInv /\ [PartsNext]_partsVars => [HalfIsExplained' /\ WholeStaysWhole]_ingestVars
  BY HostInParts, IngestStep DEF IngestInv
<1> QED
  BY <1>1, <1>2, <1>3, PTL DEF PartsSpec, FilesWhole

-----------------------------------------------------------------------------
(* Ingestion in a Colab session *)

LEMMA ColabAssumed == Colab!ColabAssumption
BY PartsAssumption

USE ColabAssumed DEF Colab!ColabAssumption

\* What is on the disk and not on Drive was written by the job at work, or is
\* still to be pushed, or the next report of the session is not clean.
Unpushed ==
    /\ doing = "ingest" /\ ~unclean => disk \ written \subseteq mirrored
    /\ doing = "push" /\ ~failing => disk \ toPush \subseteq mirrored

ColabInv == Colab!CleanMeansMirrored /\ Unpushed

LEMMA ColabStarts ==
    ASSUME Colab!ColabInit
    PROVE  ColabInv
<1>1. /\ disk = {} /\ mirrored = {} /\ asked = {} /\ written = {} /\ toPush = {}
      /\ published \subseteq Colab!Months /\ doing = "poll"
  BY DEF Colab!ColabInit
<1>2. Colab!ColabTypeOK
  <2>1. 0 \in 0 .. MaxJobs /\ 0 \in 0 .. MaxDeaths
    OBVIOUS
  <2> QED
    BY <1>1, <2>1 DEF Colab!ColabInit, Colab!ColabTypeOK
<1> QED
  BY <1>1, <1>2 DEF ColabInv, Colab!CleanMeansMirrored, Unpushed

LEMMA ColabStep ==
    ASSUME ColabInv, [Colab!ColabNext]_(Colab!colabVars)
    PROVE  ColabInv'
<1> USE DEF ColabInv, Colab!CleanMeansMirrored, Colab!ColabTypeOK, Unpushed
<1>1. ASSUME NEW n \in Colab!Months, Colab!Job(n) PROVE ColabInv'
  <2>1. Newest - n + 1 .. Newest \subseteq Colab!Months
    BY DEF Colab!Months
  <2> QED
    BY <1>1, <2>1 DEF Colab!Job
<1>2. CASE Colab!SkipMonth
  BY <1>2 DEF Colab!SkipMonth
<1>3. CASE Colab!WriteMonth
  BY <1>3 DEF Colab!WriteMonth
<1>4. CASE Colab!Raise
  BY <1>4 DEF Colab!Raise
<1>5. CASE Colab!EndIngest
  BY <1>5 DEF Colab!EndIngest, Colab!Mirror
<1>6. CASE Colab!PushFile
  <2>1. Colab!Min(toPush) \in toPush
    BY <1>6, LeastIsOne DEF Colab!PushFile, Colab!Months, Colab!Min
  <2> QED
    BY <1>6, <2>1 DEF Colab!PushFile
<1>7. CASE Colab!PushFileFails
  BY <1>7 DEF Colab!PushFileFails
<1>8. CASE Colab!PushRaises
  BY <1>8 DEF Colab!PushRaises
<1>9. CASE Colab!EndPush
  BY <1>9 DEF Colab!EndPush
<1>10. CASE Colab!Publish
  BY <1>10 DEF Colab!Publish
<1>11. CASE Colab!SessionDies
  <2>1. /\ disk' = {} /\ asked' = {} /\ written' = {} /\ toPush' = {}
        /\ doing' = "poll" /\ failing' = FALSE /\ unclean' = FALSE
        /\ UNCHANGED <<secret, published, mirrored, jobs>>
        /\ deaths' \in 0 .. MaxDeaths
    BY <1>11 DEF Colab!SessionDies
  <2> QED
    BY <2>1
<1>12. CASE UNCHANGED Colab!colabVars
  BY <1>12 DEF Colab!colabVars
<1> QED
  BY <1>1, <1>2, <1>3, <1>4, <1>5, <1>6, <1>7, <1>8, <1>9, <1>10, <1>11, <1>12
     DEF Colab!ColabNext

HIDE ColabAssumed DEF Colab!ColabAssumption

LEMMA ColabInParts ==
    /\ PartsInit => Colab!ColabInit
    /\ [PartsNext]_partsVars => [Colab!ColabNext]_(Colab!colabVars)
<1>1. PartsInit => Colab!ColabInit
  BY DEF PartsInit
<1>2. ASSUME [PartsNext]_partsVars PROVE [Colab!ColabNext]_(Colab!colabVars)
  BY <1>2 DEF PartsNext, partsVars, OnHost, OnColab, OnKaggle, InJobs, InAccounts,
     InWatchdog, InPool, InPlanner, colab, Colab!colabVars
<1> QED
  BY <1>1, <1>2


-----------------------------------------------------------------------------
(* A run of a Kaggle kernel *)

LEMMA KernelAssumed == Kernel!KernelAssumption
BY PartsAssumption

USE KernelAssumed DEF Kernel!KernelAssumption

\* The instance has a copy of FiniteSets of its own.
LEMMA KernelCounts ==
    \A S : /\ Kernel!IsFiniteSet(S) <=> IsFiniteSet(S)
           /\ Kernel!Cardinality(S) = Cardinality(S)
<1>1. ASSUME NEW S PROVE Kernel!IsFiniteSet(S) <=> IsFiniteSet(S)
  BY DEF Kernel!IsFiniteSet, IsFiniteSet
<1>2. ASSUME NEW S PROVE Kernel!Cardinality(S) = Cardinality(S)
  BY DEF Kernel!Cardinality, Cardinality, Kernel!IsFiniteSet, IsFiniteSet
<1> QED
  BY <1>1, <1>2


\* A run reports only parts it has put out; those are on Drive at its end, or
\* still to be uploaded, or an error tells of it.
ReportedOut ==
    /\ reported \subseteq out
    /\ phase = "upload" /\ "file" \notin errors => out \subseteq shipped \union rest
    /\ phase \in {"result", "complete"} /\ folder /\ errors \intersect {"drive", "file"} = {} =>
          reported \subseteq shipped
    /\ resultFile => phase = "complete"

KernelInv == Kernel!ReportMeansShipped /\ ReportedOut

LEMMA KernelStarts ==
    ASSUME Kernel!KernelInit
    PROVE  KernelInv
<1>1. /\ kind \in Kinds /\ folder \in BOOLEAN /\ phase = "work" /\ rest = Parts
      /\ out = {} /\ pieces = {} /\ reported = {} /\ errors = {} /\ shipped = {}
      /\ resultFile = FALSE /\ run = 1 /\ copy = {}
  BY DEF Kernel!KernelInit
<1>2. Cardinality(copy) <= 1
  BY <1>1, FS_EmptySet, KernelCounts
<1>3. run \in 1 .. MaxRuns
  BY <1>1
<1>4. Kernel!KernelTypeOK
  BY <1>1, <1>2, <1>3, KernelCounts DEF Kernel!KernelTypeOK
<1> QED
  BY <1>1, <1>4 DEF KernelInv, Kernel!ReportMeansShipped, ReportedOut

LEMMA KernelStep ==
    ASSUME KernelInv, [Kernel!KernelNext]_(Kernel!kernelVars)
    PROVE  KernelInv'
<1> USE DEF KernelInv, Kernel!ReportMeansShipped, Kernel!KernelTypeOK, ReportedOut
<1>1. ASSUME rest # {} PROVE Kernel!Min(rest) \in rest
  BY <1>1, LeastIsOne DEF Kernel!Min
<1>2. CASE Kernel!FetchPart
  BY <1>1, <1>2 DEF Kernel!FetchPart, Kernel!NextPart
<1>3. CASE Kernel!FetchNothing
  BY <1>3 DEF Kernel!FetchNothing, Kernel!NextPart
<1>4. CASE Kernel!FetchPiece
  BY <1>1, <1>4 DEF Kernel!FetchPiece, Kernel!NextPart
<1>5. CASE Kernel!Die
  BY <1>5 DEF Kernel!Die
<1>6. CASE Kernel!Compute
  BY <1>6 DEF Kernel!Compute
<1>7. CASE Kernel!Bench
  BY <1>7 DEF Kernel!Bench
<1>8. CASE Kernel!Probe
  BY <1>8 DEF Kernel!Probe
<1>9. CASE Kernel!EndParts
  BY <1>9 DEF Kernel!EndParts
<1>10. CASE Kernel!StartUpload
  BY <1>10 DEF Kernel!StartUpload
<1>11. CASE Kernel!NoSecret
  BY <1>11 DEF Kernel!NoSecret
<1>12. CASE Kernel!NoUpload
  BY <1>12 DEF Kernel!NoUpload
<1>13. CASE Kernel!UploadFile
  BY <1>13 DEF Kernel!UploadFile
<1>14. CASE Kernel!UploadFileFails
  BY <1>14 DEF Kernel!UploadFileFails
<1>15. CASE Kernel!UploadRaises
  BY <1>15 DEF Kernel!UploadRaises
<1>16. CASE Kernel!EndUpload
  BY <1>16 DEF Kernel!EndUpload
<1>17. CASE Kernel!WriteResult
  BY <1>17 DEF Kernel!WriteResult
<1>18. CASE Kernel!KernelKilled
  BY <1>18 DEF Kernel!KernelKilled
<1>19. CASE Kernel!FetchOutput
  <2>1. CASE resultFile
    <3> DEFINE r == [run |-> run, reported |-> reported, errors |-> errors]
    <3>1. r \in Kernel!Result /\ copy' = {r}
      BY <1>19, <2>1 DEF Kernel!FetchOutput, Kernel!Result
    <3>2. Cardinality(copy') = 1
      BY <3>1, FS_Singleton, KernelCounts
    <3>3. /\ UNCHANGED <<kind, folder, phase, rest, out, pieces, reported, errors,
                          shipped, resultFile, run>>
      BY <1>19 DEF Kernel!FetchOutput
    <3>4. r.errors = errors /\ r.reported = reported
      OBVIOUS
    <3> HIDE DEF r
    <3>5. Kernel!KernelTypeOK'
      BY <3>1, <3>2, <3>3, KernelCounts
    <3>6. \A c \in copy' : folder' /\ c.errors \intersect {"drive", "file"} = {} =>
                             c.reported \subseteq shipped'
      BY <2>1, <3>1, <3>3, <3>4
    <3> QED
      BY <3>3, <3>5, <3>6
  <2>2. CASE ~resultFile
    BY <1>19, <2>2 DEF Kernel!FetchOutput
  <2> QED
    BY <2>1, <2>2
<1>20. CASE Kernel!PushAgain
  <2>1. /\ UNCHANGED <<kind, folder, shipped, copy>> /\ phase' = "work" /\ rest' = Parts
        /\ out' = {} /\ pieces' = {} /\ reported' = {} /\ errors' = {}
        /\ resultFile' = FALSE /\ run' \in 1 .. MaxRuns
    BY <1>20 DEF Kernel!PushAgain
  <2> QED
    BY <2>1
<1>21. CASE UNCHANGED Kernel!kernelVars
  BY <1>21 DEF Kernel!kernelVars
<1> QED
  BY <1>2, <1>3, <1>4, <1>5, <1>6, <1>7, <1>8, <1>9, <1>10, <1>11, <1>12, <1>13, <1>14,
     <1>15, <1>16, <1>17, <1>18, <1>19, <1>20, <1>21 DEF Kernel!KernelNext

HIDE KernelAssumed DEF Kernel!KernelAssumption

LEMMA KernelInParts ==
    /\ PartsInit => Kernel!KernelInit
    /\ [PartsNext]_partsVars => [Kernel!KernelNext]_(Kernel!kernelVars)
<1>1. PartsInit => Kernel!KernelInit
  BY DEF PartsInit
<1>2. ASSUME [PartsNext]_partsVars PROVE [Kernel!KernelNext]_(Kernel!kernelVars)
  BY <1>2 DEF PartsNext, partsVars, OnHost, OnColab, OnKaggle, InJobs, InAccounts,
     InWatchdog, InPool, InPlanner, kernel, Kernel!kernelVars
<1> QED
  BY <1>1, <1>2

\* A clean report of notebooks/colab_worker.py or of a kernel that
\* backend/kaggle_dispatch.py has pushed speaks of what is on Drive:
\* ReportsHonest holds of any number of months, parts, jobs, deaths and runs.
THEOREM CleanReportsHonest == PartsSpec => []ReportsHonest
<1>1. PartsInit => ColabInv /\ KernelInv
  BY ColabInParts, KernelInParts, ColabStarts, KernelStarts
<1>2. (ColabInv /\ KernelInv) /\ [PartsNext]_partsVars => (ColabInv /\ KernelInv)'
  BY ColabInParts, KernelInParts, ColabStep, KernelStep
<1>3. ColabInv /\ KernelInv => ReportsHonest
  BY DEF ReportsHonest, ColabInv, KernelInv
<1> QED
  BY <1>1, <1>2, <1>3, PTL DEF PartsSpec


-----------------------------------------------------------------------------
(* The list of Kaggle jobs *)

LEMMA KJobsAssumed == KJobs!KaggleAssumption
BY PartsAssumption

USE KJobsAssumed DEF KJobs!KaggleAssumption

Recorded == [job : Jobs, status : KJobs!States]
Busy == {"poll", "open", "write", "rename"}
JobsOn(s) == {s[i].job : i \in DOMAIN s}

\* An entry speaks of a push, and of what Kaggle says of its reference.
Told(e) ==
    /\ e.job \in KJobs!Pushed
    /\ e.status \in KJobs!DoneStates =>
          \E j \in Jobs : RefOf[j] = RefOf[e.job] /\ kernels[j] = e.status

OnRecord(s) == s \in Seq(Recorded) /\ \A i \in DOMAIN s : Told(s[i])

\* Kaggle answers for the newest push of a reference.
NewestKnown ==
    \A j \in KJobs!Pushed : /\ newest[RefOf[j]] \in KJobs!Pushed
                      /\ RefOf[newest[RefOf[j]]] = RefOf[j]

\* Every list there is, in a file or in hand, is one of pushes.
ListsTold ==
    /\ jobsFile \in {NoFile, Torn} \union Seq(Recorded)
    /\ jobsPart \in {NoFile, Torn} \union Seq(Recorded)
    /\ OnRecord(KJobs!Text(jobsFile)) /\ OnRecord(KJobs!Text(jobsPart))
    /\ Len(KJobs!Text(jobsPart)) <= Keep
    /\ list \in [Threads -> Seq(Recorded)] /\ \A t \in Threads : OnRecord(list[t])
    /\ entry \in [Threads -> Nat \ {0}] /\ crossed \in BOOLEAN
    /\ mine \in [Threads -> KJobs!Pushed \union {NoFile}]
    /\ handle \in [Threads -> {"none", "part", "file"}]
    /\ \A t \in Threads : /\ at[t] \in {"idle", "poll"} => mine[t] = NoFile
                          /\ at[t] = "load" => mine[t] # NoFile

\* While no two requests had lists in hand, one saves at a time, and its list
\* has all that the file has.
OneSaves ==
    /\ \A t, o \in Threads : at[t] \in Busy /\ at[o] \in Busy => t = o
    /\ \A t \in Threads : handle[t] = IF at[t] = "write" THEN "part" ELSE "none"
    /\ \A t \in Threads : at[t] = "rename" => jobsPart = KJobs!Newest200(list[t])
    /\ \A t \in Threads : at[t] \in Busy =>
          /\ Len(KJobs!Text(jobsFile)) <= Len(list[t])
          /\ JobsOn(KJobs!Text(jobsFile)) \subseteq JobsOn(list[t])
    /\ \A t \in Threads : at[t] \in Busy \ {"poll"} /\ mine[t] # NoFile =>
          mine[t] \in JobsOn(list[t])

JobsInv == /\ KJobs!JobsTypeOK /\ KJobs!PushesKept /\ NewestKnown /\ ListsTold
           /\ ~crossed => OneSaves

-----------------------------------------------------------------------------

\* What a save keeps of a list.
LEMMA SavedList ==
    ASSUME NEW S, NEW s \in Seq(S)
    PROVE  /\ KJobs!Newest200(s) \in Seq(S) /\ Len(KJobs!Newest200(s)) <= Keep
           /\ IF Len(s) <= Keep THEN KJobs!Newest200(s) = s ELSE Len(KJobs!Newest200(s)) = Keep
           /\ \A i \in DOMAIN KJobs!Newest200(s) : \E k \in DOMAIN s : KJobs!Newest200(s)[i] = s[k]
<1> DEFINE m == IF Len(s) > Keep THEN Len(s) - Keep + 1 ELSE 1
           n == Len(s)
<1>1. m \in Int /\ n \in Int /\ m \in 1 .. n + 1 /\ n \in Nat /\ m \in Nat /\ m >= 1
  BY LenProperties
<1>2. \A i \in m .. n : s[i] \in S
  BY <1>1, LenProperties
<1>3. KJobs!Newest200(s) = SubSeq(s, m, n)
  BY DEF KJobs!Newest200
<1>4. n - m + 1 = IF Len(s) > Keep THEN Keep ELSE n
  BY <1>1
<1>5. m <= n => n - m + 1 <= Keep
  BY <1>1, <1>4
<1>6. m > n => n = 0
  BY <1>1
<1> HIDE DEF m, n
<1>7. /\ KJobs!Newest200(s) \in Seq(S)
      /\ Len(KJobs!Newest200(s)) = IF m <= n THEN n - m + 1 ELSE 0
      /\ \A i \in 1 .. n - m + 1 : KJobs!Newest200(s)[i] = s[m + i - 1]
  BY <1>1, <1>2, <1>3, SubSeqProperties
<1>8. Len(KJobs!Newest200(s)) = n - m + 1 /\ Len(KJobs!Newest200(s)) <= Keep
  <2>1. CASE m <= n
    BY <1>1, <1>5, <1>7, <2>1
  <2>2. CASE ~(m <= n)
    <3>1. n = 0 /\ m = 1
      BY <1>1, <1>6, <2>2
    <3> QED
      BY <1>7, <3>1
  <2> QED
    BY <2>1, <2>2
<1>9. DOMAIN KJobs!Newest200(s) = 1 .. n - m + 1 /\ DOMAIN s = 1 .. n
  BY <1>7, <1>8, LenProperties DEF n
<1>10. ASSUME NEW i \in DOMAIN KJobs!Newest200(s)
       PROVE  KJobs!Newest200(s)[i] = s[m + i - 1] /\ m + i - 1 \in DOMAIN s
  <2>1. i \in 1 .. n - m + 1
    BY <1>9
  <2>2. m + i - 1 \in 1 .. n
    BY <1>1, <2>1
  <2> QED
    BY <1>7, <1>9, <2>1, <2>2
<1>11. CASE Len(s) <= Keep
  <2>1. m = 1
    BY <1>11, LenProperties DEF m, n
  <2>2. n - m + 1 = n /\ \A i \in 1 .. n : m + i - 1 = i
    BY <1>1, <2>1
  <2>3. KJobs!Newest200(s) = s
    BY <1>7, <1>8, <1>9, <1>10, <2>2, SeqEqual DEF n
  <2> QED
    BY <1>7, <1>8, <1>10, <1>11, <2>3
<1>12. CASE ~(Len(s) <= Keep)
  <2>1. Len(KJobs!Newest200(s)) = Keep
    BY <1>4, <1>8, <1>12, LenProperties
  <2> QED
    BY <1>7, <1>8, <1>10, <1>12, <2>1
<1> QED
  BY <1>11, <1>12

\* What has been pushed stays pushed, and what is complete stays so.
LEMMA ToldStays ==
    ASSUME KJobs!JobsTypeOK, [KJobs!JobsNext]_(KJobs!jobsVars)
    PROVE  /\ KJobs!Pushed \subseteq KJobs!Pushed'
           /\ \A s : OnRecord(s) => OnRecord(s)'
<1>1. \A j \in Jobs : /\ kernels[j] # "none" => kernels'[j] # "none"
                      /\ kernels[j] = "complete" => kernels'[j] = "complete"
  <2>1. ASSUME NEW j \in Jobs, KJobs!Progress(j)
        PROVE  \A i \in Jobs : /\ kernels[i] # "none" => kernels'[i] # "none"
                               /\ kernels[i] = "complete" => kernels'[i] = "complete"
    BY <2>1 DEF KJobs!Progress, KJobs!JobsTypeOK
  <2>2. ASSUME NEW t \in Threads, NEW j \in Jobs, KJobs!Push(t, j)
        PROVE  \A i \in Jobs : /\ kernels[i] # "none" => kernels'[i] # "none"
                               /\ kernels[i] = "complete" => kernels'[i] = "complete"
    BY <2>2 DEF KJobs!Push, KJobs!JobsTypeOK
  <2>3. CASE UNCHANGED kernels
    BY <2>3
  <2> QED
    BY <2>1, <2>2, <2>3 DEF KJobs!JobsNext, KJobs!jobsVars, KJobs!kaggleSide, KJobs!AppendJob, KJobs!Refresh, KJobs!Poll,
       KJobs!PollFails, KJobs!Polled, KJobs!Open, KJobs!Write, KJobs!Rename, KJobs!Restart
<1>2. KJobs!Pushed \subseteq KJobs!Pushed'
  BY <1>1 DEF KJobs!Pushed
<1>3. ASSUME NEW e \in Recorded, Told(e) PROVE Told(e)'
  BY <1>1, <1>2, <1>3 DEF Told, KJobs!DoneStates
<1> QED
  BY <1>2, <1>3 DEF OnRecord

LEMMA JobsTypeStep ==
    ASSUME KJobs!JobsTypeOK, NewestKnown, ListsTold, [KJobs!JobsNext]_(KJobs!jobsVars)
    PROVE  (NewestKnown /\ ListsTold)'
<1> USE DEF KJobs!JobsTypeOK, ListsTold
<1>0. KJobs!Pushed \subseteq KJobs!Pushed' /\ \A s : OnRecord(s) => OnRecord(s)'
  BY ToldStays
<1>a. ASSUME UNCHANGED KJobs!kaggleSide PROVE NewestKnown'
  BY <1>a DEF NewestKnown, KJobs!Pushed, KJobs!kaggleSide
<1>b. ASSUME UNCHANGED <<jobsFile, jobsPart>>
      PROVE  /\ jobsFile' \in {NoFile, Torn} \union Seq(Recorded)
             /\ jobsPart' \in {NoFile, Torn} \union Seq(Recorded)
             /\ OnRecord(KJobs!Text(jobsFile))' /\ OnRecord(KJobs!Text(jobsPart))'
             /\ Len(KJobs!Text(jobsPart)') <= Keep
  <2>1. KJobs!Text(jobsFile)' = KJobs!Text(jobsFile) /\ KJobs!Text(jobsPart)' = KJobs!Text(jobsPart)
    BY <1>b DEF KJobs!Text
  <2>2. OnRecord(KJobs!Text(jobsFile))' /\ OnRecord(KJobs!Text(jobsPart))'
    BY <1>0, <2>1 DEF OnRecord
  <2> QED
    BY <1>b, <2>1, <2>2
<1>1. ASSUME NEW j \in Jobs, KJobs!Progress(j) PROVE (NewestKnown /\ ListsTold)'
  <2>1. KJobs!Pushed' = KJobs!Pushed /\ newest' = newest
    BY <1>1 DEF KJobs!Progress, KJobs!Pushed
  <2>2. UNCHANGED <<jobsFile, jobsPart, at, list, entry, mine, handle, crossed>>
    BY <1>1 DEF KJobs!Progress
  <2>3. \A t \in Threads : OnRecord(list[t])'
    BY <1>0, <2>2 DEF OnRecord
  <2>4. NewestKnown'
    BY <2>1 DEF NewestKnown
  <2> QED
    BY <1>b, <2>1, <2>2, <2>3, <2>4
<1>2. ASSUME NEW t \in Threads, NEW j \in Jobs, KJobs!Push(t, j) PROVE (NewestKnown /\ ListsTold)'
  <2>1. /\ kernels' = [kernels EXCEPT ![j] = "queued"] /\ kernels[j] = "none"
        /\ newest' = [newest EXCEPT ![RefOf[j]] = j]
        /\ mine' = [mine EXCEPT ![t] = j] /\ at' = [at EXCEPT ![t] = "load"]
        /\ UNCHANGED <<jobsFile, jobsPart, list, entry, handle, crossed>>
    BY <1>2 DEF KJobs!Push, KJobs!Goto
  <2>2. KJobs!Pushed' = KJobs!Pushed \union {j}
    BY <2>1 DEF KJobs!Pushed
  <2>3. RefOf[j] \in KJobs!Refs /\ \A i \in KJobs!Pushed : RefOf[i] \in KJobs!Refs
    BY DEF KJobs!Refs, KJobs!Pushed
  <2>4. NewestKnown'
    BY <2>1, <2>2, <2>3 DEF NewestKnown
  <2>5. \A o \in Threads : OnRecord(list[o])'
    BY <1>0, <2>1 DEF OnRecord
  <2>6. /\ mine' \in [Threads -> KJobs!Pushed' \union {NoFile}]
        /\ \A o \in Threads : /\ at'[o] \in {"idle", "poll"} => mine'[o] = NoFile
                             /\ at'[o] = "load" => mine'[o] # NoFile
    BY <2>1, <2>2
  <2> QED
    BY <1>b, <2>1, <2>4, <2>5, <2>6
<1>c. ASSUME UNCHANGED KJobs!kaggleSide PROVE KJobs!Pushed' = KJobs!Pushed /\ NewestKnown' /\ \A s : OnRecord(s) <=> OnRecord(s)'
  BY <1>a, <1>c DEF KJobs!Pushed, KJobs!kaggleSide, OnRecord, Told
<1>3. ASSUME NEW t \in Threads, KJobs!AppendJob(t) PROVE (NewestKnown /\ ListsTold)'
  <2> DEFINE e == [job |-> mine[t], status |-> "queued"]
  <2>1. /\ at[t] = "load" /\ at' = [at EXCEPT ![t] = "open"]
        /\ list' = [list EXCEPT ![t] = Append(KJobs!Text(jobsFile), e)]
        /\ UNCHANGED <<KJobs!kaggleSide, jobsFile, jobsPart, entry, mine, handle>>
        /\ crossed' \in BOOLEAN
    BY <1>3 DEF KJobs!AppendJob, KJobs!Goto, KJobs!Loaded
  <2>2. e \in Recorded /\ Told(e) /\ KJobs!Text(jobsFile) \in Seq(Recorded)
    BY <2>1 DEF OnRecord, Told, Recorded, KJobs!Pushed, KJobs!States, KJobs!DoneStates
  <2>3. OnRecord(Append(KJobs!Text(jobsFile), e))
    <3> DEFINE s == KJobs!Text(jobsFile)
    <3>1. s \in Seq(Recorded) /\ \A i \in DOMAIN s : Told(s[i])
      BY DEF OnRecord
    <3> HIDE DEF s, e
    <3>2. /\ Append(s, e) \in Seq(Recorded) /\ Len(Append(s, e)) = Len(s) + 1
          /\ \A i \in 1 .. Len(s) : Append(s, e)[i] = s[i]
          /\ Append(s, e)[Len(s) + 1] = e
      BY <2>2, <3>1, AppendProperties
    <3>3. DOMAIN Append(s, e) = 1 .. Len(s) + 1 /\ DOMAIN s = 1 .. Len(s) /\ Len(s) \in Nat
      BY <3>1, <3>2, LenProperties
    <3>4. ASSUME NEW i \in 1 .. Len(s) + 1 PROVE Told(Append(s, e)[i])
      <4>1. CASE i = Len(s) + 1
        BY <2>2, <3>2, <4>1
      <4>2. CASE i # Len(s) + 1
        <5>1. i \in 1 .. Len(s)
          <6>1. i \in 1 .. Len(s) + 1 /\ Len(s) \in Nat
            BY <3>3
          <6> QED
            BY ONLY <6>1, <4>2
        <5> QED
          BY <3>1, <3>2, <3>3, <5>1
      <4> QED
        BY <4>1, <4>2
    <3> QED
      BY <3>2, <3>3, <3>4 DEF OnRecord, s
  <2>4. \A o \in Threads : OnRecord(list'[o])
    BY <2>1, <2>3
  <2>5. list' \in [Threads -> Seq(Recorded)]
    BY <2>1, <2>3 DEF OnRecord
  <2> HIDE DEF e
  <2>6. \A o \in Threads : OnRecord(list[o])'
    BY <1>c, <2>1, <2>4
  <2> QED
    BY <1>b, <1>c, <2>1, <2>5, <2>6
<1>4. ASSUME NEW t \in Threads, KJobs!Refresh(t) PROVE (NewestKnown /\ ListsTold)'
  <2>1. /\ at[t] = "idle" /\ at' = [at EXCEPT ![t] = "poll"]
        /\ list' = [list EXCEPT ![t] = KJobs!Text(jobsFile)] /\ entry' = [entry EXCEPT ![t] = 1]
        /\ UNCHANGED <<KJobs!kaggleSide, jobsFile, jobsPart, mine, handle>>
        /\ crossed' \in BOOLEAN
    BY <1>4 DEF KJobs!Refresh, KJobs!Goto, KJobs!Loaded
  <2>2. list' \in [Threads -> Seq(Recorded)] /\ \A o \in Threads : OnRecord(list'[o])
    BY <2>1 DEF OnRecord
  <2>3. \A o \in Threads : OnRecord(list[o])'
    BY <1>c, <2>1, <2>2
  <2> QED
    BY <1>b, <1>c, <2>1, <2>2, <2>3
<1>5. ASSUME NEW t \in Threads, KJobs!Poll(t) PROVE (NewestKnown /\ ListsTold)'
  <2> DEFINE s == list[t]
             i == entry[t]
             now == kernels[newest[RefOf[s[i].job]]]
  <2>1. /\ at[t] = "poll" /\ i <= Len(s) /\ entry' = [entry EXCEPT ![t] = @ + 1]
        /\ \/ list' = list
           \/ list' = [list EXCEPT ![t] = [s EXCEPT ![i].status = now]]
        /\ UNCHANGED <<KJobs!kaggleSide, jobsFile, jobsPart, at, mine, handle, crossed>>
    BY <1>5 DEF KJobs!Poll
  <2>2. s \in Seq(Recorded) /\ i \in Nat \ {0} /\ OnRecord(s)
    OBVIOUS
  <2>3. i \in DOMAIN s
    <3>1. Len(s) \in Nat /\ DOMAIN s = 1 .. Len(s)
      BY <2>2, LenProperties
    <3> HIDE DEF s, i
    <3> QED
      BY ONLY <2>1, <2>2, <3>1
  <2>4. s[i] \in Recorded /\ Told(s[i])
    BY <2>2, <2>3 DEF OnRecord
  <2>5. /\ newest[RefOf[s[i].job]] \in KJobs!Pushed /\ now \in KJobs!States
        /\ RefOf[newest[RefOf[s[i].job]]] = RefOf[s[i].job]
    <3>1. PICK j \in KJobs!Pushed : j = s[i].job
      BY <2>4 DEF Told
    <3>2. newest[RefOf[j]] \in KJobs!Pushed /\ RefOf[newest[RefOf[j]]] = RefOf[j]
      BY DEF NewestKnown
    <3>3. \A k \in KJobs!Pushed : kernels[k] \in KJobs!States
      BY DEF KJobs!Pushed
    <3> HIDE DEF s, i
    <3> QED
      BY <3>1, <3>2, <3>3
  <2>6. [s[i] EXCEPT !.status = now] \in Recorded /\ Told([s[i] EXCEPT !.status = now])
    BY <2>4, <2>5 DEF Told, Recorded, KJobs!Pushed
  <2>7. OnRecord([s EXCEPT ![i].status = now])
    <3> DEFINE r == [s EXCEPT ![i] = [s[i] EXCEPT !.status = now]]
    <3>1. [s EXCEPT ![i].status = now] = r
      BY <2>3
    <3>2. r \in Seq(Recorded) /\ DOMAIN r = DOMAIN s
      <4>1. DOMAIN s = 1 .. Len(s)
        BY <2>2, LenProperties
      <4> HIDE DEF s, i, now
      <4>2. r \in Seq(Recorded)
        BY <2>2, <2>3, <2>6, <4>1, ExceptSeq
      <4> QED
        BY <4>2
    <3>3. \A k \in DOMAIN s : r[k] = IF k = i THEN [s[i] EXCEPT !.status = now] ELSE s[k]
      BY <2>2
    <3> QED
      BY <2>2, <2>6, <3>1, <3>2, <3>3 DEF OnRecord
  <2> HIDE DEF s, i, now
  <2>8. \A o \in Threads : OnRecord(list'[o])
    BY <2>1, <2>7
  <2>9. list' \in [Threads -> Seq(Recorded)] /\ \A o \in Threads : OnRecord(list[o])'
    BY <1>c, <2>1, <2>7, <2>8 DEF OnRecord
  <2>10. entry' \in [Threads -> Nat \ {0}]
    <3>1. entry[t] + 1 \in Nat \ {0}
      OBVIOUS
    <3> QED
      BY <2>1, <3>1
  <2> QED
    BY <1>b, <1>c, <2>1, <2>9, <2>10
<1>d. ASSUME UNCHANGED <<KJobs!kaggleSide, list, mine>>
      PROVE  /\ \A t \in Threads : OnRecord(list[t])'
             /\ list' \in [Threads -> Seq(Recorded)] /\ mine' \in [Threads -> KJobs!Pushed' \union {NoFile}]
  BY <1>c, <1>d
<1>6. ASSUME NEW t \in Threads, KJobs!PollFails(t) PROVE (NewestKnown /\ ListsTold)'
  BY <1>b, <1>c, <1>d, <1>6 DEF KJobs!PollFails, KJobs!history
<1>7. ASSUME NEW t \in Threads, KJobs!Polled(t) PROVE (NewestKnown /\ ListsTold)'
  <2>1. /\ at[t] = "poll" /\ \E s \in {"open", "idle"} : at' = [at EXCEPT ![t] = s]
        /\ UNCHANGED <<KJobs!kaggleSide, jobsFile, jobsPart, list, entry, mine, handle, crossed>>
    BY <1>7 DEF KJobs!Polled, KJobs!Goto
  <2> QED
    BY <1>b, <1>c, <1>d, <2>1
<1>8. ASSUME NEW t \in Threads, KJobs!Open(t) PROVE (NewestKnown /\ ListsTold)'
  <2>1. /\ at[t] = "open" /\ at' = [at EXCEPT ![t] = "write"]
        /\ jobsPart' = Torn /\ handle' = [handle EXCEPT ![t] = "part"]
        /\ UNCHANGED <<KJobs!kaggleSide, jobsFile, list, entry, mine, crossed>>
    BY <1>8 DEF KJobs!Open, KJobs!Goto
  <2>2. KJobs!Text(jobsPart)' = <<>> /\ KJobs!Text(jobsFile)' = KJobs!Text(jobsFile)
    BY <2>1 DEF KJobs!Text
  <2>3. OnRecord(<<>>)' /\ Len(<<>>) <= Keep
    BY DEF OnRecord
  <2>4. OnRecord(KJobs!Text(jobsFile))' /\ OnRecord(KJobs!Text(jobsPart))'
    BY <1>0, <2>2, <2>3 DEF OnRecord
  <2> QED
    BY <1>c, <1>d, <2>1, <2>2, <2>3, <2>4
<1>9. ASSUME NEW t \in Threads, KJobs!Write(t) PROVE (NewestKnown /\ ListsTold)'
  <2>1. /\ at[t] = "write" /\ at' = [at EXCEPT ![t] = "rename"]
        /\ handle' = [handle EXCEPT ![t] = "none"]
        /\ UNCHANGED <<KJobs!kaggleSide, list, entry, mine, crossed>>
    BY <1>9 DEF KJobs!Write, KJobs!Goto, KJobs!history
  <2>2. PICK text \in KJobs!Outcomes(t) :
          /\ jobsPart' = IF handle[t] = "part" THEN text ELSE jobsPart
          /\ jobsFile' = IF handle[t] = "file" THEN text ELSE jobsFile
    BY <1>9 DEF KJobs!Write
  <2>3. text \in {KJobs!Newest200(list[t]), Torn}
    BY DEF KJobs!Outcomes
  <2>4. /\ text \in {NoFile, Torn} \union Seq(Recorded) /\ OnRecord(KJobs!Text(text))
        /\ Len(KJobs!Text(text)) <= Keep
    <3>1. CASE text = Torn
      <4>1. KJobs!Text(text) = <<>> /\ OnRecord(<<>>) /\ Len(<<>>) <= Keep
        BY <3>1 DEF KJobs!Text, OnRecord
      <4> QED
        BY <3>1, <4>1
    <3>2. CASE text = KJobs!Newest200(list[t])
      <4>1. list[t] \in Seq(Recorded) /\ OnRecord(list[t])
        OBVIOUS
      <4>2. /\ text \in Seq(Recorded) /\ Len(text) <= Keep
            /\ \A i \in DOMAIN text : \E k \in DOMAIN list[t] : text[i] = list[t][k]
        BY <3>2, <4>1, SavedList
      <4>3. text \notin {NoFile, Torn}
        BY <4>2 DEF Recorded
      <4>4. KJobs!Text(text) = text /\ OnRecord(text)
        BY <4>1, <4>2, <4>3 DEF KJobs!Text, OnRecord
      <4> QED
        BY <4>2, <4>4
    <3> QED
      BY <2>3, <3>1, <3>2
  <2>5. /\ jobsFile' \in {jobsFile, text} /\ jobsPart' \in {jobsPart, text}
    BY <2>2
  <2>6. /\ OnRecord(KJobs!Text(jobsFile)') /\ OnRecord(KJobs!Text(jobsPart)') /\ Len(KJobs!Text(jobsPart)') <= Keep
    BY <2>4, <2>5 DEF KJobs!Text
  <2>7. /\ OnRecord(KJobs!Text(jobsFile))' /\ OnRecord(KJobs!Text(jobsPart))'
    BY <1>0, <2>6 DEF OnRecord
  <2> QED
    BY <1>c, <1>d, <2>1, <2>4, <2>5, <2>6, <2>7
<1>10. ASSUME NEW t \in Threads, KJobs!Rename(t) PROVE (NewestKnown /\ ListsTold)'
  <2>1. /\ at[t] = "rename" /\ at' = [at EXCEPT ![t] = "idle"]
        /\ list' = [list EXCEPT ![t] = <<>>] /\ mine' = [mine EXCEPT ![t] = NoFile]
        /\ UNCHANGED <<KJobs!kaggleSide, entry, crossed>>
        /\ \/ UNCHANGED <<jobsFile, jobsPart>> \/ (jobsFile' = jobsPart /\ jobsPart' = NoFile)
    BY <1>10 DEF KJobs!Rename, KJobs!Goto
  <2>2. handle' \in [Threads -> {"none", "part", "file"}]
    BY <1>10 DEF KJobs!Rename
  <2>3. OnRecord(<<>>) /\ Len(<<>>) <= Keep /\ KJobs!Text(NoFile) = <<>> /\ <<>> \in Seq(Recorded)
    BY DEF OnRecord, KJobs!Text
  <2>4. /\ OnRecord(KJobs!Text(jobsFile)') /\ OnRecord(KJobs!Text(jobsPart)') /\ Len(KJobs!Text(jobsPart)') <= Keep
    BY <2>1, <2>3 DEF KJobs!Text
  <2>5. /\ OnRecord(KJobs!Text(jobsFile))' /\ OnRecord(KJobs!Text(jobsPart))'
    BY <1>0, <2>4 DEF OnRecord
  <2>6. list' \in [Threads -> Seq(Recorded)] /\ \A o \in Threads : OnRecord(list'[o])
    BY <2>1, <2>3
  <2>7. \A o \in Threads : OnRecord(list[o])'
    BY <1>c, <2>1, <2>6
  <2> QED
    BY <1>c, <2>1, <2>2, <2>4, <2>5, <2>6, <2>7
<1>11. CASE KJobs!Restart
  <2>1. /\ at' = [t \in Threads |-> "idle"] /\ list' = [t \in Threads |-> <<>>]
        /\ entry' = [t \in Threads |-> 1] /\ mine' = [t \in Threads |-> NoFile]
        /\ handle' = [t \in Threads |-> "none"]
        /\ UNCHANGED <<KJobs!kaggleSide, jobsFile, jobsPart, crossed>>
    BY <1>11 DEF KJobs!Restart
  <2>2. <<>> \in Seq(Recorded) /\ OnRecord(<<>>)
    BY DEF OnRecord
  <2>3. list' \in [Threads -> Seq(Recorded)] /\ \A o \in Threads : OnRecord(list'[o])
    BY <2>1, <2>2
  <2>4. \A o \in Threads : OnRecord(list[o])'
    BY <1>c, <2>1, <2>3
  <2> QED
    BY <1>b, <1>c, <2>1, <2>3, <2>4
<1>12. CASE UNCHANGED KJobs!jobsVars
  BY <1>b, <1>c, <1>d, <1>12 DEF KJobs!jobsVars, KJobs!kaggleSide
<1> QED
  BY <1>1, <1>2, <1>3, <1>4, <1>5, <1>6, <1>7, <1>8, <1>9, <1>10, <1>11, <1>12
     DEF KJobs!JobsNext
LEMMA JobsTypeOKStep ==
    ASSUME KJobs!JobsTypeOK, NewestKnown, ListsTold, [KJobs!JobsNext]_(KJobs!jobsVars)
    PROVE  KJobs!JobsTypeOK'
<1> USE DEF KJobs!JobsTypeOK, ListsTold
<1>0. \A t \in Threads : \A i \in DOMAIN list'[t] : list'[t][i] \in Recorded
  <2>1. list' \in [Threads -> Seq(Recorded)]
    BY JobsTypeStep
  <2>2. \A s \in Seq(Recorded) : \A i \in DOMAIN s : s[i] \in Recorded
    OBVIOUS
  <2> QED
    BY <2>1, <2>2
<1>a. ASSUME UNCHANGED jobsFile PROVE Len(KJobs!Text(jobsFile)') <= Keep
  BY <1>a DEF KJobs!Text
<1> USE DEF Recorded
<1>1. ASSUME NEW j \in Jobs, KJobs!Progress(j) PROVE KJobs!JobsTypeOK'
  BY <1>0, <1>a, <1>1 DEF KJobs!Progress, KJobs!history, KJobs!States
<1>2. ASSUME NEW t \in Threads, NEW j \in Jobs, KJobs!Push(t, j) PROVE KJobs!JobsTypeOK'
  <2>1. RefOf[j] \in KJobs!Refs
    BY DEF KJobs!Refs
  <2> QED
    BY <1>0, <1>a, <1>2, <2>1 DEF KJobs!Push, KJobs!Goto, KJobs!history, KJobs!States
<1>3. ASSUME NEW t \in Threads, KJobs!AppendJob(t) PROVE KJobs!JobsTypeOK'
  BY <1>0, <1>a, <1>3 DEF KJobs!AppendJob, KJobs!Goto, KJobs!kaggleSide, KJobs!history
<1>4. ASSUME NEW t \in Threads, KJobs!Refresh(t) PROVE KJobs!JobsTypeOK'
  BY <1>0, <1>a, <1>4 DEF KJobs!Refresh, KJobs!Goto, KJobs!kaggleSide
<1>5. ASSUME NEW t \in Threads, KJobs!Poll(t) \/ KJobs!PollFails(t) PROVE KJobs!JobsTypeOK'
  BY <1>0, <1>a, <1>5 DEF KJobs!Poll, KJobs!PollFails, KJobs!kaggleSide, KJobs!history
<1>6. ASSUME NEW t \in Threads, KJobs!Polled(t) PROVE KJobs!JobsTypeOK'
  <2>1. /\ \E s \in {"open", "idle"} : at' = [at EXCEPT ![t] = s]
        /\ UNCHANGED <<KJobs!kaggleSide, jobsFile, list, KJobs!history>>
    BY <1>6 DEF KJobs!Polled, KJobs!Goto
  <2>2. at' \in [Threads -> {"idle", "load", "poll", "open", "write", "rename"}]
    BY <2>1
  <2>3. kernels' = kernels /\ newest' = newest /\ refreshes' = refreshes
        /\ restarts' = restarts /\ orphans' = orphans
    BY <2>1 DEF KJobs!kaggleSide, KJobs!history
  <2> QED
    BY <1>0, <1>a, <2>1, <2>2, <2>3
<1>7. ASSUME NEW t \in Threads, KJobs!Open(t) PROVE KJobs!JobsTypeOK'
  BY <1>0, <1>a, <1>7 DEF KJobs!Open, KJobs!Goto, KJobs!kaggleSide, KJobs!history
<1>8. ASSUME NEW t \in Threads, KJobs!Write(t) PROVE KJobs!JobsTypeOK'
  <2>1. PICK text \in KJobs!Outcomes(t) : jobsFile' \in {text, jobsFile}
    BY <1>8 DEF KJobs!Write
  <2>2. CASE text = Torn
    <3>1. KJobs!Text(text) = <<>> /\ Len(<<>>) <= Keep
      BY <2>2 DEF KJobs!Text
    <3> QED
      BY <1>0, <1>a, <1>8, <2>1, <2>2, <3>1 DEF KJobs!Write, KJobs!Goto, KJobs!kaggleSide, KJobs!history, KJobs!Text
  <2>3. CASE text = KJobs!Newest200(list[t])
    <3>1. Len(text) <= Keep
      BY <2>3, SavedList
    <3>2. Len(<<>>) <= Keep
      OBVIOUS
    <3>3. Len(KJobs!Text(jobsFile)') <= Keep
      BY <1>a, <2>1, <3>1, <3>2 DEF KJobs!Text
    <3> QED
      BY <1>0, <1>8, <3>3 DEF KJobs!Write, KJobs!Goto, KJobs!kaggleSide, KJobs!history
  <2> QED
    BY <2>2, <2>3 DEF KJobs!Outcomes
<1>9. ASSUME NEW t \in Threads, KJobs!Rename(t) PROVE KJobs!JobsTypeOK'
  <2>1. Len(KJobs!Text(jobsFile)') <= Keep
    BY <1>9, <1>a DEF KJobs!Rename, KJobs!Text
  <2> QED
    BY <1>0, <1>9, <2>1 DEF KJobs!Rename, KJobs!Goto, KJobs!kaggleSide, KJobs!history
<1>10. CASE KJobs!Restart
  <2>1. orphans' \subseteq Jobs
    <3>1. \A t \in Threads : mine[t] # NoFile => mine[t] \in Jobs
      BY DEF KJobs!Pushed
    <3>2. orphans' = orphans \union {mine[t] : t \in {o \in Threads : mine[o] # NoFile}}
      BY <1>10 DEF KJobs!Restart
    <3>3. ASSUME NEW j \in orphans' PROVE j \in Jobs
      <4>1. j \in orphans \/ \E t \in Threads : mine[t] # NoFile /\ j = mine[t]
        BY <3>2
      <4>2. orphans \subseteq Jobs
        OBVIOUS
      <4> QED
        BY ONLY <3>1, <4>1, <4>2
    <3> QED
      BY <3>3
  <2> QED
    BY <1>0, <1>a, <1>10, <2>1 DEF KJobs!Restart, KJobs!kaggleSide
<1>11. CASE UNCHANGED KJobs!jobsVars
  BY <1>0, <1>a, <1>11 DEF KJobs!jobsVars
<1> QED
  BY <1>1, <1>2, <1>3, <1>4, <1>5, <1>6, <1>7, <1>8, <1>9, <1>10, <1>11 DEF KJobs!JobsNext

LEMMA DoneByRecord ==
    ASSUME ListsTold
    PROVE  KJobs!DoneIsDone
BY DEF ListsTold, OnRecord, Told, KJobs!DoneIsDone, KJobs!Entries, KJobs!Range

\* Entries that differ in their status tell of the same jobs.
LEMMA SameJobs ==
    ASSUME NEW s \in Seq(Recorded), NEW r \in Seq(Recorded), DOMAIN r = DOMAIN s,
           \A k \in DOMAIN s : r[k].job = s[k].job
    PROVE  Len(r) = Len(s) /\ JobsOn(r) = JobsOn(s)
<1>1. DOMAIN s = 1 .. Len(s) /\ DOMAIN r = 1 .. Len(r) /\ Len(s) \in Nat /\ Len(r) \in Nat
  BY LenProperties
<1>2. Len(r) = Len(s)
  BY <1>1
<1> QED
  BY <1>2 DEF JobsOn

LEMMA OneSavesStep ==
    ASSUME KJobs!JobsTypeOK, NewestKnown, ListsTold, ~crossed => OneSaves,
           [KJobs!JobsNext]_(KJobs!jobsVars), ~crossed'
    PROVE  OneSaves'
<1>t. list' \in [Threads -> Seq(Recorded)]
  BY JobsTypeStep DEF ListsTold
<1> USE DEF KJobs!JobsTypeOK, ListsTold
<1>0. ~crossed /\ OneSaves
  BY DEF KJobs!JobsNext, KJobs!jobsVars, KJobs!Progress, KJobs!Push, KJobs!AppendJob, KJobs!Refresh, KJobs!Poll, KJobs!PollFails, KJobs!Polled,
     KJobs!Open, KJobs!Write, KJobs!Rename, KJobs!Restart, KJobs!Loaded
<1> USE DEF OneSaves
<1>a. ASSUME UNCHANGED jobsFile PROVE KJobs!Text(jobsFile)' = KJobs!Text(jobsFile)
  BY <1>a DEF KJobs!Text
<1>1. ASSUME NEW j \in Jobs, KJobs!Progress(j) PROVE OneSaves'
  BY <1>0, <1>a, <1>1 DEF KJobs!Progress
<1>2. ASSUME NEW t \in Threads, NEW j \in Jobs, KJobs!Push(t, j) PROVE OneSaves'
  <2>1. /\ at' = [at EXCEPT ![t] = "load"] /\ mine' = [mine EXCEPT ![t] = j]
        /\ UNCHANGED <<jobsFile, jobsPart, list, handle>> /\ at[t] = "idle"
    BY <1>2 DEF KJobs!Push, KJobs!Goto
  <2> QED
    BY <1>0, <1>a, <2>1 DEF Busy
<1>b. ASSUME NEW t \in Threads, KJobs!Loaded(t), at[t] \notin Busy PROVE \A o \in Threads : at[o] \notin Busy
  BY <1>b DEF KJobs!Loaded, Busy
<1>3. ASSUME NEW t \in Threads, KJobs!AppendJob(t) PROVE OneSaves'
  <2> DEFINE e == [job |-> mine[t], status |-> "queued"]
             s == KJobs!Text(jobsFile)
  <2>1. /\ at[t] = "load" /\ at' = [at EXCEPT ![t] = "open"] /\ KJobs!Loaded(t)
        /\ list' = [list EXCEPT ![t] = Append(s, e)]
        /\ UNCHANGED <<jobsFile, jobsPart, mine, handle>>
    BY <1>3 DEF KJobs!AppendJob, KJobs!Goto
  <2>2. \A o \in Threads : at[o] \notin Busy
    BY <1>b, <2>1 DEF Busy
  <2>3. s \in Seq(Recorded) /\ e \in Recorded
    BY <2>1 DEF OnRecord, Recorded, KJobs!Pushed, KJobs!States
  <2>4. /\ Len(s) <= Len(Append(s, e)) /\ JobsOn(s) \subseteq JobsOn(Append(s, e))
        /\ mine[t] \in JobsOn(Append(s, e))
    <3> e.job = mine[t]
      OBVIOUS
    <3> HIDE DEF s, e
    <3>1. /\ Append(s, e) \in Seq(Recorded) /\ Len(Append(s, e)) = Len(s) + 1
          /\ \A i \in 1 .. Len(s) : Append(s, e)[i] = s[i]
          /\ Append(s, e)[Len(s) + 1] = e
      BY <2>3, AppendProperties
    <3>2. DOMAIN Append(s, e) = 1 .. Len(s) + 1 /\ DOMAIN s = 1 .. Len(s) /\ Len(s) \in Nat
      BY <2>3, <3>1, LenProperties
    <3>3. Len(s) <= Len(Append(s, e)) /\ Len(s) + 1 \in 1 .. Len(s) + 1
          /\ 1 .. Len(s) \subseteq 1 .. Len(s) + 1
      BY <3>1, <3>2
    <3> QED
      BY <3>1, <3>2, <3>3 DEF JobsOn
  <2>5. s' = s
    BY <1>a, <2>1
  <2> HIDE DEF s, e
  <2>6. \A o \in Threads : handle[o] = "none" /\ (at'[o] \in Busy => o = t)
    BY <1>0, <2>1, <2>2 DEF Busy
  <2>7. list'[t] = Append(s, e) /\ at'[t] = "open"
    BY <2>1
  <2>8. /\ \A o \in Threads : handle'[o] = IF at'[o] = "write" THEN "part" ELSE "none"
        /\ \A o \in Threads : at'[o] # "rename"
    BY <2>1, <2>2, <2>6, <2>7 DEF Busy
  <2> QED
    BY <2>1, <2>4, <2>5, <2>6, <2>7, <2>8 DEF s
<1>4. ASSUME NEW t \in Threads, KJobs!Refresh(t) PROVE OneSaves'
  <2>1. /\ at[t] = "idle" /\ at' = [at EXCEPT ![t] = "poll"] /\ KJobs!Loaded(t)
        /\ list' = [list EXCEPT ![t] = KJobs!Text(jobsFile)]
        /\ UNCHANGED <<jobsFile, jobsPart, mine, handle>>
    BY <1>4 DEF KJobs!Refresh, KJobs!Goto
  <2>2. \A o \in Threads : at[o] \notin Busy
    BY <1>b, <2>1 DEF Busy
  <2>3. KJobs!Text(jobsFile)' = KJobs!Text(jobsFile) /\ Len(KJobs!Text(jobsFile)) \in Nat
    BY <1>a, <2>1, LenProperties DEF OnRecord
  <2>6. \A o \in Threads : handle[o] = "none" /\ (at'[o] \in Busy => o = t)
    BY <1>0, <2>1, <2>2 DEF Busy
  <2>7. list'[t] = KJobs!Text(jobsFile) /\ at'[t] = "poll"
    BY <2>1
  <2>8. /\ \A o \in Threads : handle'[o] = IF at'[o] = "write" THEN "part" ELSE "none"
        /\ \A o \in Threads : at'[o] # "rename"
    BY <2>1, <2>2, <2>6, <2>7 DEF Busy
  <2> QED
    BY <2>1, <2>3, <2>6, <2>7, <2>8
<1>5. ASSUME NEW t \in Threads, KJobs!Poll(t) PROVE OneSaves'
  <2>1. /\ at[t] = "poll" /\ entry[t] <= Len(list[t])
        /\ \/ list' = list
           \/ \E now : list' = [list EXCEPT ![t] = [list[t] EXCEPT ![entry[t]].status = now]]
        /\ UNCHANGED <<jobsFile, jobsPart, at, mine, handle>>
    BY <1>5 DEF KJobs!Poll
  <2>2. list[t] \in Seq(Recorded) /\ entry[t] \in DOMAIN list[t]
    <3>1. list[t] \in Seq(Recorded) /\ entry[t] \in Nat \ {0}
      OBVIOUS
    <3>2. Len(list[t]) \in Nat /\ DOMAIN list[t] = 1 .. Len(list[t])
      BY <3>1, LenProperties
    <3> QED
      BY ONLY <2>1, <3>1, <3>2
  <2>3. /\ Len(list'[t]) = Len(list[t]) /\ JobsOn(list'[t]) = JobsOn(list[t])
        /\ \A o \in Threads \ {t} : list'[o] = list[o]
    <3>1. CASE list' = list
      BY <3>1
    <3>2. ASSUME NEW now, list' = [list EXCEPT ![t] = [list[t] EXCEPT ![entry[t]].status = now]]
          PROVE  /\ Len(list'[t]) = Len(list[t]) /\ JobsOn(list'[t]) = JobsOn(list[t])
                 /\ \A o \in Threads \ {t} : list'[o] = list[o]
      <4>1. list'[t] = [list[t] EXCEPT ![entry[t]].status = now]
        BY <3>2
      <4>2. list[t][entry[t]].job = list'[t][entry[t]].job
        <5>1. list[t][entry[t]] \in Recorded
          BY <2>2
        <5>2. list'[t][entry[t]] = [list[t][entry[t]] EXCEPT !.status = now]
          BY <2>2, <4>1
        <5> QED
          BY <5>1, <5>2 DEF Recorded
      <4>3. /\ DOMAIN list'[t] = DOMAIN list[t]
            /\ \A k \in DOMAIN list[t] : list'[t][k].job = list[t][k].job
        BY <2>2, <4>1, <4>2
      <4>4. list'[t] \in Seq(Recorded)
        BY <1>t
      <4>5. /\ Len(list'[t]) = Len(list[t]) /\ JobsOn(list'[t]) = JobsOn(list[t])
        BY <2>2, <4>3, <4>4, SameJobs
      <4> QED
        BY <3>2, <4>5
    <3> QED
      BY <2>1, <3>1, <3>2
  <2> QED
    BY <1>0, <1>a, <2>1, <2>3
<1>6. ASSUME NEW t \in Threads, KJobs!PollFails(t) PROVE OneSaves'
  BY <1>0, <1>a, <1>6 DEF KJobs!PollFails
<1>7. ASSUME NEW t \in Threads, KJobs!Polled(t) PROVE OneSaves'
  <2>1. /\ at[t] = "poll" /\ \E s \in {"open", "idle"} : at' = [at EXCEPT ![t] = s]
        /\ UNCHANGED <<jobsFile, jobsPart, list, mine, handle>> /\ mine[t] = NoFile
    BY <1>7 DEF KJobs!Polled, KJobs!Goto
  <2> QED
    BY <1>0, <1>a, <2>1 DEF Busy
<1>8. ASSUME NEW t \in Threads, KJobs!Open(t) PROVE OneSaves'
  <2>1. /\ at[t] = "open" /\ at' = [at EXCEPT ![t] = "write"]
        /\ handle' = [handle EXCEPT ![t] = "part"]
        /\ UNCHANGED <<jobsFile, list, mine>>
    BY <1>8 DEF KJobs!Open, KJobs!Goto
  <2>2. \A o \in Threads : at[o] \in Busy => o = t
    BY <1>0, <2>1 DEF Busy
  <2> QED
    BY <1>0, <1>a, <2>1, <2>2 DEF Busy
<1>9. ASSUME NEW t \in Threads, KJobs!Write(t) PROVE OneSaves'
  <2>1. /\ at[t] = "write" /\ at' = [at EXCEPT ![t] = "rename"]
        /\ handle' = [handle EXCEPT ![t] = "none"] /\ UNCHANGED <<list, mine>>
    BY <1>9 DEF KJobs!Write, KJobs!Goto
  <2>2. \A o \in Threads : at[o] \in Busy => o = t
    BY <1>0, <2>1 DEF Busy
  <2>3. handle[t] = "part" /\ \A o \in Threads \ {t} : handle[o] = "none"
    BY <1>0, <2>1, <2>2 DEF Busy
  <2>4. KJobs!Outcomes(t) = {KJobs!Newest200(list[t])}
    BY <2>3 DEF KJobs!Outcomes
  <2>5. jobsPart' = KJobs!Newest200(list[t]) /\ jobsFile' = jobsFile
    BY <1>9, <2>3, <2>4 DEF KJobs!Write
  <2> QED
    BY <1>0, <1>a, <2>1, <2>2, <2>5 DEF Busy
<1>10. ASSUME NEW t \in Threads, KJobs!Rename(t) PROVE OneSaves'
  <2>1. at[t] = "rename" /\ at' = [at EXCEPT ![t] = "idle"]
    BY <1>10 DEF KJobs!Rename, KJobs!Goto
  <2>2. \A o \in Threads : at[o] \in Busy => o = t
    BY <1>0, <2>1 DEF Busy
  <2>3. \A o \in Threads : handle[o] = "none"
    BY <1>0, <2>1, <2>2 DEF Busy
  <2>4. \A o \in Threads : handle'[o] = "none" /\ at'[o] \notin Busy
    <3>1. \A o \in Threads : handle'[o] = "none"
      <4>1. \/ handle' = handle
            \/ handle' = [o \in Threads |-> CASE handle[o] = "part" -> "file"
                                              [] handle[o] = "file" -> "none"
                                              [] OTHER -> handle[o]]
        BY <1>10 DEF KJobs!Rename
      <4> QED
        BY ONLY <2>3, <4>1
    <3>2. \A o \in Threads : at'[o] \notin Busy
      BY <2>1, <2>2 DEF Busy
    <3> QED
      BY <3>1, <3>2
  <2> QED
    BY <2>4 DEF Busy
<1>11. CASE KJobs!Restart
  <2>1. \A o \in Threads : handle'[o] = "none" /\ at'[o] \notin Busy
    BY <1>11 DEF KJobs!Restart, Busy
  <2> QED
    BY <2>1 DEF Busy
<1>12. CASE UNCHANGED KJobs!jobsVars
  BY <1>0, <1>a, <1>12 DEF KJobs!jobsVars
<1> QED
  BY <1>1, <1>2, <1>3, <1>4, <1>5, <1>6, <1>7, <1>8, <1>9, <1>10, <1>11, <1>12
     DEF KJobs!JobsNext

LEMMA KeptStep ==
    ASSUME KJobs!JobsTypeOK, ListsTold, ~crossed => OneSaves, KJobs!PushesKept, [KJobs!JobsNext]_(KJobs!jobsVars)
    PROVE  KJobs!PushesKept'
<1> USE DEF KJobs!JobsTypeOK, ListsTold
<1>0. SUFFICES ASSUME ~crossed' PROVE KJobs!PushesKept'
  BY DEF KJobs!PushesKept
<1>1. ~crossed /\ OneSaves
  BY <1>0 DEF KJobs!JobsNext, KJobs!jobsVars, KJobs!Progress, KJobs!Push, KJobs!AppendJob, KJobs!Refresh, KJobs!Poll, KJobs!PollFails, KJobs!Polled,
     KJobs!Open, KJobs!Write, KJobs!Rename, KJobs!Restart, KJobs!Loaded
<1>2. ASSUME NEW j \in KJobs!Pushed
      PROVE  \/ j \in JobsOn(KJobs!Text(jobsFile)) \/ \E t \in Threads : mine[t] = j
             \/ j \in orphans \/ Len(KJobs!Text(jobsFile)) = Keep
  <2>1. {e.job : e \in KJobs!Entries} = JobsOn(KJobs!Text(jobsFile))
    BY DEF KJobs!Entries, KJobs!Range, JobsOn
  <2>2. \/ j \in {e.job : e \in KJobs!Entries} \/ j \in {mine[t] : t \in Threads}
        \/ j \in orphans \/ Len(KJobs!Text(jobsFile)) = Keep
    BY <1>1 DEF KJobs!PushesKept
  <2>3. j \in {mine[t] : t \in Threads} => \E t \in Threads : mine[t] = j
    OBVIOUS
  <2> QED
    BY ONLY <2>1, <2>2, <2>3
<1>3. SUFFICES ASSUME NEW j \in KJobs!Pushed'
               PROVE  \/ j \in JobsOn(KJobs!Text(jobsFile)') \/ \E t \in Threads : mine'[t] = j
                      \/ j \in orphans' \/ Len(KJobs!Text(jobsFile)') = Keep
  <2>1. {e.job : e \in KJobs!Entries'} = JobsOn(KJobs!Text(jobsFile)')
    BY DEF KJobs!Entries, KJobs!Range, JobsOn
  <2> QED
    BY <1>3, <2>1 DEF KJobs!PushesKept
<1>4. ASSUME UNCHANGED <<jobsFile, mine, orphans>>, j \in KJobs!Pushed
      PROVE  \/ j \in JobsOn(KJobs!Text(jobsFile)') \/ \E t \in Threads : mine'[t] = j
             \/ j \in orphans' \/ Len(KJobs!Text(jobsFile)') = Keep
  <2>1. KJobs!Text(jobsFile)' = KJobs!Text(jobsFile)
    BY <1>4 DEF KJobs!Text
  <2> QED
    BY <1>2, <1>4, <2>1
<1> DEFINE Kept == \/ j \in JobsOn(KJobs!Text(jobsFile)') \/ \E t \in Threads : mine'[t] = j
                   \/ j \in orphans' \/ Len(KJobs!Text(jobsFile)') = Keep
<1>5. CASE \E i \in Jobs : KJobs!Progress(i)
  <2>1. j \in KJobs!Pushed
    BY <1>5 DEF KJobs!Progress, KJobs!Pushed
  <2> QED
    BY <1>4, <1>5, <2>1 DEF KJobs!Progress, KJobs!history
<1>6. ASSUME NEW t \in Threads, NEW i \in Jobs, KJobs!Push(t, i) PROVE Kept
  <2>1. /\ at[t] = "idle" /\ mine' = [mine EXCEPT ![t] = i] /\ UNCHANGED <<jobsFile, orphans>>
        /\ kernels' = [kernels EXCEPT ![i] = "queued"]
    BY <1>6 DEF KJobs!Push, KJobs!history
  <2>2. mine'[t] = i /\ mine[t] = NoFile
    BY <2>1
  <2>3. CASE j = i
    BY <2>2, <2>3
  <2>4. CASE j # i
    <3>1. j \in KJobs!Pushed /\ j # NoFile
      BY <2>1, <2>4 DEF KJobs!Pushed
    <3>2. KJobs!Text(jobsFile)' = KJobs!Text(jobsFile)
      BY <2>1 DEF KJobs!Text
    <3>3. \A o \in Threads : mine[o] = j => mine'[o] = j
      BY <2>1, <2>2, <3>1
    <3> QED
      BY <1>2, <2>1, <3>1, <3>2, <3>3
  <2> QED
    BY <2>3, <2>4
<1>7. ASSUME UNCHANGED kernels PROVE j \in KJobs!Pushed
  BY <1>7 DEF KJobs!Pushed
<1>8. ASSUME NEW t \in Threads, KJobs!AppendJob(t) \/ KJobs!Refresh(t) \/ KJobs!Poll(t) \/ KJobs!PollFails(t)
                                \/ KJobs!Polled(t) \/ KJobs!Open(t)
      PROVE  Kept
  BY <1>4, <1>7, <1>8 DEF KJobs!AppendJob, KJobs!Refresh, KJobs!Poll, KJobs!PollFails, KJobs!Polled, KJobs!Open, KJobs!kaggleSide, KJobs!history
<1>9. ASSUME NEW t \in Threads, KJobs!Write(t) PROVE Kept
  <2>1. at[t] = "write" /\ UNCHANGED <<kernels, mine, orphans>>
    BY <1>9 DEF KJobs!Write, KJobs!kaggleSide, KJobs!history
  <2>2. handle[t] = "part"
    BY <1>1, <2>1 DEF OneSaves
  <2>3. jobsFile' = jobsFile
    BY <1>9, <2>2 DEF KJobs!Write
  <2> QED
    BY <1>4, <1>7, <2>1, <2>3
<1>10. ASSUME NEW t \in Threads, KJobs!Rename(t) PROVE Kept
  <2> DEFINE s == list[t]
             saved == KJobs!Newest200(list[t])
  <2>1. /\ at[t] = "rename" /\ mine' = [mine EXCEPT ![t] = NoFile]
        /\ UNCHANGED <<kernels, orphans>>
        /\ jobsPart # NoFile => jobsFile' = jobsPart
    BY <1>10 DEF KJobs!Rename, KJobs!kaggleSide, KJobs!history
  <2>2. /\ jobsPart = saved /\ Len(KJobs!Text(jobsFile)) <= Len(s)
        /\ JobsOn(KJobs!Text(jobsFile)) \subseteq JobsOn(s)
        /\ mine[t] # NoFile => mine[t] \in JobsOn(s)
    BY <1>1, <2>1 DEF OneSaves, Busy
  <2>3. /\ s \in Seq(Recorded) /\ Len(s) \in Nat /\ Len(KJobs!Text(jobsFile)) \in Nat
        /\ Len(KJobs!Text(jobsFile)) <= Keep
    BY LenProperties DEF OnRecord
  <2> HIDE DEF s, saved
  <2>4. /\ saved \in Seq(Recorded)
        /\ IF Len(s) <= Keep THEN saved = s ELSE Len(saved) = Keep
    BY <2>3, SavedList DEF s, saved
  <2>5. saved \notin {NoFile, Torn}
    BY <2>4 DEF Recorded
  <2>6. KJobs!Text(jobsFile)' = saved
    BY <2>1, <2>2, <2>5 DEF KJobs!Text
  <2>7. j \in KJobs!Pushed /\ j # NoFile
    BY <1>7, <2>1 DEF KJobs!Pushed
  <2>8. CASE Len(saved) = Keep
    BY <2>6, <2>8
  <2>9. CASE Len(saved) # Keep
    <3>1. saved = s /\ Len(s) <= Keep
      BY <2>3, <2>4, <2>9
    <3>2. Len(KJobs!Text(jobsFile)) # Keep
      BY <2>2, <2>3, <2>9, <3>1
    <3>3. \A o \in Threads : mine[o] = j => mine'[o] = j \/ j \in JobsOn(s)
      BY <2>1, <2>2, <2>7
    <3> QED
      BY <1>2, <2>1, <2>2, <2>6, <2>7, <3>1, <3>2, <3>3
  <2> QED
    BY <2>8, <2>9
<1>11. CASE KJobs!Restart
  <2>1. /\ orphans' = orphans \union {mine[t] : t \in {o \in Threads : mine[o] # NoFile}}
        /\ UNCHANGED <<kernels, jobsFile>>
    BY <1>11 DEF KJobs!Restart, KJobs!kaggleSide
  <2>2. j \in KJobs!Pushed /\ j # NoFile /\ KJobs!Text(jobsFile)' = KJobs!Text(jobsFile)
    BY <1>7, <2>1 DEF KJobs!Pushed, KJobs!Text
  <2>3. \A o \in Threads : mine[o] = j => j \in orphans'
    BY <2>1, <2>2
  <2> QED
    BY <1>2, <2>1, <2>2, <2>3
<1>12. CASE UNCHANGED KJobs!jobsVars
  BY <1>4, <1>7, <1>12 DEF KJobs!jobsVars
<1> QED
  BY <1>5, <1>6, <1>8, <1>9, <1>10, <1>11, <1>12 DEF KJobs!JobsNext

LEMMA JobsStep ==
    ASSUME JobsInv, [KJobs!JobsNext]_(KJobs!jobsVars)
    PROVE  JobsInv'
<1> USE DEF JobsInv
<1>1. KJobs!JobsTypeOK' /\ (NewestKnown /\ ListsTold)' /\ KJobs!PushesKept' /\ (~crossed => OneSaves)'
  BY JobsTypeStep, JobsTypeOKStep, KeptStep, OneSavesStep
<1> QED
  BY <1>1

LEMMA JobsStart ==
    ASSUME KJobs!JobsInit
    PROVE  JobsInv
<1> USE DEF KJobs!JobsInit
<1>1. KJobs!Text(NoFile) = <<>> /\ Len(<<>>) <= Keep /\ <<>> \in Seq(Recorded)
  BY DEF KJobs!Text
<1>2. KJobs!Pushed = {}
  BY DEF KJobs!Pushed
<1>3. KJobs!JobsTypeOK
  BY <1>1 DEF KJobs!JobsTypeOK
<1>4. OnRecord(<<>>)
  BY <1>1 DEF OnRecord
<1>5. ListsTold
  <2>1. /\ jobsFile = NoFile /\ jobsPart = NoFile /\ list = [t \in Threads |-> <<>>]
        /\ mine = [t \in Threads |-> NoFile] /\ at = [t \in Threads |-> "idle"]
    OBVIOUS
  <2>2. list \in [Threads -> Seq(Recorded)] /\ \A t \in Threads : OnRecord(list[t])
    BY <1>1, <1>4, <2>1
  <2>3. /\ entry \in [Threads -> Nat \ {0}] /\ crossed \in BOOLEAN
        /\ handle \in [Threads -> {"none", "part", "file"}]
    <3>1. 1 \in Nat \ {0} /\ entry = [t \in Threads |-> 1]
      OBVIOUS
    <3>2. entry \in [Threads -> Nat \ {0}]
      BY ONLY <3>1
    <3> QED
      BY <3>2
  <2>4. /\ mine \in [Threads -> KJobs!Pushed \union {NoFile}]
        /\ \A t \in Threads : /\ at[t] \in {"idle", "poll"} => mine[t] = NoFile
                              /\ at[t] = "load" => mine[t] # NoFile
    BY <2>1
  <2> QED
    BY <1>1, <1>4, <2>1, <2>2, <2>3, <2>4 DEF ListsTold
<1>6. NewestKnown /\ KJobs!PushesKept
  BY <1>2 DEF NewestKnown, KJobs!PushesKept
<1>7. OneSaves
  BY DEF OneSaves, Busy
<1> QED
  BY <1>3, <1>5, <1>6, <1>7 DEF JobsInv

HIDE KJobsAssumed DEF KJobs!KaggleAssumption

LEMMA KJobsInParts ==
    /\ PartsInit => KJobs!JobsInit
    /\ [PartsNext]_partsVars => [KJobs!JobsNext]_(KJobs!jobsVars)
<1>1. PartsInit => KJobs!JobsInit
  BY DEF PartsInit
<1>2. ASSUME [PartsNext]_partsVars PROVE [KJobs!JobsNext]_(KJobs!jobsVars)
  BY <1>2 DEF PartsNext, partsVars, OnHost, OnColab, OnKaggle, InJobs, InAccounts,
     InWatchdog, InPool, InPlanner, kjobs, KJobs!jobsVars
<1> QED
  BY <1>1, <1>2

\* The job list of backend/kaggle_dispatch.py forgets no push but in the ways
\* PushesKept names, and calls none done that is not: JobsTracked holds of any
\* number of pushes, references and requests and of every limit of the list.
THEOREM KaggleJobsTracked == PartsSpec => []JobsTracked
<1>1. PartsInit => JobsInv
  BY KJobsInParts, JobsStart
<1>2. JobsInv /\ [PartsNext]_partsVars => JobsInv'
  BY KJobsInParts, JobsStep
<1>3. JobsInv => JobsTracked
  BY DoneByRecord DEF JobsInv, JobsTracked, KJobs!JobsTracked
<1> QED
  BY <1>1, <1>2, <1>3, PTL DEF PartsSpec


-----------------------------------------------------------------------------
(* The Google accounts *)

LEMMA GoogleAssumed == Google!AccountsAssumption
BY PartsAssumption

USE GoogleAssumed DEF Google!AccountsAssumption

\* Who is at work, for which account; saves have met only if that is on record.
HandlersBusy ==
    /\ met # {} => broken
    /\ \A h \in Handlers :
        /\ busy[h] = "idle" => acct[h] = None
        /\ busy[h] = "exchange" => acct[h] \in Accts
        /\ acct[h] # None => ProcOf[h] = Api
        /\ busy[h] # "idle" => manager[ProcOf[h]] = "up"

Connected(c, a) == c[a] # None /\ c[a].on
Joining == {acct[h] : h \in {h \in Handlers : busy[h] \in {"save", "write"}}} \ (refused \union {None})

\* A process that knows the file's content has all who were told, and the API
\* also those it is about to tell.
JoinedCached ==
    /\ joined \intersect refused = {}
    /\ ~stale => \A p \in Procs \ behind : manager[p] = "up" =>
          /\ \A a \in joined : Connected(cache[p], a)
          /\ p = Api => \A a \in Joining : Connected(cache[p], a)

KeysMade ==
    /\ \A p \in Procs : manager[p] = "read" => keyFile # None
    /\ \A p \in Procs : manager[p] = "up" => key[p] # None

\* Unless two first starts raced, there is one key, and all have it.
OneKey ==
    /\ \A p \in Procs : manager[p] = "keying" => keyFile = None
    /\ \A p, o \in Procs : manager[p] = "keying" /\ manager[o] = "keying" => p = o
    /\ \A p \in Procs : manager[p] = "up" =>
          /\ key[p] = keyFile
          /\ \A a \in Accts : cache[p][a] # None => cache[p][a].key = keyFile

AccountsInv ==
    /\ Google!AccountsSafe /\ HandlersBusy /\ JoinedCached /\ KeysMade
    /\ ~keyRace => OneKey

-----------------------------------------------------------------------------

LEMMA GoneTypes ==
    ASSUME Google!AccountsTypeOK, NEW p \in Procs, Google!Gone(p)
    PROVE  /\ manager' \in [Procs -> {"down", "keying", "read", "up"}]
           /\ cache' \in [Procs -> Google!Copies] /\ key' \in [Procs -> Procs \union {None}]
           /\ flows' \in [Nonces -> Accts \union {None, Spent}]
           /\ busy' \in [Handlers -> {"idle", "exchange", "save", "write"}]
           /\ acct' \in [Handlers -> Accts \union {None}]
           /\ grown' \subseteq Handlers /\ met' \subseteq Handlers
<1> USE DEF Google!AccountsTypeOK, Google!Gone, Google!Become
<1>1. Google!Nobody \in Google!Copies
  BY DEF Google!Nobody, Google!Copies
<1>2. cache' \in [Procs -> Google!Copies]
  BY <1>1
<1>3. /\ manager' \in [Procs -> {"down", "keying", "read", "up"}]
      /\ key' \in [Procs -> Procs \union {None}]
  OBVIOUS
<1>4. flows' \in [Nonces -> Accts \union {None, Spent}]
  OBVIOUS
<1>5. /\ busy' \in [Handlers -> {"idle", "exchange", "save", "write"}]
      /\ acct' \in [Handlers -> Accts \union {None}]
      /\ grown' \subseteq Handlers /\ met' \subseteq Handlers
  OBVIOUS
<1> QED
  BY <1>2, <1>3, <1>4, <1>5

LEMMA AccountsTypeStep ==
    ASSUME Google!AccountsTypeOK, HandlersBusy, KeysMade, [Google!AccountsNext]_(Google!accountVars)
    PROVE  Google!AccountsTypeOK'
<1> USE DEF Google!AccountsTypeOK, HandlersBusy, KeysMade, Google!Writing
<1>1. ASSUME NEW p \in Procs, Google!KeyCheck(p) PROVE Google!AccountsTypeOK'
  BY <1>1 DEF Google!KeyCheck, Google!Become, Google!handlerVars, Google!accountHistory
<1>2. ASSUME NEW p \in Procs, Google!KeyWrite(p) PROVE Google!AccountsTypeOK'
  BY <1>2 DEF Google!KeyWrite, Google!Become, Google!handlerVars, Google!accountHistory
<1>3. ASSUME NEW p \in Procs, Google!Load(p) PROVE Google!AccountsTypeOK'
  <2>1. accountsFile # Torn => accountsFile \in Google!Copies
    OBVIOUS
  <2>2. cache' \in [Procs -> Google!Copies]
    BY <1>3, <2>1 DEF Google!Load
  <2> QED
    BY <1>3, <2>2, ZenonT(60) DEF Google!Load, Google!Become, Google!handlerVars, Google!accountHistory
<1>4. ASSUME NEW p \in Procs, Google!RunEnds(p) PROVE Google!AccountsTypeOK'
  BY <1>4, GoneTypes DEF Google!RunEnds, Google!Gone
<1>5. ASSUME NEW p \in Procs, Google!KillProc(p) PROVE Google!AccountsTypeOK'
  <2>1. killed' \in 0 .. MaxKilled /\ Google!Gone(p)
    BY <1>5 DEF Google!KillProc
  <2> QED
    BY <2>1, GoneTypes DEF Google!Gone
<1>6. ASSUME NEW n \in Nonces, NEW a \in Accts, Google!AuthUrl(n, a) PROVE Google!AccountsTypeOK'
  BY <1>6 DEF Google!AuthUrl, Google!accountHistory
<1>7. ASSUME NEW h \in Handlers, NEW n \in Nonces, Google!Callback(h, n) PROVE Google!AccountsTypeOK'
  BY <1>7 DEF Google!Callback, Google!Ready, Google!Do, Google!accountHistory
<1>8. ASSUME NEW h \in Handlers, Google!ExchangeFails(h) PROVE Google!AccountsTypeOK'
  BY <1>8 DEF Google!ExchangeFails, Google!Ready, Google!Do, Google!accountHistory
<1>9. ASSUME NEW h \in Handlers, Google!Exchange(h) PROVE Google!AccountsTypeOK'
  <2>1. [on |-> TRUE, key |-> key[Api]] \in Google!Entry /\ acct[h] \in Accts
    BY <1>9 DEF Google!Exchange, Google!Ready, Google!Entry
  <2>2. [cache[Api] EXCEPT ![acct[h]] = [on |-> TRUE, key |-> key[Api]]] \in Google!Copies
    BY <2>1 DEF Google!Copies
  <2>3. cache' \in [Procs -> Google!Copies]
    BY <1>9, <2>2 DEF Google!Exchange
  <2> QED
    BY <1>9, <2>3 DEF Google!Exchange, Google!Do, Google!accountHistory
<1>10. ASSUME NEW h \in Handlers, Google!Truncate(h) PROVE Google!AccountsTypeOK'
  BY <1>10 DEF Google!Truncate, Google!Ready, Google!Do
<1>11. ASSUME NEW h \in Handlers, Google!WriteAll(h) PROVE Google!AccountsTypeOK'
  BY <1>11 DEF Google!WriteAll, Google!Wrote, Google!Ready, Google!Do
<1>12. ASSUME NEW h \in Handlers, NEW a \in Accts, Google!Expired(h, a) PROVE Google!AccountsTypeOK'
  <2>1. cache[ProcOf[h]][a] \in Google!Entry
    BY <1>12 DEF Google!Expired, Google!Copies
  <2>2. [cache[ProcOf[h]] EXCEPT ![a] = [cache[ProcOf[h]][a] EXCEPT !.on = FALSE]] \in Google!Copies
    BY <2>1 DEF Google!Copies, Google!Entry
  <2>3. cache' \in [Procs -> Google!Copies]
    BY <1>12, <2>2 DEF Google!Expired
  <2> QED
    BY <1>12, <2>3 DEF Google!Expired, Google!Do, Google!accountHistory
<1>13. ASSUME NEW h \in Handlers, Google!DumpRaises(h) PROVE Google!AccountsTypeOK'
  BY <1>13 DEF Google!DumpRaises, Google!Wrote, Google!Ready, Google!Do
<1>14. CASE UNCHANGED Google!accountVars
  BY <1>14 DEF Google!accountVars
<1> QED
  BY <1>1, <1>2, <1>3, <1>4, <1>5, <1>6, <1>7, <1>8, <1>9, <1>10, <1>11, <1>12, <1>13, <1>14 DEF Google!AccountsNext

LEMMA HandlersStep ==
    ASSUME Google!AccountsTypeOK, HandlersBusy, [Google!AccountsNext]_(Google!accountVars)
    PROVE  HandlersBusy'
<1> USE DEF Google!AccountsTypeOK, HandlersBusy
<1>1. ASSUME NEW p \in Procs, Google!KeyCheck(p) PROVE HandlersBusy'
  BY <1>1 DEF Google!KeyCheck, Google!Become, Google!handlerVars, Google!accountHistory
<1>2. ASSUME NEW p \in Procs, Google!KeyWrite(p) PROVE HandlersBusy'
  BY <1>2 DEF Google!KeyWrite, Google!Become, Google!handlerVars, Google!accountHistory
<1>3. ASSUME NEW p \in Procs, Google!Load(p) PROVE HandlersBusy'
  BY <1>3 DEF Google!Load, Google!Become, Google!handlerVars, Google!accountHistory
<1>4. ASSUME NEW p \in Procs, Google!RunEnds(p) PROVE HandlersBusy'
  BY <1>4 DEF Google!RunEnds, Google!Gone, Google!Become
<1>5. ASSUME NEW p \in Procs, Google!KillProc(p) PROVE HandlersBusy'
  BY <1>5 DEF Google!KillProc, Google!Gone, Google!Become
<1>6. ASSUME NEW n \in Nonces, NEW a \in Accts, Google!AuthUrl(n, a) PROVE HandlersBusy'
  BY <1>6 DEF Google!AuthUrl, Google!accountHistory
<1>7. ASSUME NEW h \in Handlers, NEW n \in Nonces, Google!Callback(h, n) PROVE HandlersBusy'
  BY <1>7 DEF Google!Callback, Google!Ready, Google!Do, Google!accountHistory
<1>8. ASSUME NEW h \in Handlers, Google!ExchangeFails(h) PROVE HandlersBusy'
  BY <1>8 DEF Google!ExchangeFails, Google!Ready, Google!Do, Google!accountHistory
<1>9. ASSUME NEW h \in Handlers, Google!Exchange(h) PROVE HandlersBusy'
  BY <1>9 DEF Google!Exchange, Google!Ready, Google!Do, Google!accountHistory
<1>10. ASSUME NEW h \in Handlers, Google!Truncate(h) PROVE HandlersBusy'
  BY <1>10 DEF Google!Truncate, Google!Ready, Google!Do
<1>11. ASSUME NEW h \in Handlers, Google!WriteAll(h) PROVE HandlersBusy'
  BY <1>11 DEF Google!WriteAll, Google!Wrote, Google!Ready, Google!Do
<1>12. ASSUME NEW h \in Handlers, NEW a \in Accts, Google!Expired(h, a) PROVE HandlersBusy'
  BY <1>12 DEF Google!Expired, Google!Ready, Google!Do, Google!accountHistory
<1>13. ASSUME NEW h \in Handlers, Google!DumpRaises(h) PROVE HandlersBusy'
  BY <1>13 DEF Google!DumpRaises, Google!Wrote, Google!Ready, Google!Do
<1>14. CASE UNCHANGED Google!accountVars
  BY <1>14 DEF Google!accountVars
<1> QED
  BY <1>1, <1>2, <1>3, <1>4, <1>5, <1>6, <1>7, <1>8, <1>9, <1>10, <1>11, <1>12, <1>13, <1>14 DEF Google!AccountsNext

LEMMA TornStep ==
    ASSUME Google!AccountsTypeOK, HandlersBusy, Google!TornExplained, [Google!AccountsNext]_(Google!accountVars)
    PROVE  Google!TornExplained'
<1> USE DEF Google!AccountsTypeOK, HandlersBusy, Google!TornExplained, Google!Writing
<1>1. ASSUME NEW p \in Procs, Google!KeyCheck(p) PROVE Google!TornExplained'
  BY <1>1 DEF Google!KeyCheck, Google!Become, Google!handlerVars, Google!accountHistory
<1>2. ASSUME NEW p \in Procs, Google!KeyWrite(p) PROVE Google!TornExplained'
  BY <1>2 DEF Google!KeyWrite, Google!Become, Google!handlerVars, Google!accountHistory
<1>3. ASSUME NEW p \in Procs, Google!Load(p) PROVE Google!TornExplained'
  BY <1>3 DEF Google!Load, Google!Become, Google!handlerVars, Google!accountHistory
<1>4. ASSUME NEW p \in Procs, Google!RunEnds(p) PROVE Google!TornExplained'
  BY <1>4 DEF Google!RunEnds, Google!Gone, Google!Become
<1>5. ASSUME NEW p \in Procs, Google!KillProc(p) PROVE Google!TornExplained'
  <2>1. /\ accountsFile' = accountsFile
        /\ broken' = (broken \/ \E h \in Handlers : busy[h] = "write" /\ ProcOf[h] = p)
        /\ \A h \in Handlers : ProcOf[h] # p => busy'[h] = busy[h]
    BY <1>5 DEF Google!KillProc, Google!Gone
  <2>2. ASSUME accountsFile' = Torn, ~broken'
        PROVE  \E h \in Handlers : busy'[h] = "write"
    <3>1. PICK h \in Handlers : busy[h] = "write"
      BY <2>1, <2>2, ZenonT(60)
    <3>2. ProcOf[h] # p
      BY <2>1, <2>2, <3>1
    <3> QED
      BY <2>1, <3>1, <3>2
  <2>3. Google!TornExplained' <=> (accountsFile' = Torn => broken' \/ \E h \in Handlers : busy'[h] = "write")
    BY ZenonT(60)
  <2> QED
    BY <2>2, <2>3
<1>6. ASSUME NEW n \in Nonces, NEW a \in Accts, Google!AuthUrl(n, a) PROVE Google!TornExplained'
  BY <1>6 DEF Google!AuthUrl, Google!accountHistory
<1>7. ASSUME NEW h \in Handlers, NEW n \in Nonces, Google!Callback(h, n) PROVE Google!TornExplained'
  BY <1>7 DEF Google!Callback, Google!Ready, Google!Do, Google!accountHistory
<1>8. ASSUME NEW h \in Handlers, Google!ExchangeFails(h) PROVE Google!TornExplained'
  BY <1>8 DEF Google!ExchangeFails, Google!Ready, Google!Do, Google!accountHistory
<1>9. ASSUME NEW h \in Handlers, Google!Exchange(h) PROVE Google!TornExplained'
  BY <1>9 DEF Google!Exchange, Google!Ready, Google!Do, Google!accountHistory
<1>10. ASSUME NEW h \in Handlers, Google!Truncate(h) PROVE Google!TornExplained'
  BY <1>10 DEF Google!Truncate, Google!Ready, Google!Do
<1>11. ASSUME NEW h \in Handlers, Google!WriteAll(h) PROVE Google!TornExplained'
  BY <1>11 DEF Google!WriteAll, Google!Wrote, Google!Ready, Google!Do
<1>12. ASSUME NEW h \in Handlers, NEW a \in Accts, Google!Expired(h, a) PROVE Google!TornExplained'
  BY <1>12 DEF Google!Expired, Google!Ready, Google!Do, Google!accountHistory
<1>13. ASSUME NEW h \in Handlers, Google!DumpRaises(h) PROVE Google!TornExplained'
  BY <1>13 DEF Google!DumpRaises, Google!Wrote, Google!Ready, Google!Do
<1>14. CASE UNCHANGED Google!accountVars
  BY <1>14 DEF Google!accountVars
<1> QED
  BY <1>1, <1>2, <1>3, <1>4, <1>5, <1>6, <1>7, <1>8, <1>9, <1>10, <1>11, <1>12, <1>13, <1>14 DEF Google!AccountsNext

LEMMA JoinedStep ==
    ASSUME Google!AccountsTypeOK, HandlersBusy, KeysMade, Google!JoinedKept, JoinedCached,
           [Google!AccountsNext]_(Google!accountVars)
    PROVE  (Google!JoinedKept /\ JoinedCached)'
<1> USE DEF Google!AccountsTypeOK, HandlersBusy, Google!JoinedKept, JoinedCached, Connected, Joining
<1>1. ASSUME NEW p \in Procs, Google!KeyCheck(p) PROVE (Google!JoinedKept /\ JoinedCached)'
  BY <1>1 DEF Google!KeyCheck, Google!Become, Google!handlerVars, Google!accountHistory
<1>2. ASSUME NEW p \in Procs, Google!KeyWrite(p) PROVE (Google!JoinedKept /\ JoinedCached)'
  BY <1>2 DEF Google!KeyWrite, Google!Become, Google!handlerVars, Google!accountHistory
<1>3. ASSUME NEW p \in Procs, Google!Load(p) PROVE (Google!JoinedKept /\ JoinedCached)'
  BY <1>3 DEF Google!Load, Google!Become, Google!handlerVars, Google!accountHistory
<1>4. ASSUME NEW p \in Procs, Google!RunEnds(p) PROVE (Google!JoinedKept /\ JoinedCached)'
  BY <1>4 DEF Google!RunEnds, Google!Gone, Google!Become
<1>5. ASSUME NEW p \in Procs, Google!KillProc(p) PROVE (Google!JoinedKept /\ JoinedCached)'
  BY <1>5 DEF Google!KillProc, Google!Gone, Google!Become
<1>6. ASSUME NEW n \in Nonces, NEW a \in Accts, Google!AuthUrl(n, a) PROVE (Google!JoinedKept /\ JoinedCached)'
  BY <1>6 DEF Google!AuthUrl, Google!accountHistory
<1>7. ASSUME NEW h \in Handlers, NEW n \in Nonces, Google!Callback(h, n) PROVE (Google!JoinedKept /\ JoinedCached)'
  BY <1>7 DEF Google!Callback, Google!Ready, Google!Do, Google!accountHistory
<1>8. ASSUME NEW h \in Handlers, Google!ExchangeFails(h) PROVE (Google!JoinedKept /\ JoinedCached)'
  BY <1>8 DEF Google!ExchangeFails, Google!Ready, Google!Do, Google!accountHistory
<1>9. ASSUME NEW h \in Handlers, Google!Exchange(h) PROVE (Google!JoinedKept /\ JoinedCached)'
  <2>1. /\ ProcOf[h] = Api /\ acct[h] \in Accts /\ manager[Api] = "up"
        /\ cache' = [cache EXCEPT ![Api][acct[h]] = [on |-> TRUE, key |-> key[Api]]]
        /\ refused' = refused \ {acct[h]} /\ busy' = [busy EXCEPT ![h] = "save"]
        /\ UNCHANGED <<accountsFile, manager, acct, joined, behind, stale>>
    BY <1>9 DEF Google!Exchange, Google!Ready, Google!Do, Google!accountHistory
  <2>2. Connected(cache'[Api], acct[h])
    <3>1. cache'[Api][acct[h]] = [on |-> TRUE, key |-> key[Api]]
      BY <2>1 DEF Google!Copies
    <3>2. key[Api] # None /\ key[Api] \in Procs
      BY <2>1 DEF KeysMade
    <3>3. [on |-> TRUE, key |-> key[Api]] \in Google!Entry
      BY <3>2 DEF Google!Entry
    <3> QED
      <4>1. [on |-> TRUE, key |-> key[Api]] # None
        BY <3>3
      <4>2. [on |-> TRUE, key |-> key[Api]].on
        OBVIOUS
      <4> QED
        BY <3>1, <4>1, <4>2
  <2>3. \A p \in Procs, a \in Accts : Connected(cache[p], a) => Connected(cache'[p], a)
    <3>1. ASSUME NEW p \in Procs, NEW a \in Accts, a # acct[h] PROVE cache'[p][a] = cache[p][a]
      BY <2>1, <3>1 DEF Google!Copies
    <3>2. \A p \in Procs \ {Api} : cache'[p] = cache[p]
      BY <2>1
    <3> QED
      BY <2>2, <3>1, <3>2
  <2>4. joined \subseteq Accts /\ Joining \subseteq Accts
    OBVIOUS
  <2>5. Joining' \subseteq Joining \union {acct[h]}
    BY <2>1
  <2>6. Google!JoinedKept'
    BY <2>1
  <2> HIDE DEF Joining, Connected
  <2>7. JoinedCached'
    <3>1. /\ joined' = joined /\ behind' = behind /\ stale' = stale /\ manager' = manager
          /\ refused' \subseteq refused
      BY <2>1
    <3>2. joined' \intersect refused' = {}
      BY <3>1
    <3>3. ASSUME ~stale', NEW p \in Procs \ behind', manager'[p] = "up"
          PROVE  /\ \A a \in joined' : Connected(cache'[p], a)
                 /\ p = Api => \A a \in Joining' : Connected(cache'[p], a)
      <4>1. /\ \A a \in joined : Connected(cache[p], a)
            /\ p = Api => \A a \in Joining : Connected(cache[p], a)
        BY <3>1, <3>3
      <4>2. \A a \in joined' : Connected(cache'[p], a)
        BY <2>3, <2>4, <3>1, <4>1
      <4>3. p = Api => \A a \in Joining' : Connected(cache'[p], a)
        BY <2>2, <2>3, <2>4, <2>5, <4>1
      <4> QED
        BY <4>2, <4>3
    <3> QED
      BY <3>2, <3>3
  <2> QED
    BY <2>6, <2>7
<1>10. ASSUME NEW h \in Handlers, Google!Truncate(h) PROVE (Google!JoinedKept /\ JoinedCached)'
  BY <1>10 DEF Google!Truncate, Google!Ready, Google!Do
<1>11. ASSUME NEW h \in Handlers, Google!WriteAll(h) PROVE (Google!JoinedKept /\ JoinedCached)'
  <2> DEFINE p == ProcOf[h]
  <2>1. /\ manager[p] = "up" /\ busy[h] = "write" /\ p \in Procs
        /\ joined' = joined \union ({acct[h]} \ (refused \union {None}))
        /\ behind' = behind \union (Procs \ {p}) /\ (stale' <=> (stale \/ p \in behind))
        /\ busy' = [busy EXCEPT ![h] = "idle"] /\ acct' = [acct EXCEPT ![h] = None]
        /\ UNCHANGED <<manager, cache, refused>>
        /\ accountsFile' = cache[p] \/ accountsFile' = Torn
    BY <1>11 DEF Google!WriteAll, Google!Wrote, Google!Ready, Google!Do
  <2>2. joined' \intersect refused' = {}
    BY <2>1
  <2>3. acct[h] \notin refused \union {None} => acct[h] \in Joining /\ p = Api
    BY <2>1
  <2>4. ~stale' => \A a \in joined' : Connected(cache[p], a)
    <3> HIDE DEF Joining, Connected
    <3> QED
      BY <2>1, <2>3
  <2>5. Joining' \subseteq Joining
    BY <2>1
  <2>6. Google!JoinedKept'
    BY <2>1, <2>4
  <2> HIDE DEF Joining, Connected
  <2>7. JoinedCached'
    BY <2>1, <2>2, <2>4, <2>5
  <2> QED
    BY <2>6, <2>7
<1>12. ASSUME NEW h \in Handlers, NEW a \in Accts, Google!Expired(h, a) PROVE (Google!JoinedKept /\ JoinedCached)'
  <2> DEFINE p == ProcOf[h]
             known == IF p \in behind THEN {} ELSE {a}
  <2>1. /\ busy[h] = "idle" /\ p \in Procs /\ acct[h] = None
        /\ \A q \in Procs : q # p => cache'[q] = cache[q]
        /\ \A b \in Accts : b # a => cache'[p][b] = cache[p][b]
        /\ busy' = [busy EXCEPT ![h] = "save"]
        /\ refused' = refused \union known /\ joined' = joined \ known
        /\ UNCHANGED <<accountsFile, manager, acct, behind, stale>>
    BY <1>12 DEF Google!Expired, Google!Ready, Google!Do, Google!Copies
  <2> HIDE DEF p, known
  <2>2. joined' \intersect refused' = {} /\ joined' \subseteq joined
    BY <2>1
  <2>3. Joining' \subseteq Joining \ known
    BY <2>1
  <2>4. Google!JoinedKept'
    BY <2>1, <2>2
  <2>5. joined \subseteq Accts /\ Joining \subseteq Accts
    OBVIOUS
  <2>6. ASSUME NEW q \in Procs \ behind, NEW b \in Accts, b \notin known, Connected(cache[q], b)
        PROVE  Connected(cache'[q], b)
    <3>1. q = p => b # a
      BY <2>6 DEF known
    <3> QED
      BY <2>1, <2>6, <3>1
  <2> HIDE DEF Joining, Connected
  <2>7. JoinedCached'
    <3>1. ASSUME ~stale', NEW q \in Procs \ behind', manager'[q] = "up"
          PROVE  /\ \A b \in joined' : Connected(cache'[q], b)
                 /\ q = Api => \A b \in Joining' : Connected(cache'[q], b)
      <4>1. /\ ~stale /\ q \in Procs \ behind
            /\ \A b \in joined : Connected(cache[q], b)
            /\ q = Api => \A b \in Joining : Connected(cache[q], b)
        BY <2>1, <3>1
      <4>2. \A b \in joined' : b \in joined /\ b \in Accts /\ b \notin known
        BY <2>1, <2>5
      <4>3. \A b \in Joining' : b \in Joining /\ b \in Accts /\ b \notin known
        BY <2>3, <2>5
      <4> QED
        BY <2>6, <4>1, <4>2, <4>3
    <3> QED
      BY <2>2, <3>1
  <2> QED
    BY <2>4, <2>7
<1>13. ASSUME NEW h \in Handlers, Google!DumpRaises(h) PROVE (Google!JoinedKept /\ JoinedCached)'
  BY <1>13 DEF Google!DumpRaises, Google!Wrote, Google!Ready, Google!Do
<1>14. CASE UNCHANGED Google!accountVars
  BY <1>14 DEF Google!accountVars
<1> QED
  BY <1>1, <1>2, <1>3, <1>4, <1>5, <1>6, <1>7, <1>8, <1>9, <1>10, <1>11, <1>12, <1>13, <1>14 DEF Google!AccountsNext

LEMMA KeysMadeStep ==
    ASSUME Google!AccountsTypeOK, KeysMade, [Google!AccountsNext]_(Google!accountVars)
    PROVE  KeysMade'
<1> USE DEF Google!AccountsTypeOK, KeysMade
<1>1. ASSUME NEW p \in Procs, Google!KeyCheck(p) PROVE KeysMade'
  BY <1>1 DEF Google!KeyCheck, Google!Become, Google!handlerVars, Google!accountHistory
<1>2. ASSUME NEW p \in Procs, Google!KeyWrite(p) PROVE KeysMade'
  BY <1>2 DEF Google!KeyWrite, Google!Become, Google!handlerVars, Google!accountHistory
<1>3. ASSUME NEW p \in Procs, Google!Load(p) PROVE KeysMade'
  BY <1>3 DEF Google!Load, Google!Become, Google!handlerVars, Google!accountHistory
<1>4. ASSUME NEW p \in Procs, Google!RunEnds(p) PROVE KeysMade'
  BY <1>4 DEF Google!RunEnds, Google!Gone, Google!Become
<1>5. ASSUME NEW p \in Procs, Google!KillProc(p) PROVE KeysMade'
  BY <1>5 DEF Google!KillProc, Google!Gone, Google!Become
<1>6. ASSUME NEW n \in Nonces, NEW a \in Accts, Google!AuthUrl(n, a) PROVE KeysMade'
  BY <1>6 DEF Google!AuthUrl, Google!accountHistory
<1>7. ASSUME NEW h \in Handlers, NEW n \in Nonces, Google!Callback(h, n) PROVE KeysMade'
  BY <1>7 DEF Google!Callback, Google!Ready, Google!Do, Google!accountHistory
<1>8. ASSUME NEW h \in Handlers, Google!ExchangeFails(h) PROVE KeysMade'
  BY <1>8 DEF Google!ExchangeFails, Google!Ready, Google!Do, Google!accountHistory
<1>9. ASSUME NEW h \in Handlers, Google!Exchange(h) PROVE KeysMade'
  BY <1>9 DEF Google!Exchange, Google!Ready, Google!Do, Google!accountHistory
<1>10. ASSUME NEW h \in Handlers, Google!Truncate(h) PROVE KeysMade'
  BY <1>10 DEF Google!Truncate, Google!Ready, Google!Do
<1>11. ASSUME NEW h \in Handlers, Google!WriteAll(h) PROVE KeysMade'
  BY <1>11 DEF Google!WriteAll, Google!Wrote, Google!Ready, Google!Do
<1>12. ASSUME NEW h \in Handlers, NEW a \in Accts, Google!Expired(h, a) PROVE KeysMade'
  BY <1>12 DEF Google!Expired, Google!Ready, Google!Do, Google!accountHistory
<1>13. ASSUME NEW h \in Handlers, Google!DumpRaises(h) PROVE KeysMade'
  BY <1>13 DEF Google!DumpRaises, Google!Wrote, Google!Ready, Google!Do
<1>14. CASE UNCHANGED Google!accountVars
  BY <1>14 DEF Google!accountVars
<1> QED
  BY <1>1, <1>2, <1>3, <1>4, <1>5, <1>6, <1>7, <1>8, <1>9, <1>10, <1>11, <1>12, <1>13, <1>14 DEF Google!AccountsNext

LEMMA OneKeyStep ==
    ASSUME Google!AccountsTypeOK, HandlersBusy, KeysMade, Google!TokensReadable,
           ~keyRace => OneKey, [Google!AccountsNext]_(Google!accountVars)
    PROVE  (Google!TokensReadable /\ (~keyRace => OneKey))'
<1> USE DEF Google!AccountsTypeOK, Google!Copies, Google!Entry, HandlersBusy, KeysMade, Google!TokensReadable, OneKey
<1>1. ASSUME NEW p \in Procs, Google!KeyCheck(p) PROVE (Google!TokensReadable /\ (~keyRace => OneKey))'
  <2>1. /\ UNCHANGED <<keyFile, accountsFile, key, cache>>
        /\ manager' = [manager EXCEPT ![p] = IF keyFile = None THEN "keying" ELSE "read"]
        /\ keyRace' = (keyRace \/ (keyFile = None /\ \E o \in Procs : manager[o] = "keying"))
    BY <1>1 DEF Google!KeyCheck, Google!Become
  <2>2. Google!TokensReadable'
    BY <2>1
  <2>3. ASSUME ~keyRace' PROVE OneKey'
    <3>1. \A o \in Procs : manager'[o] = "keying" => keyFile' = None
      BY <2>1, <2>3
    <3>2. \A o, q \in Procs : manager'[o] = "keying" /\ manager'[q] = "keying" => o = q
      <4>1. \A o \in Procs : manager[o] # "keying"
        BY <2>1, <2>3
      <4>2. \A o \in Procs : manager'[o] = "keying" => o = p
        BY <2>1, <4>1
      <4> QED
        BY ONLY <4>2
    <3>3. \A o \in Procs : manager'[o] = "up" => manager[o] = "up"
      BY <2>1
    <3>4. ASSUME NEW o \in Procs, manager'[o] = "up"
          PROVE  /\ key'[o] = keyFile'
                 /\ \A a \in Accts : cache'[o][a] # None => cache'[o][a].key = keyFile'
      <4>1. ~keyRace /\ manager[o] = "up"
        BY <2>1, <2>3, <3>3, <3>4
      <4>2. /\ key[o] = keyFile
            /\ \A a \in Accts : cache[o][a] # None => cache[o][a].key = keyFile
        BY <4>1
      <4> QED
        BY <2>1, <4>2
    <3> QED
      BY <3>1, <3>2, <3>4
  <2> QED
    BY <2>2, <2>3
<1>2. ASSUME NEW p \in Procs, Google!KeyWrite(p) PROVE (Google!TokensReadable /\ (~keyRace => OneKey))'
  BY <1>2 DEF Google!KeyWrite, Google!Become, Google!handlerVars, Google!accountHistory
<1>3. ASSUME NEW p \in Procs, Google!Load(p) PROVE (Google!TokensReadable /\ (~keyRace => OneKey))'
  BY <1>3 DEF Google!Load, Google!Become, Google!handlerVars, Google!accountHistory
<1>4. ASSUME NEW p \in Procs, Google!RunEnds(p) PROVE (Google!TokensReadable /\ (~keyRace => OneKey))'
  BY <1>4 DEF Google!RunEnds, Google!Gone, Google!Become
<1>5. ASSUME NEW p \in Procs, Google!KillProc(p) PROVE (Google!TokensReadable /\ (~keyRace => OneKey))'
  BY <1>5 DEF Google!KillProc, Google!Gone, Google!Become
<1>6. ASSUME NEW n \in Nonces, NEW a \in Accts, Google!AuthUrl(n, a) PROVE (Google!TokensReadable /\ (~keyRace => OneKey))'
  BY <1>6 DEF Google!AuthUrl, Google!accountHistory
<1>7. ASSUME NEW h \in Handlers, NEW n \in Nonces, Google!Callback(h, n) PROVE (Google!TokensReadable /\ (~keyRace => OneKey))'
  BY <1>7 DEF Google!Callback, Google!Ready, Google!Do, Google!accountHistory
<1>8. ASSUME NEW h \in Handlers, Google!ExchangeFails(h) PROVE (Google!TokensReadable /\ (~keyRace => OneKey))'
  BY <1>8 DEF Google!ExchangeFails, Google!Ready, Google!Do, Google!accountHistory
<1>9. ASSUME NEW h \in Handlers, Google!Exchange(h) PROVE (Google!TokensReadable /\ (~keyRace => OneKey))'
  BY <1>9 DEF Google!Exchange, Google!Ready, Google!Do, Google!accountHistory
<1>10. ASSUME NEW h \in Handlers, Google!Truncate(h) PROVE (Google!TokensReadable /\ (~keyRace => OneKey))'
  BY <1>10 DEF Google!Truncate, Google!Ready, Google!Do
<1>11. ASSUME NEW h \in Handlers, Google!WriteAll(h) PROVE (Google!TokensReadable /\ (~keyRace => OneKey))'
  BY <1>11 DEF Google!WriteAll, Google!Wrote, Google!Ready, Google!Do
<1>12. ASSUME NEW h \in Handlers, NEW a \in Accts, Google!Expired(h, a) PROVE (Google!TokensReadable /\ (~keyRace => OneKey))'
  BY <1>12 DEF Google!Expired, Google!Ready, Google!Do, Google!accountHistory
<1>13. ASSUME NEW h \in Handlers, Google!DumpRaises(h) PROVE (Google!TokensReadable /\ (~keyRace => OneKey))'
  BY <1>13 DEF Google!DumpRaises, Google!Wrote, Google!Ready, Google!Do
<1>14. CASE UNCHANGED Google!accountVars
  BY <1>14 DEF Google!accountVars
<1> QED
  BY <1>1, <1>2, <1>3, <1>4, <1>5, <1>6, <1>7, <1>8, <1>9, <1>10, <1>11, <1>12, <1>13, <1>14 DEF Google!AccountsNext

LEMMA AccountsStep ==
    ASSUME AccountsInv, [Google!AccountsNext]_(Google!accountVars)
    PROVE  AccountsInv'
<1> USE DEF AccountsInv, Google!AccountsSafe
<1>1. Google!AccountsTypeOK' /\ HandlersBusy' /\ KeysMade' /\ Google!TornExplained'
  BY AccountsTypeStep, HandlersStep, KeysMadeStep, TornStep
<1>2. (Google!JoinedKept /\ JoinedCached)' /\ (Google!TokensReadable /\ (~keyRace => OneKey))'
  BY JoinedStep, OneKeyStep
<1> QED
  BY <1>1, <1>2

LEMMA AccountsStart ==
    ASSUME Google!AccountsInit
    PROVE  AccountsInv
<1> USE DEF Google!AccountsInit
<1>1. Google!Nobody \in Google!Copies /\ \A a \in Accts : Google!Nobody[a] = None
  BY DEF Google!Nobody, Google!Copies
<1>2. Google!AccountsTypeOK
  BY <1>1 DEF Google!AccountsTypeOK
<1>3. accountsFile # Torn /\ joined = {}
  BY <1>1
<1> QED
  BY <1>1, <1>2, <1>3 DEF AccountsInv, Google!AccountsSafe, Google!JoinedKept, Google!TornExplained, Google!TokensReadable,
     HandlersBusy, JoinedCached, Joining, KeysMade, OneKey

HIDE GoogleAssumed DEF Google!AccountsAssumption

LEMMA GoogleInParts ==
    /\ PartsInit => Google!AccountsInit
    /\ [PartsNext]_partsVars => [Google!AccountsNext]_(Google!accountVars)
<1>1. PartsInit => Google!AccountsInit
  BY DEF PartsInit
<1>2. ASSUME [PartsNext]_partsVars PROVE [Google!AccountsNext]_(Google!accountVars)
  BY <1>2 DEF PartsNext, partsVars, OnHost, OnColab, OnKaggle, InJobs, InAccounts,
     InWatchdog, InPool, InPlanner, google, Google!accountVars
<1> QED
  BY <1>1, <1>2

\* backend/google_account_manager.py keeps who was told "connected" in its file,
\* tears the file only in the ways TornExplained names, and stores every token
\* under the key on disk: AccountsSafe holds of any number of processes,
\* requests and accounts.
THEOREM AccountsStaySafe == PartsSpec => []AccountsSafe
<1>1. PartsInit => AccountsInv
  BY GoogleInParts, AccountsStart
<1>2. AccountsInv /\ [PartsNext]_partsVars => AccountsInv'
  BY GoogleInParts, AccountsStep
<1>3. AccountsInv => AccountsSafe
  BY DEF AccountsInv, AccountsSafe
<1> QED
  BY <1>1, <1>2, <1>3, PTL DEF PartsSpec


-----------------------------------------------------------------------------
(* The compaction watchdog *)

LEMMA DogAssumed == Dog!WatchdogAssumption
BY PartsAssumption

USE DogAssumed DEF Dog!WatchdogAssumption

\* The instance has a copy of FiniteSets of its own.
LEMMA DogCounts ==
    \A S : /\ Dog!IsFiniteSet(S) <=> IsFiniteSet(S)
           /\ Dog!Cardinality(S) = Cardinality(S)
<1>1. ASSUME NEW S PROVE Dog!IsFiniteSet(S) <=> IsFiniteSet(S)
  BY DEF Dog!IsFiniteSet, IsFiniteSet
<1>2. ASSUME NEW S PROVE Dog!Cardinality(S) = Cardinality(S)
  BY DEF Dog!Cardinality, Cardinality, Dog!IsFiniteSet, IsFiniteSet
<1> QED
  BY <1>1, <1>2


Merged == observer \in {"upload", "record", "remove"}
Counting == observer \in {"total", "truncate", "write"}
OutOrLost == Dog!RowsIn(output) \union lost
Shipped == Dog!RowsIn(remote) \union lost

\* Where the files of a batch are.
BatchPlaced ==
    /\ observer \in {"wait", "merge"} => batch = {}
    /\ Merged => output[name] = batch /\ pending = batch
    /\ Counting => Dog!Whole(batch) = {} /\ (pending = batch \/ pending \subseteq given_up)
    /\ \A f \in batch : micro[f] \in {"whole", "gone"}

\* A file is merged at most once.
FreshOnes ==
    /\ \A f \in Files : micro[f] \in {"absent", "growing"} => f \notin OutOrLost
    /\ \A f \in events \union pending : micro[f] # "absent"
    /\ events \intersect pending = {}
    /\ events \intersect OutOrLost = {}
    /\ observer \in {"wait", "merge"} => pending \intersect OutOrLost = {}

\* What was shipped was put out, and counted at most once.
ShippedCounted ==
    /\ \A n \in Dog!Names : remote[n] \subseteq output[n] \union lost
    /\ logged \in Nat
    /\ observer = "record" => batch \subseteq Dog!RowsIn(remote)
    /\ observer \in {"upload", "record"} => logged <= Cardinality(Shipped \ batch)

\* The totals the threads have read are not ahead, and exact if they never met.
TotalsRead ==
    /\ merged \in Nat /\ seen \in Nat /\ seenByBeat \in Nat
    /\ Dog!Number(total) <= merged
    /\ beat # "sleep" => seenByBeat <= merged
    /\ observer \in {"truncate", "write"} => seen <= merged + Cardinality(batch)
    /\ ~clashed =>
          /\ observer \in {"truncate", "write"} =>
                 beat = "sleep" /\ seen = merged + Cardinality(batch)
          /\ beat # "sleep" => seenByBeat = merged
          /\ total = IF beat = "write" \/ observer = "write" THEN Torn ELSE merged

DogInv == /\ Dog!WatchdogSafe /\ BatchPlaced /\ FreshOnes /\ ShippedCounted /\ TotalsRead
LEMMA TypeStep ==
    ASSUME Dog!WatchdogTypeOK, BatchPlaced, TotalsRead, [Dog!WatchdogNext]_(Dog!watchdogVars)
    PROVE  Dog!WatchdogTypeOK'
<1> USE DEF Dog!WatchdogTypeOK, BatchPlaced, TotalsRead, Merged, Counting, Dog!Names,
            Dog!Whole, Dog!Number, Dog!diskVars, Dog!stateVars, Dog!faultVars, Dog!observerRest,
            Dog!mainRest
<1>1. ASSUME NEW f \in Files, Dog!Create(f) PROVE Dog!WatchdogTypeOK'
  BY <1>1 DEF Dog!Create, Dog!diskVars, Dog!stateVars, Dog!faultVars
<1>2. ASSUME NEW f \in Files, Dog!Complete(f) PROVE Dog!WatchdogTypeOK'
  BY <1>2 DEF Dog!Complete, Dog!diskVars, Dog!stateVars, Dog!faultVars
<1>3. ASSUME NEW f \in Files, Dog!OnCreated(f) PROVE Dog!WatchdogTypeOK'
  BY <1>3 DEF Dog!OnCreated, Dog!diskVars, Dog!stateVars, Dog!faultVars
<1>4. CASE Dog!StartWatchdog
  BY <1>4 DEF Dog!StartWatchdog
<1>5. CASE Dog!ClockTicks
  BY <1>5 DEF Dog!ClockTicks
<1>6. CASE Dog!Merge
  <2>1. /\ batch' = pending /\ name' = second /\ observer' = "upload"
        /\ output' = [output EXCEPT ![second] = pending]
        /\ lost' = lost \union (output[second] \ pending)
        /\ UNCHANGED <<micro, remote, events, pending, second, total, beat, given_up, halves>>
    BY <1>6 DEF Dog!Merge
  <2>2. output' \in [1 .. Seconds -> SUBSET Files] /\ output[second] \subseteq Files
    BY <2>1
  <2> QED
    BY <2>1, <2>2
<1>7. CASE Dog!MergeFails
  BY <1>7 DEF Dog!MergeFails
<1>8. CASE Dog!Upload
  BY <1>8 DEF Dog!Upload
<1>9. CASE Dog!UploadFails
  BY <1>9 DEF Dog!UploadFails
<1>10. CASE Dog!Record
  BY <1>10 DEF Dog!Record
<1>11. CASE Dog!Remove
  BY <1>11 DEF Dog!Remove
<1>12. CASE Dog!ReadTotal
  BY <1>12 DEF Dog!ReadTotal
<1>13. CASE Dog!TruncateState
  BY <1>13 DEF Dog!TruncateState
<1>14. CASE Dog!WriteState
  BY <1>14 DEF Dog!WriteState
<1>15. CASE Dog!ReadBeat
  BY <1>15 DEF Dog!ReadBeat
<1>16. CASE Dog!TruncateBeat
  BY <1>16 DEF Dog!TruncateBeat
<1>17. CASE Dog!WriteBeat
  BY <1>17 DEF Dog!WriteBeat
<1>18. CASE Dog!Stopped
  BY <1>18 DEF Dog!Stopped
<1>20. CASE Dog!RemoveFails
  BY <1>20 DEF Dog!RemoveFails
<1>19. CASE UNCHANGED Dog!watchdogVars
  BY <1>19 DEF Dog!watchdogVars
<1> QED
  BY <1>1, <1>2, <1>3, <1>4, <1>5, <1>6, <1>7, <1>8, <1>9, <1>10, <1>11, <1>12, <1>13, <1>14, <1>15, <1>16, <1>17, <1>18, <1>19, <1>20 DEF Dog!WatchdogNext

LEMMA PlacedStep ==
    ASSUME Dog!WatchdogTypeOK, BatchPlaced, FreshOnes, [Dog!WatchdogNext]_(Dog!watchdogVars)
    PROVE  BatchPlaced'
<1> USE DEF Dog!WatchdogTypeOK, BatchPlaced, Merged, Counting, Dog!Names, Dog!Whole,
            FreshOnes, OutOrLost, Dog!RowsIn, Dog!diskVars, Dog!stateVars, Dog!faultVars,
            Dog!observerRest, Dog!mainRest
<1>1. ASSUME NEW f \in Files, Dog!Create(f) PROVE BatchPlaced'
  BY <1>1 DEF Dog!Create, Dog!diskVars, Dog!stateVars, Dog!faultVars
<1>2. ASSUME NEW f \in Files, Dog!Complete(f) PROVE BatchPlaced'
  BY <1>2 DEF Dog!Complete, Dog!diskVars, Dog!stateVars, Dog!faultVars
<1>3. ASSUME NEW f \in Files, Dog!OnCreated(f) PROVE BatchPlaced'
  BY <1>3 DEF Dog!OnCreated, Dog!diskVars, Dog!stateVars, Dog!faultVars
<1>4. CASE Dog!StartWatchdog
  BY <1>4 DEF Dog!StartWatchdog
<1>5. CASE Dog!ClockTicks
  BY <1>5 DEF Dog!ClockTicks
<1>6. CASE Dog!Merge
  BY <1>6 DEF Dog!Merge
<1>7. CASE Dog!MergeFails
  BY <1>7 DEF Dog!MergeFails
<1>8. CASE Dog!Upload
  BY <1>8 DEF Dog!Upload
<1>9. CASE Dog!UploadFails
  BY <1>9 DEF Dog!UploadFails
<1>10. CASE Dog!Record
  BY <1>10 DEF Dog!Record
<1>11. CASE Dog!Remove
  BY <1>11 DEF Dog!Remove
<1>12. CASE Dog!ReadTotal
  BY <1>12 DEF Dog!ReadTotal
<1>13. CASE Dog!TruncateState
  BY <1>13 DEF Dog!TruncateState
<1>14. CASE Dog!WriteState
  BY <1>14 DEF Dog!WriteState
<1>15. CASE Dog!ReadBeat
  BY <1>15 DEF Dog!ReadBeat
<1>16. CASE Dog!TruncateBeat
  BY <1>16 DEF Dog!TruncateBeat
<1>17. CASE Dog!WriteBeat
  BY <1>17 DEF Dog!WriteBeat
<1>18. CASE Dog!Stopped
  BY <1>18 DEF Dog!Stopped
<1>20. CASE Dog!RemoveFails
  BY <1>20 DEF Dog!RemoveFails
<1>19. CASE UNCHANGED Dog!watchdogVars
  BY <1>19 DEF Dog!watchdogVars
<1> QED
  BY <1>1, <1>2, <1>3, <1>4, <1>5, <1>6, <1>7, <1>8, <1>9, <1>10, <1>11, <1>12, <1>13, <1>14, <1>15, <1>16, <1>17, <1>18, <1>19, <1>20 DEF Dog!WatchdogNext

LEMMA ForgottenStep ==
    ASSUME Dog!WatchdogTypeOK, BatchPlaced, Dog!NoneForgotten, [Dog!WatchdogNext]_(Dog!watchdogVars)
    PROVE  Dog!NoneForgotten'
<1> USE DEF Dog!WatchdogTypeOK, BatchPlaced, Merged, Counting, Dog!Names, Dog!Whole,
            Dog!NoneForgotten, Dog!diskVars, Dog!stateVars, Dog!faultVars, Dog!observerRest,
            Dog!mainRest
<1>1. ASSUME NEW f \in Files, Dog!Create(f) PROVE Dog!NoneForgotten'
  BY <1>1 DEF Dog!Create, Dog!diskVars, Dog!stateVars, Dog!faultVars
<1>2. ASSUME NEW f \in Files, Dog!Complete(f) PROVE Dog!NoneForgotten'
  BY <1>2 DEF Dog!Complete, Dog!diskVars, Dog!stateVars, Dog!faultVars
<1>3. ASSUME NEW f \in Files, Dog!OnCreated(f) PROVE Dog!NoneForgotten'
  BY <1>3 DEF Dog!OnCreated, Dog!diskVars, Dog!stateVars, Dog!faultVars
<1>4. CASE Dog!StartWatchdog
  BY <1>4 DEF Dog!StartWatchdog
<1>5. CASE Dog!ClockTicks
  BY <1>5 DEF Dog!ClockTicks
<1>6. CASE Dog!Merge
  BY <1>6 DEF Dog!Merge
<1>7. CASE Dog!MergeFails
  BY <1>7 DEF Dog!MergeFails
<1>8. CASE Dog!Upload
  BY <1>8 DEF Dog!Upload
<1>9. CASE Dog!UploadFails
  BY <1>9 DEF Dog!UploadFails
<1>10. CASE Dog!Record
  BY <1>10 DEF Dog!Record
<1>11. CASE Dog!Remove
  BY <1>11 DEF Dog!Remove
<1>12. CASE Dog!ReadTotal
  BY <1>12 DEF Dog!ReadTotal
<1>13. CASE Dog!TruncateState
  BY <1>13 DEF Dog!TruncateState
<1>14. CASE Dog!WriteState
  BY <1>14 DEF Dog!WriteState
<1>15. CASE Dog!ReadBeat
  BY <1>15 DEF Dog!ReadBeat
<1>16. CASE Dog!TruncateBeat
  BY <1>16 DEF Dog!TruncateBeat
<1>17. CASE Dog!WriteBeat
  BY <1>17 DEF Dog!WriteBeat
<1>18. CASE Dog!Stopped
  BY <1>18 DEF Dog!Stopped
<1>20. CASE Dog!RemoveFails
  BY <1>20 DEF Dog!RemoveFails
<1>19. CASE UNCHANGED Dog!watchdogVars
  BY <1>19 DEF Dog!watchdogVars
<1> QED
  BY <1>1, <1>2, <1>3, <1>4, <1>5, <1>6, <1>7, <1>8, <1>9, <1>10, <1>11, <1>12, <1>13, <1>14, <1>15, <1>16, <1>17, <1>18, <1>19, <1>20 DEF Dog!WatchdogNext

LEMMA TotalsStep ==
    ASSUME Dog!WatchdogTypeOK, TotalsRead, BatchPlaced, [Dog!WatchdogNext]_(Dog!watchdogVars)
    PROVE  TotalsRead'
<1> USE DEF Dog!WatchdogTypeOK, TotalsRead, Dog!Number, Dog!diskVars, Dog!stateVars,
            Dog!faultVars, Dog!observerRest, Dog!mainRest
<1>0. Cardinality(batch) \in Nat
  BY FS_Subset, FS_CardinalityType, DogCounts
<1>1. ASSUME NEW f \in Files, Dog!Create(f) PROVE TotalsRead'
  BY <1>1 DEF Dog!Create
<1>2. ASSUME NEW f \in Files, Dog!Complete(f) PROVE TotalsRead'
  BY <1>2 DEF Dog!Complete
<1>3. ASSUME NEW f \in Files, Dog!OnCreated(f) PROVE TotalsRead'
  BY <1>3 DEF Dog!OnCreated
<1>4. CASE Dog!StartWatchdog
  BY <1>4 DEF Dog!StartWatchdog
<1>5. CASE Dog!ClockTicks
  BY <1>5 DEF Dog!ClockTicks
<1>6. CASE Dog!Merge
  BY <1>6 DEF Dog!Merge
<1>7. CASE Dog!MergeFails
  BY <1>7 DEF Dog!MergeFails
<1>8. CASE Dog!Upload
  BY <1>8 DEF Dog!Upload
<1>9. CASE Dog!UploadFails
  BY <1>9 DEF Dog!UploadFails
<1>10. CASE Dog!Record
  BY <1>10 DEF Dog!Record
<1>11. CASE Dog!Remove
  BY <1>11 DEF Dog!Remove
<1>12. CASE Dog!ReadTotal
  <2>1. Dog!Number(total) \in Nat /\ Dog!Number(total) <= merged
    OBVIOUS
  <2>2. seen' = Dog!Number(total) + Cardinality(batch)
    BY <1>12, DogCounts DEF Dog!ReadTotal
  <2>3. seen' \in Nat /\ seen' <= merged + Cardinality(batch)
    BY ONLY <1>0, <2>1, <2>2, TotalsRead DEF TotalsRead
  <2>4. ~clashed' => ~clashed /\ beat = "sleep" /\ Dog!Number(total) = merged
    BY <1>12 DEF Dog!ReadTotal
  <2>5. ~clashed' => beat = "sleep" /\ seen' = merged + Cardinality(batch)
    BY ONLY <2>2, <2>4
  <2>6. UNCHANGED <<merged, seenByBeat, total, beat, batch>> /\ observer' = "truncate"
        /\ observer = "total"
    BY <1>12 DEF Dog!ReadTotal
  <2> HIDE DEF Dog!Number
  <2>7. Dog!Number(total)' = Dog!Number(total)
    BY <2>6 DEF Dog!Number
  <2> QED
    BY <2>1, <2>3, <2>4, <2>5, <2>6, <2>7
<1>13. CASE Dog!TruncateState
  BY <1>13 DEF Dog!TruncateState
<1>14. CASE Dog!WriteState
  <2>1. CASE clashed
    BY <1>0, <2>1, <1>14, DogCounts DEF Dog!WriteState, Dog!observerRest
  <2>2. CASE ~clashed
    BY <1>0, <2>2, <1>14, DogCounts DEF Dog!WriteState, Dog!observerRest
  <2> QED
    BY <2>1, <2>2
<1>15. CASE Dog!ReadBeat
  BY <1>15 DEF Dog!ReadBeat
<1>16. CASE Dog!TruncateBeat
  BY <1>16 DEF Dog!TruncateBeat
<1>17. CASE Dog!WriteBeat
  BY <1>17 DEF Dog!WriteBeat
<1>18. CASE Dog!Stopped
  BY <1>18 DEF Dog!Stopped
<1>20. CASE Dog!RemoveFails
  BY <1>20 DEF Dog!RemoveFails
<1>19. CASE UNCHANGED Dog!watchdogVars
  BY <1>19 DEF Dog!watchdogVars
<1> QED
  BY <1>1, <1>2, <1>3, <1>4, <1>5, <1>6, <1>7, <1>8, <1>9, <1>10, <1>11, <1>12, <1>13, <1>14, <1>15, <1>16, <1>17, <1>18, <1>19, <1>20 DEF Dog!WatchdogNext

LEMMA RowsStep ==
    ASSUME Dog!WatchdogTypeOK, BatchPlaced, FreshOnes, Dog!RowsKept, Dog!RowsOnce, [Dog!WatchdogNext]_(Dog!watchdogVars)
    PROVE  (Dog!RowsKept /\ Dog!RowsOnce)'
<1> USE DEF Dog!WatchdogTypeOK, BatchPlaced, FreshOnes, Merged, Counting, Dog!Names,
            Dog!Whole, Dog!RowsKept, Dog!RowsOnce, OutOrLost, Dog!RowsIn, Dog!diskVars, Dog!stateVars,
            Dog!faultVars, Dog!observerRest, Dog!mainRest
<1>1. ASSUME NEW f \in Files, Dog!Create(f) PROVE (Dog!RowsKept /\ Dog!RowsOnce)'
  <2>1. /\ UNCHANGED <<output, lost, batch, halves>> /\ micro[f] = "absent"
        /\ micro' = [micro EXCEPT ![f] = "growing"]
    BY <1>1 DEF Dog!Create, Dog!stateVars
  <2> QED
    BY <2>1
<1>2. ASSUME NEW f \in Files, Dog!Complete(f) PROVE (Dog!RowsKept /\ Dog!RowsOnce)'
  BY <1>2 DEF Dog!Complete
<1>3. ASSUME NEW f \in Files, Dog!OnCreated(f) PROVE (Dog!RowsKept /\ Dog!RowsOnce)'
  BY <1>3 DEF Dog!OnCreated
<1>4. CASE Dog!StartWatchdog
  BY <1>4 DEF Dog!StartWatchdog
<1>5. CASE Dog!ClockTicks
  BY <1>5 DEF Dog!ClockTicks
<1>6. CASE Dog!Merge
  BY <1>6 DEF Dog!Merge
<1>7. CASE Dog!MergeFails
  BY <1>7 DEF Dog!MergeFails
<1>8. CASE Dog!Upload
  BY <1>8 DEF Dog!Upload
<1>9. CASE Dog!UploadFails
  BY <1>9 DEF Dog!UploadFails
<1>10. CASE Dog!Record
  BY <1>10 DEF Dog!Record
<1>11. CASE Dog!Remove
  BY <1>11 DEF Dog!Remove
<1>12. CASE Dog!ReadTotal
  BY <1>12 DEF Dog!ReadTotal
<1>13. CASE Dog!TruncateState
  BY <1>13 DEF Dog!TruncateState
<1>14. CASE Dog!WriteState
  BY <1>14 DEF Dog!WriteState
<1>15. CASE Dog!ReadBeat
  BY <1>15 DEF Dog!ReadBeat
<1>16. CASE Dog!TruncateBeat
  BY <1>16 DEF Dog!TruncateBeat
<1>17. CASE Dog!WriteBeat
  BY <1>17 DEF Dog!WriteBeat
<1>18. CASE Dog!Stopped
  BY <1>18 DEF Dog!Stopped
<1>20. CASE Dog!RemoveFails
  BY <1>20 DEF Dog!RemoveFails
<1>19. CASE UNCHANGED Dog!watchdogVars
  BY <1>19 DEF Dog!watchdogVars
<1> QED
  BY <1>1, <1>2, <1>3, <1>4, <1>5, <1>6, <1>7, <1>8, <1>9, <1>10, <1>11, <1>12, <1>13, <1>14, <1>15, <1>16, <1>17, <1>18, <1>19, <1>20 DEF Dog!WatchdogNext

LEMMA FreshStep ==
    ASSUME Dog!WatchdogTypeOK, BatchPlaced, FreshOnes, [Dog!WatchdogNext]_(Dog!watchdogVars)
    PROVE  FreshOnes'
<1> USE DEF Dog!WatchdogTypeOK, BatchPlaced, FreshOnes, Merged, Dog!Names, Dog!Whole,
            OutOrLost, Dog!RowsIn, Dog!diskVars, Dog!stateVars, Dog!faultVars, Dog!observerRest,
            Dog!mainRest
<1>1. ASSUME NEW f \in Files, Dog!Create(f) PROVE FreshOnes'
  BY <1>1 DEF Dog!Create
<1>2. ASSUME NEW f \in Files, Dog!Complete(f) PROVE FreshOnes'
  BY <1>2 DEF Dog!Complete
<1>3. ASSUME NEW f \in Files, Dog!OnCreated(f) PROVE FreshOnes'
  BY <1>3 DEF Dog!OnCreated
<1>4. CASE Dog!StartWatchdog
  BY <1>4 DEF Dog!StartWatchdog
<1>5. CASE Dog!ClockTicks
  BY <1>5 DEF Dog!ClockTicks
<1>6. CASE Dog!Merge
  <2>1. /\ UNCHANGED <<micro, events, pending>> /\ observer = "merge"
        /\ observer' = "upload" /\ \A f \in pending : micro[f] = "whole"
    BY <1>6 DEF Dog!Merge
  <2>2. OutOrLost' \subseteq OutOrLost \union pending
    BY <1>6 DEF Dog!Merge
  <2> QED
    BY <2>1, <2>2
<1>7. CASE Dog!MergeFails
  BY <1>7 DEF Dog!MergeFails
<1>8. CASE Dog!Upload
  BY <1>8 DEF Dog!Upload
<1>9. CASE Dog!UploadFails
  BY <1>9 DEF Dog!UploadFails
<1>10. CASE Dog!Record
  BY <1>10 DEF Dog!Record
<1>11. CASE Dog!Remove
  BY <1>11 DEF Dog!Remove
<1>12. CASE Dog!ReadTotal
  BY <1>12 DEF Dog!ReadTotal
<1>13. CASE Dog!TruncateState
  BY <1>13 DEF Dog!TruncateState
<1>14. CASE Dog!WriteState
  BY <1>14 DEF Dog!WriteState
<1>15. CASE Dog!ReadBeat
  BY <1>15 DEF Dog!ReadBeat
<1>16. CASE Dog!TruncateBeat
  BY <1>16 DEF Dog!TruncateBeat
<1>17. CASE Dog!WriteBeat
  BY <1>17 DEF Dog!WriteBeat
<1>18. CASE Dog!Stopped
  BY <1>18 DEF Dog!Stopped
<1>20. CASE Dog!RemoveFails
  BY <1>20 DEF Dog!RemoveFails
<1>19. CASE UNCHANGED Dog!watchdogVars
  BY <1>19 DEF Dog!watchdogVars
<1> QED
  BY <1>1, <1>2, <1>3, <1>4, <1>5, <1>6, <1>7, <1>8, <1>9, <1>10, <1>11, <1>12, <1>13, <1>14, <1>15, <1>16, <1>17, <1>18, <1>19, <1>20 DEF Dog!WatchdogNext

\* More that was shipped is not less in number.
LEMMA MoreShipped ==
    ASSUME NEW S, NEW T, S \subseteq T, T \subseteq Files
    PROVE  /\ Cardinality(S) \in Nat /\ Cardinality(T) \in Nat
           /\ Cardinality(S) <= Cardinality(T)
BY FS_Subset, FS_CardinalityType, DogCounts

LEMMA ShippedStep ==
    ASSUME Dog!WatchdogTypeOK, BatchPlaced, FreshOnes, ShippedCounted, Dog!CountsHonest, [Dog!WatchdogNext]_(Dog!watchdogVars)
    PROVE  (ShippedCounted /\ logged <= Cardinality(Shipped))'
<1> USE DEF ShippedCounted, Dog!WatchdogTypeOK, Dog!diskVars, Dog!stateVars, Dog!faultVars,
            Dog!observerRest, Dog!mainRest
<1>a. logged <= Cardinality(Shipped) /\ logged \in Nat
  BY DogCounts DEF Dog!CountsHonest, Shipped
<1>b. Shipped \subseteq Files /\ batch \subseteq Files /\ Shipped \ batch \subseteq Files
  BY DEF Shipped, Dog!RowsIn
<1>c. ASSUME UNCHANGED <<remote, output, lost, logged, batch>>,
             observer' = observer \/ observer' \notin {"upload", "record"}
      PROVE  (ShippedCounted /\ logged <= Cardinality(Shipped))'
  <2>1. Shipped' = Shipped
    BY <1>c DEF Shipped, Dog!RowsIn
  <2> QED
    BY <1>a, <1>c, <2>1 DEF Dog!RowsIn
<1>1. ASSUME NEW f \in Files, Dog!Create(f) PROVE (ShippedCounted /\ logged <= Cardinality(Shipped))'
  BY <1>1, <1>c DEF Dog!Create
<1>2. ASSUME NEW f \in Files, Dog!Complete(f) PROVE (ShippedCounted /\ logged <= Cardinality(Shipped))'
  BY <1>2, <1>c DEF Dog!Complete
<1>3. ASSUME NEW f \in Files, Dog!OnCreated(f) PROVE (ShippedCounted /\ logged <= Cardinality(Shipped))'
  BY <1>3, <1>c DEF Dog!OnCreated
<1>4. CASE Dog!StartWatchdog
  BY <1>4, <1>c DEF Dog!StartWatchdog
<1>5. CASE Dog!ClockTicks
  BY <1>5, <1>c DEF Dog!ClockTicks
<1>6. CASE Dog!Merge
  <2>1. /\ observer = "merge" /\ observer' = "upload" /\ batch' = pending
        /\ UNCHANGED <<remote, logged>>
        /\ output' = [output EXCEPT ![second] = pending]
        /\ lost' = lost \union (output[second] \ pending)
    BY <1>6 DEF Dog!Merge
  <2>2. Shipped \subseteq OutOrLost
    BY DEF Shipped, OutOrLost, Dog!RowsIn
  <2>3. Shipped \subseteq Shipped' \ batch' /\ Shipped' \subseteq Files
    BY <1>b, <2>1, <2>2 DEF FreshOnes, Shipped, Dog!RowsIn, Dog!Names
  <2>4. /\ Cardinality(Shipped) <= Cardinality(Shipped' \ batch')
        /\ Cardinality(Shipped) <= Cardinality(Shipped')
        /\ Cardinality(Shipped) \in Nat /\ Cardinality(Shipped') \in Nat
        /\ Cardinality(Shipped' \ batch') \in Nat
    BY <2>3, MoreShipped
  <2>5. \A n \in Dog!Names : remote[n] \subseteq output'[n] \union lost'
    BY <2>1
  <2>6. logged <= Cardinality(Shipped' \ batch') /\ logged <= Cardinality(Shipped')
    BY <1>a, <2>4
  <2> QED
    BY <1>a, <2>1, <2>5, <2>6
<1>7. CASE Dog!MergeFails
  <2>1. /\ UNCHANGED <<remote, output, lost, logged>> /\ observer' = "total"
    BY <1>7 DEF Dog!MergeFails, Dog!diskVars
  <2>2. Shipped' = Shipped
    BY <2>1 DEF Shipped, Dog!RowsIn
  <2> QED
    BY <1>a, <2>1, <2>2
<1>8. CASE Dog!Upload
  <2>1. /\ observer = "upload" /\ observer' = "record" /\ UNCHANGED <<output, lost, logged, batch>>
        /\ remote' = [remote EXCEPT ![name] = batch] /\ output[name] = batch
    BY <1>8 DEF Dog!Upload, BatchPlaced, Merged, Dog!faultVars
  <2>2. /\ batch \subseteq Dog!RowsIn(remote')
        /\ \A n \in Dog!Names : remote'[n] \subseteq output[n] \union lost
    BY <2>1 DEF Dog!RowsIn
  <2>3. Shipped \ batch \subseteq Shipped' \ batch
    BY <2>1 DEF Shipped, Dog!RowsIn
  <2>4. Shipped' \subseteq Files
    BY <2>1, <1>b DEF Shipped, Dog!RowsIn
  <2>5. /\ Cardinality(Shipped \ batch) <= Cardinality(Shipped' \ batch)
        /\ Cardinality(Shipped' \ batch) <= Cardinality(Shipped')
        /\ Cardinality(Shipped \ batch) \in Nat /\ Cardinality(Shipped') \in Nat
        /\ Cardinality(Shipped' \ batch) \in Nat
    BY <2>3, <2>4, MoreShipped
  <2>6. logged <= Cardinality(Shipped \ batch)
    BY <2>1
  <2>7. logged <= Cardinality(Shipped' \ batch) /\ logged <= Cardinality(Shipped')
    BY <1>a, <2>5, <2>6
  <2> QED
    BY <1>a, <2>1, <2>2, <2>7
<1>9. CASE Dog!UploadFails
  BY <1>9, <1>c DEF Dog!UploadFails
<1>10. CASE Dog!Record
  <2>1. /\ observer = "record" /\ observer' = "remove"
        /\ UNCHANGED <<remote, output, lost, batch>>
        /\ logged' = logged + Cardinality(batch)
    BY <1>10, DogCounts DEF Dog!Record, Dog!diskVars, Dog!faultVars
  <2>2. Shipped' = Shipped
    BY <2>1 DEF Shipped, Dog!RowsIn
  <2>3. (Shipped \ batch) \union batch = Shipped /\ (Shipped \ batch) \intersect batch = {}
    BY <2>1 DEF Shipped
  <2>4. /\ IsFiniteSet(Shipped \ batch) /\ IsFiniteSet(batch)
    BY <1>b, FS_Subset, DogCounts
  <2>5. /\ Cardinality(Shipped) = Cardinality(Shipped \ batch) + Cardinality(batch)
                                   - Cardinality((Shipped \ batch) \intersect batch)
    BY <2>3, <2>4, FS_Union
  <2>6. Cardinality((Shipped \ batch) \intersect batch) = 0
    BY <2>3, FS_EmptySet
  <2>7. /\ Cardinality(Shipped \ batch) \in Nat /\ Cardinality(batch) \in Nat
        /\ logged <= Cardinality(Shipped \ batch)
    BY <2>1, <2>4, FS_CardinalityType
  <2>8. logged' \in Nat /\ logged' <= Cardinality(Shipped)
    BY <1>a, <2>1, <2>5, <2>6, <2>7
  <2> QED
    BY <2>1, <2>2, <2>8
<1>11. CASE Dog!Remove
  BY <1>11, <1>c DEF Dog!Remove
<1>12. CASE Dog!ReadTotal
  BY <1>12, <1>c DEF Dog!ReadTotal
<1>13. CASE Dog!TruncateState
  BY <1>13, <1>c DEF Dog!TruncateState
<1>14. CASE Dog!WriteState
  <2>1. /\ UNCHANGED <<remote, output, lost, logged>> /\ observer' = "wait"
    BY <1>14 DEF Dog!WriteState, Dog!observerRest, Dog!diskVars, Dog!faultVars
  <2>2. Shipped' = Shipped
    BY <2>1 DEF Shipped, Dog!RowsIn
  <2> QED
    BY <1>a, <2>1, <2>2
<1>15. CASE Dog!ReadBeat
  BY <1>15, <1>c DEF Dog!ReadBeat
<1>16. CASE Dog!TruncateBeat
  BY <1>16, <1>c DEF Dog!TruncateBeat
<1>17. CASE Dog!WriteBeat
  BY <1>17, <1>c DEF Dog!WriteBeat
<1>18. CASE Dog!Stopped
  <2>1. /\ UNCHANGED <<remote, output, lost, logged>> /\ observer' = "wait"
    BY <1>18 DEF Dog!Stopped, Dog!diskVars
  <2>2. Shipped' = Shipped
    BY <2>1 DEF Shipped, Dog!RowsIn
  <2> QED
    BY <1>a, <2>1, <2>2
<1>20. CASE Dog!RemoveFails
  <2>1. UNCHANGED <<remote, output, lost, logged>> /\ observer' = "total"
    BY <1>20 DEF Dog!RemoveFails, Dog!diskVars
  <2>2. Shipped' = Shipped
    BY <2>1 DEF Shipped, Dog!RowsIn
  <2> QED
    BY <1>a, <2>1, <2>2
<1>19. CASE UNCHANGED Dog!watchdogVars
  BY <1>c, <1>19 DEF Dog!watchdogVars
<1> QED
  BY <1>1, <1>2, <1>3, <1>4, <1>5, <1>6, <1>7, <1>8, <1>9, <1>10, <1>11, <1>12, <1>13, <1>14, <1>15, <1>16, <1>17, <1>18, <1>19, <1>20 DEF Dog!WatchdogNext

LEMMA DogStep ==
    ASSUME DogInv, [Dog!WatchdogNext]_(Dog!watchdogVars)
    PROVE  DogInv'
<1> USE DEF DogInv, Dog!WatchdogSafe
<1>1. /\ Dog!WatchdogTypeOK' /\ BatchPlaced' /\ Dog!NoneForgotten' /\ TotalsRead' /\ FreshOnes'
      /\ Dog!RowsKept' /\ Dog!RowsOnce'
  BY TypeStep, PlacedStep, ForgottenStep, TotalsStep, FreshStep, RowsStep
<1>2. ShippedCounted' /\ (logged <= Cardinality(Shipped))'
  BY ShippedStep
<1>3. Dog!CountsHonest'
  <2>1. (~clashed /\ observer = "wait" /\ total # Torn => total = merged)'
    BY <1>1 DEF TotalsRead
  <2>2. (Dog!Number(total) <= merged)'
    BY <1>1 DEF TotalsRead
  <2> QED
    BY <1>2, <2>1, <2>2, DogCounts DEF Dog!CountsHonest, Shipped
<1> QED
  BY <1>1, <1>2, <1>3

LEMMA DogInit ==
    ASSUME Dog!WatchdogInit
    PROVE  DogInv
<1> USE DEF Dog!WatchdogInit
<1>1. Dog!WatchdogTypeOK
  BY DEF Dog!WatchdogTypeOK, Dog!Names
<1>2. Dog!RowsIn(output) = {} /\ Dog!RowsIn(remote) = {}
  BY DEF Dog!RowsIn, Dog!Names
<1>3. Dog!Number(total) = 0 /\ Cardinality({}) = 0 /\ total # Torn
  BY FS_EmptySet DEF Dog!Number
<1>4. Dog!CountsHonest
  <2>1. logged = 0 /\ merged = 0 /\ lost = {} /\ total = 0
    OBVIOUS
  <2>2. Cardinality(Dog!RowsIn(remote) \union lost) = 0
    BY <1>2, <1>3, <2>1
  <2> QED
    BY <1>3, <2>1, <2>2, DogCounts DEF Dog!CountsHonest
<1>5. Dog!RowsKept /\ Dog!RowsOnce /\ Dog!NoneForgotten
  BY <1>2 DEF Dog!RowsKept, Dog!RowsOnce, Dog!NoneForgotten
<1>6. BatchPlaced /\ FreshOnes
  BY <1>2 DEF BatchPlaced, FreshOnes, OutOrLost, Merged, Counting
<1>7. ShippedCounted
  BY DEF ShippedCounted
<1>8. TotalsRead
  BY <1>3 DEF TotalsRead
<1> QED
  BY <1>1, <1>4, <1>5, <1>6, <1>7, <1>8 DEF DogInv, Dog!WatchdogSafe

HIDE DogAssumed DEF Dog!WatchdogAssumption

LEMMA DogInParts ==
    /\ PartsInit => Dog!WatchdogInit
    /\ [PartsNext]_partsVars => [Dog!WatchdogNext]_(Dog!watchdogVars)
<1>1. PartsInit => Dog!WatchdogInit
  BY DEF PartsInit
<1>2. ASSUME [PartsNext]_partsVars PROVE [Dog!WatchdogNext]_(Dog!watchdogVars)
  BY <1>2 DEF PartsNext, partsVars, OnHost, OnColab, OnKaggle, InJobs, InAccounts,
     InWatchdog, InPool, InPlanner, dog, Dog!watchdogVars
<1> QED
  BY <1>1, <1>2

\* The watchdog of backend/data_compaction_watchdog.py loses no row but where a file
\* of the same second was overwritten, merges none twice, forgets none it has
\* seen but for a batch it gave up, and never reports more than it has shipped:
\* WatchdogSafe holds of any number of files, threshold, clock and restarts.
THEOREM WatchdogLosesNothing == PartsSpec => []WatchdogSafe
<1>1. PartsInit => DogInv
  BY DogInParts, DogInit
<1>2. DogInv /\ [PartsNext]_partsVars => DogInv'
  BY DogInParts, DogStep
<1>3. DogInv => WatchdogSafe
  BY DEF DogInv, WatchdogSafe
<1> QED
  BY <1>1, <1>2, <1>3, PTL DEF PartsSpec


-----------------------------------------------------------------------------
(* The pool of Gemini keys *)

LEMMA GeminiAssumed == Gemini!KeyPoolAssumption
BY PartsAssumption

USE GeminiAssumed DEF Gemini!KeyPoolAssumption

\* The keys from s on, in the order of the pool, up to the one before i.
Between(s, i) == IF s <= i THEN s .. i - 1 ELSE (s .. Keys - 1) \union (0 .. i - 1)

\* A search reads the clock, and never ahead.
ClockRead == asOf \in [Users -> Nat] /\ \A u \in Users : asOf[u] <= clock

\* A rate limit is honoured by the cooldown unless a shorter one replaced it.
OwedCooled == cutShort = {} => \A k \in Gemini!Pool : owed[k] <= cooldown[k]

\* A search that was alone is alone, and all keys it has passed are resting.
AloneSearch ==
    \A u \in Users : alone[u] /\ u \in Gemini!Searching =>
        /\ Gemini!Searching \subseteq {u}
        /\ seek[u] = "move" => held[u] = index
        /\ cutShort = {} /\ seek[u] \in {"look", "move"} =>
              \A k \in Between(start[u], index) : asOf[u] < cooldown[k]

\* Who sleeps found all keys resting.
SleepTired == \A u \in Users : seek[u] = "sleep" => tired[u]

PoolInv == Gemini!KeysShared /\ ClockRead /\ OwedCooled /\ AloneSearch /\ SleepTired

-----------------------------------------------------------------------------

LEMMA LengthNat == ASSUME NEW a \in 0 .. MaxAttempts - 1 PROVE Rest * 2 ^ a \in Nat
<1>1. \A x, y \in Nat : x * y \in Nat
  OBVIOUS
<1>2. 2 ^ a \in Nat /\ Rest \in Nat
  OBVIOUS
<1> QED
  BY ONLY <1>1, <1>2

LEMMA IndexMoves ==
    ASSUME NEW i \in Gemini!Pool
    PROVE  (i + 1) % Keys = IF i + 1 = Keys THEN 0 ELSE i + 1
BY DEF Gemini!Pool

\* The shortest cooldown is one of them.
LEMMA SoonestIsOne ==
    ASSUME NEW f \in [Gemini!Pool -> Nat]
    PROVE  /\ Gemini!MinOver({f[k] : k \in Gemini!Pool}) \in {f[k] : k \in Gemini!Pool}
           /\ Gemini!MinOver({f[k] : k \in Gemini!Pool}) \in Nat
<1>1. {f[k] : k \in Gemini!Pool} \in SUBSET Nat /\ f[0] \in {f[k] : k \in Gemini!Pool}
  BY DEF Gemini!Pool
<1> QED
  BY <1>1, LeastIsOne DEF Gemini!MinOver

LEMMA AloneIsBoolean ==
    ASSUME Gemini!KeysTypeOK, NEW u \in Users, NEW n, Gemini!Search(u, n)
    PROVE  alone' \in [Users -> BOOLEAN]
<1>1. \A v \in Users : (IF v = u THEN Gemini!Searching \subseteq {u}
                        ELSE alone[v] /\ v \notin Gemini!Searching) \in BOOLEAN
  <2>1. alone \in [Users -> BOOLEAN]
    BY DEF Gemini!KeysTypeOK
  <2> QED
    BY <2>1, Zenon
<1> QED
  BY <1>1, Zenon DEF Gemini!Search

LEMMA FailedTypes ==
    ASSUME Gemini!KeysTypeOK, ClockRead, NEW u \in Users, NEW length \in Nat, Gemini!Failed(u, length)
    PROVE  /\ cooldown' \in [Gemini!Pool -> Nat] /\ cutShort' \subseteq Gemini!Pool
           /\ seek' \in [Users -> {"idle", "look", "move", "sleep", "ask"}]
           /\ start' \in [Users -> Gemini!Pool] /\ attempt' \in [Users -> 0 .. MaxAttempts - 1]
           /\ {alone', tired', early'} \subseteq [Users -> BOOLEAN]
           /\ asOf' \in [Users -> Nat] /\ \A v \in Users : asOf'[v] <= clock
           /\ UNCHANGED <<index, clock, held, until, asks>>
<1> USE DEF Gemini!KeysTypeOK, ClockRead, Gemini!Failed, Gemini!Turn, Gemini!Search
<1>1. clock + length \in Nat /\ held[u] \in Gemini!Pool
  OBVIOUS
<1>2. cooldown' \in [Gemini!Pool -> Nat] /\ cutShort' \subseteq Gemini!Pool
  BY <1>1
<1>3. CASE attempt[u] + 1 < MaxAttempts
  <2>1. attempt[u] + 1 \in 0 .. MaxAttempts - 1
    BY <1>3
  <2>2. alone' \in [Users -> BOOLEAN]
    BY <1>3, AloneIsBoolean DEF Gemini!Search
  <2>3. \A v \in Users : asOf'[v] <= clock
    BY <1>3
  <2>4. {tired', early'} \subseteq [Users -> BOOLEAN]
    <3>1. /\ tired' = [tired EXCEPT ![u] = FALSE] /\ early' = [early EXCEPT ![u] = FALSE]
          /\ {tired, early} \subseteq [Users -> BOOLEAN]
      BY <1>3
    <3> QED
      BY ONLY <3>1
  <2>5. attempt' \in [Users -> 0 .. MaxAttempts - 1] /\ start' \in [Users -> Gemini!Pool]
        /\ asOf' \in [Users -> Nat]
    BY <1>3, <2>1
  <2> QED
    BY <1>2, <1>3, <2>2, <2>3, <2>4, <2>5
<1>4. CASE ~(attempt[u] + 1 < MaxAttempts)
  BY <1>2, <1>4
<1> QED
  BY <1>3, <1>4

LEMMA PoolTypeStep ==
    ASSUME Gemini!KeysTypeOK, ClockRead, [Gemini!KeysNext]_(Gemini!keyVars)
    PROVE  (Gemini!KeysTypeOK /\ ClockRead)'
<1> USE DEF Gemini!KeysTypeOK, ClockRead
<1>1. ASSUME NEW u \in Users, Gemini!Begin(u) PROVE (Gemini!KeysTypeOK /\ ClockRead)'
  <2>1. alone' \in [Users -> BOOLEAN]
    BY <1>1, AloneIsBoolean DEF Gemini!Begin
  <2> QED
    BY <1>1, <2>1 DEF Gemini!Begin, Gemini!Search, Gemini!Turn
<1>2. ASSUME NEW u \in Users, Gemini!Look(u) PROVE (Gemini!KeysTypeOK /\ ClockRead)'
  BY <1>2 DEF Gemini!Look, Gemini!Turn, Gemini!keyHistory
<1>3. ASSUME NEW u \in Users, Gemini!Move(u) PROVE (Gemini!KeysTypeOK /\ ClockRead)'
  <2>1. index' \in Gemini!Pool /\ 0 \in Gemini!Pool
    BY <1>3, IndexMoves DEF Gemini!Move, Gemini!Pool
  <2>2. UNCHANGED <<cooldown, clock, start, asOf, attempt, asks, owed, alone, cutShort>>
    BY <1>3 DEF Gemini!Move
  <2>3. /\ seek' \in [Users -> {"idle", "look", "move", "sleep", "ask"}]
        /\ held' \in [Users -> Gemini!Pool]
    BY <1>3, <2>1 DEF Gemini!Move, Gemini!Turn, Gemini!Given
  <2>4. \A k \in Gemini!Pool : (clock < owed[k]) \in BOOLEAN
    OBVIOUS
  <2>5. early' \in [Users -> BOOLEAN]
    <3>1. \/ early' = early
          \/ \E k \in Gemini!Pool : early' = [early EXCEPT ![u] = clock < owed[k]]
      BY <1>3, <2>1 DEF Gemini!Move, Gemini!Turn, Gemini!Given
    <3> QED
      BY <3>1, <2>4
  <2>6. tired' \in [Users -> BOOLEAN]
    <3>1. tired' = tired \/ \E n \in Nat : tired' = [tired EXCEPT ![u] = asOf[u] < n]
      BY <1>3, SoonestIsOne DEF Gemini!Move, Gemini!Given
    <3>2. \A n \in Nat : (asOf[u] < n) \in BOOLEAN
      OBVIOUS
    <3>3. tired \in [Users -> BOOLEAN]
      OBVIOUS
    <3> QED
      BY ONLY <3>1, <3>2, <3>3
  <2> QED
    BY <2>1, <2>2, <2>3, <2>5, <2>6
<1>4. ASSUME NEW u \in Users, Gemini!WakeUp(u) PROVE (Gemini!KeysTypeOK /\ ClockRead)'
  <2>1. 0 \in Gemini!Pool
    BY DEF Gemini!Pool
  <2>2. early' \in [Users -> BOOLEAN]
    <3>1. \E k \in Gemini!Pool : early' = [early EXCEPT ![u] = clock < owed[k]]
      BY <1>4, <2>1 DEF Gemini!WakeUp, Gemini!Given
    <3> QED
      BY <3>1
  <2> QED
    BY <1>4, <2>1, <2>2 DEF Gemini!WakeUp, Gemini!Given, Gemini!Turn
<1>5. ASSUME NEW u \in Users, Gemini!Answered(u) PROVE (Gemini!KeysTypeOK /\ ClockRead)'
  BY <1>5 DEF Gemini!Answered, Gemini!Turn, Gemini!keyHistory
<1>6. ASSUME NEW u \in Users, Gemini!RateLimited(u) PROVE (Gemini!KeysTypeOK /\ ClockRead)'
  <2>1. PICK length \in Nat : length = Rest * 2 ^ attempt[u]
    BY LengthNat
  <2>2. Gemini!Failed(u, length) /\ owed' = [owed EXCEPT ![held[u]] =
                                        IF clock + length > @ THEN clock + length ELSE @]
    BY <1>6, <2>1 DEF Gemini!RateLimited
  <2>3. owed' \in [Gemini!Pool -> Nat]
    BY <2>2
  <2> HIDE DEF ClockRead, Gemini!KeysTypeOK
  <2>4. /\ cooldown' \in [Gemini!Pool -> Nat] /\ cutShort' \subseteq Gemini!Pool
        /\ seek' \in [Users -> {"idle", "look", "move", "sleep", "ask"}]
        /\ start' \in [Users -> Gemini!Pool] /\ attempt' \in [Users -> 0 .. MaxAttempts - 1]
        /\ {alone', tired', early'} \subseteq [Users -> BOOLEAN]
        /\ asOf' \in [Users -> Nat] /\ \A v \in Users : asOf'[v] <= clock
        /\ UNCHANGED <<index, clock, held, until, asks>>
    BY <2>2, FailedTypes
  <2> QED
    BY <2>3, <2>4 DEF Gemini!KeysTypeOK, ClockRead
<1>7. ASSUME NEW u \in Users, Gemini!OtherError(u) PROVE (Gemini!KeysTypeOK /\ ClockRead)'
  <2>1. Gemini!Failed(u, 1) /\ owed' = owed
    BY <1>7 DEF Gemini!OtherError
  <2> HIDE DEF ClockRead, Gemini!KeysTypeOK
  <2>4. /\ cooldown' \in [Gemini!Pool -> Nat] /\ cutShort' \subseteq Gemini!Pool
        /\ seek' \in [Users -> {"idle", "look", "move", "sleep", "ask"}]
        /\ start' \in [Users -> Gemini!Pool] /\ attempt' \in [Users -> 0 .. MaxAttempts - 1]
        /\ {alone', tired', early'} \subseteq [Users -> BOOLEAN]
        /\ asOf' \in [Users -> Nat] /\ \A v \in Users : asOf'[v] <= clock
        /\ UNCHANGED <<index, clock, held, until, asks>>
    BY <2>1, FailedTypes
  <2> QED
    BY <2>1, <2>4 DEF Gemini!KeysTypeOK, ClockRead
<1>8. CASE Gemini!TimePasses
  BY <1>8 DEF Gemini!TimePasses, Gemini!keyHistory
<1>9. CASE UNCHANGED Gemini!keyVars
  BY <1>9 DEF Gemini!keyVars
<1> QED
  BY <1>1, <1>2, <1>3, <1>4, <1>5, <1>6, <1>7, <1>8, <1>9 DEF Gemini!KeysNext

\* A failure never shortens a rest unless cutShort says so.
LEMMA FailedCools ==
    ASSUME Gemini!KeysTypeOK, NEW u \in Users, NEW length \in Nat, Gemini!Failed(u, length)
    PROVE  cutShort' = {} =>
             /\ cutShort = {}
             /\ \A k \in Gemini!Pool : cooldown[k] <= cooldown'[k]
             /\ cooldown'[held[u]] = clock + length
<1>1. /\ cooldown' = [cooldown EXCEPT ![held[u]] = clock + length]
      /\ cutShort' = IF clock + length < cooldown[held[u]]
                     THEN cutShort \union {held[u]} ELSE cutShort
  BY DEF Gemini!Failed
<1>2. cooldown \in [Gemini!Pool -> Nat] /\ held[u] \in Gemini!Pool /\ clock \in Nat
  BY DEF Gemini!KeysTypeOK
<1>3. clock + length \in Nat
  BY <1>2
<1>4. cutShort' = {} => cutShort = {} /\ clock + length >= cooldown[held[u]]
  BY <1>1, <1>2, <1>3
<1> QED
  BY <1>1, <1>2, <1>3, <1>4

LEMMA OwedStep ==
    ASSUME Gemini!KeysTypeOK, OwedCooled, [Gemini!KeysNext]_(Gemini!keyVars)
    PROVE  OwedCooled'
<1> USE DEF OwedCooled
<1>1. CASE UNCHANGED <<owed, cooldown, cutShort>>
  BY <1>1
<1>6. ASSUME NEW u \in Users, Gemini!RateLimited(u) PROVE OwedCooled'
  <2>1. PICK length \in Nat : length = Rest * 2 ^ attempt[u]
    BY LengthNat DEF Gemini!KeysTypeOK
  <2>2. Gemini!Failed(u, length) /\ owed' = [owed EXCEPT ![held[u]] =
                                        IF clock + length > @ THEN clock + length ELSE @]
    BY <1>6, <2>1 DEF Gemini!RateLimited
  <2>3. cutShort' = {} =>
             /\ cutShort = {}
             /\ \A k \in Gemini!Pool : cooldown[k] <= cooldown'[k]
             /\ cooldown'[held[u]] = clock + length
    BY <2>2, FailedCools
  <2>4. cooldown' \in [Gemini!Pool -> Nat]
    BY <2>2 DEF Gemini!Failed, Gemini!KeysTypeOK
  <2>5. /\ owed \in [Gemini!Pool -> Nat] /\ cooldown \in [Gemini!Pool -> Nat] /\ held[u] \in Gemini!Pool
        /\ clock + length \in Nat
    BY DEF Gemini!KeysTypeOK
  <2> SUFFICES ASSUME cutShort' = {}, NEW k \in Gemini!Pool PROVE owed'[k] <= cooldown'[k]
    OBVIOUS
  <2>6. owed[k] <= cooldown[k] /\ cooldown[k] <= cooldown'[k]
    BY <2>3
  <2>7. owed[k] \in Nat /\ cooldown[k] \in Nat /\ cooldown'[k] \in Nat
    BY <2>4, <2>5
  <2>8. owed[k] <= cooldown'[k]
    BY ONLY <2>6, <2>7
  <2>9. CASE k = held[u]
    BY <2>2, <2>3, <2>5, <2>7, <2>8, <2>9
  <2>10. CASE k # held[u]
    BY <2>2, <2>5, <2>8, <2>10
  <2> QED
    BY <2>9, <2>10
<1>7. ASSUME NEW u \in Users, Gemini!OtherError(u) PROVE OwedCooled'
  <2>1. Gemini!Failed(u, 1) /\ owed' = owed
    BY <1>7 DEF Gemini!OtherError
  <2>3. cutShort' = {} => cutShort = {} /\ \A k \in Gemini!Pool : cooldown[k] <= cooldown'[k]
    BY <2>1, FailedCools
  <2>4. cooldown' \in [Gemini!Pool -> Nat]
    BY <2>1 DEF Gemini!Failed, Gemini!KeysTypeOK
  <2> QED
    BY <2>1, <2>3, <2>4 DEF Gemini!KeysTypeOK
<1> QED
  BY <1>1, <1>6, <1>7 DEF Gemini!KeysNext, Gemini!keyVars, Gemini!keyHistory, Gemini!Begin, Gemini!Look, Gemini!Move, Gemini!WakeUp,
     Gemini!Answered, Gemini!TimePasses

\* A search that goes round from s ends at s with all keys behind it.
LEMMA GoneRound ==
    ASSUME NEW s \in Gemini!Pool, NEW i \in Gemini!Pool
    PROVE  LET j == (i + 1) % Keys IN
           IF j = s THEN Between(s, i) \union {i} = Gemini!Pool
           ELSE Between(s, j) \subseteq Between(s, i) \union {i}
<1>1. (i + 1) % Keys = IF i + 1 = Keys THEN 0 ELSE i + 1
  BY IndexMoves
<1>2. CASE i + 1 = Keys
  BY <1>1, <1>2 DEF Between, Gemini!Pool
<1>3. CASE i + 1 # Keys
  BY <1>1, <1>3 DEF Between, Gemini!Pool
<1> QED
  BY <1>2, <1>3

LEMMA BeginsAlone ==
    ASSUME Gemini!KeysTypeOK, AloneSearch, NEW u \in Users, NEW n, Gemini!Search(u, n), index' = index
    PROVE  AloneSearch'
<1> USE DEF Gemini!KeysTypeOK, Gemini!Search, Gemini!Turn, Gemini!Searching
<1> SUFFICES ASSUME NEW v \in Users, alone'[v], v \in Gemini!Searching'
             PROVE  /\ Gemini!Searching' \subseteq {v}
                    /\ seek'[v] = "move" => held'[v] = index'
                    /\ cutShort' = {} /\ seek'[v] \in {"look", "move"} =>
                         \A k \in Between(start'[v], index') : asOf'[v] < cooldown'[k]
  BY DEF AloneSearch
<1>1. v = u
  OBVIOUS
<1>2. Gemini!Searching \subseteq {u}
  BY <1>1
<1>3. Gemini!Searching' \subseteq {u} /\ seek'[u] = "look"
  BY <1>2
<1>4. Between(start'[u], index') = {}
  <2>1. start'[u] = index /\ index' = index /\ index \in 0 .. Keys - 1
    BY DEF Gemini!Pool
  <2> QED
    BY <2>1 DEF Between
<1> QED
  BY <1>1, <1>3, <1>4

LEMMA AloneStep ==
    ASSUME Gemini!KeysTypeOK, ClockRead, AloneSearch, [Gemini!KeysNext]_(Gemini!keyVars)
    PROVE  AloneSearch'
<1> USE DEF Gemini!KeysTypeOK, Gemini!Searching
<1>1. ASSUME NEW u \in Users, Gemini!Begin(u) PROVE AloneSearch'
  BY <1>1, BeginsAlone DEF Gemini!Begin
<1>2. ASSUME NEW u \in Users, Gemini!Look(u) PROVE AloneSearch'
  BY <1>2 DEF Gemini!Look, Gemini!Turn, Gemini!keyHistory, AloneSearch
<1>3. ASSUME NEW u \in Users, Gemini!Move(u) PROVE AloneSearch'
  <2>0. /\ UNCHANGED <<cooldown, start, asOf, alone, cutShort>>
        /\ index' = (index + 1) % Keys /\ seek[u] = "move"
        /\ \A v \in Users \ {u} : seek'[v] = seek[v]
    BY <1>3 DEF Gemini!Move, Gemini!Turn, Gemini!Given
  <2>1. seek'[u] = "look" => index' # start[u] /\ ~Gemini!Rested(u, held[u])
    BY <1>3 DEF Gemini!Move, Gemini!Turn, Gemini!Given
  <2>2. seek'[u] \in {"look", "sleep", "ask"}
    BY <1>3 DEF Gemini!Move, Gemini!Turn, Gemini!Given
  <2> SUFFICES ASSUME NEW v \in Users, alone'[v], v \in Gemini!Searching'
               PROVE  /\ Gemini!Searching' \subseteq {v}
                      /\ seek'[v] = "move" => held'[v] = index'
                      /\ cutShort' = {} /\ seek'[v] \in {"look", "move"} =>
                           \A k \in Between(start'[v], index') : asOf'[v] < cooldown'[k]
    BY DEF AloneSearch
  <2>3. v = u /\ Gemini!Searching \subseteq {u} /\ alone[u] /\ held[u] = index
    BY <2>0 DEF AloneSearch
  <2>4. Gemini!Searching' \subseteq {u}
    BY <2>0, <2>3
  <2>5. ASSUME cutShort' = {}, seek'[u] = "look", NEW k \in Between(start'[u], index')
        PROVE  asOf'[u] < cooldown'[k]
    <3>1. k \in Between(start[u], index) \union {index}
      BY <2>0, <2>1, <2>5, GoneRound
    <3>2. asOf[u] < cooldown[index]
      BY <2>1, <2>3, <2>5 DEF Gemini!Rested, ClockRead
    <3>3. \A i \in Between(start[u], index) : asOf[u] < cooldown[i]
      BY <2>0, <2>3, <2>5 DEF AloneSearch
    <3> QED
      BY <2>0, <3>1, <3>2, <3>3
  <2> QED
    BY <2>2, <2>3, <2>4, <2>5
<1>4. ASSUME NEW u \in Users, Gemini!WakeUp(u) PROVE AloneSearch'
  BY <1>4 DEF Gemini!WakeUp, Gemini!Given, Gemini!Turn, AloneSearch
<1>5. ASSUME NEW u \in Users, Gemini!Answered(u) PROVE AloneSearch'
  BY <1>5 DEF Gemini!Answered, Gemini!Turn, Gemini!keyHistory, AloneSearch
<1>6. ASSUME NEW u \in Users, NEW length \in Nat, Gemini!Failed(u, length) PROVE AloneSearch'
  <2>1. CASE attempt[u] + 1 < MaxAttempts
    BY <1>6, <2>1, BeginsAlone DEF Gemini!Failed
  <2>2. CASE ~(attempt[u] + 1 < MaxAttempts)
    <3>1. /\ UNCHANGED <<start, asOf, alone, index, held>>
          /\ seek' = [seek EXCEPT ![u] = "idle"] /\ seek[u] = "ask"
      BY <1>6, <2>2 DEF Gemini!Failed, Gemini!Turn
    <3>2. Gemini!Searching' = Gemini!Searching
      BY <3>1
    <3>3. cutShort' = {} => cutShort = {} /\ \A k \in Gemini!Pool : cooldown[k] <= cooldown'[k]
      BY <1>6, FailedCools
    <3>4. cooldown' \in [Gemini!Pool -> Nat]
      BY <1>6 DEF Gemini!Failed
    <3>5. \A s, i \in Gemini!Pool : Between(s, i) \subseteq Gemini!Pool
      BY DEF Between, Gemini!Pool
    <3> SUFFICES ASSUME NEW v \in Users, alone'[v], v \in Gemini!Searching'
                 PROVE  /\ Gemini!Searching' \subseteq {v}
                        /\ seek'[v] = "move" => held'[v] = index'
                        /\ cutShort' = {} /\ seek'[v] \in {"look", "move"} =>
                             \A k \in Between(start'[v], index') : asOf'[v] < cooldown'[k]
      BY DEF AloneSearch
    <3>6. /\ Gemini!Searching \subseteq {v} /\ seek'[v] = seek[v]
          /\ seek[v] = "move" => held[v] = index
          /\ cutShort = {} /\ seek[v] \in {"look", "move"} =>
                \A k \in Between(start[v], index) : asOf[v] < cooldown[k]
      BY <3>1, <3>2 DEF AloneSearch
    <3>7. ASSUME cutShort' = {}, seek'[v] \in {"look", "move"},
                 NEW k \in Between(start[v], index)
          PROVE  asOf[v] < cooldown'[k]
      <4>1. asOf[v] < cooldown[k] /\ cooldown[k] <= cooldown'[k] /\ k \in Gemini!Pool
        BY <3>3, <3>5, <3>6, <3>7
      <4> QED
        BY <4>1, <3>4 DEF ClockRead
    <3> QED
      BY <3>1, <3>2, <3>6, <3>7
  <2> QED
    BY <2>1, <2>2
<1>7. ASSUME NEW u \in Users, Gemini!RateLimited(u) \/ Gemini!OtherError(u) PROVE AloneSearch'
  BY <1>6, <1>7, LengthNat DEF Gemini!RateLimited, Gemini!OtherError
<1>8. CASE Gemini!TimePasses
  BY <1>8 DEF Gemini!TimePasses, Gemini!keyHistory, AloneSearch
<1>9. CASE UNCHANGED Gemini!keyVars
  BY <1>9 DEF Gemini!keyVars, AloneSearch
<1> QED
  BY <1>1, <1>2, <1>3, <1>4, <1>5, <1>7, <1>8, <1>9 DEF Gemini!KeysNext

LEMMA RestStep ==
    ASSUME PoolInv, [Gemini!KeysNext]_(Gemini!keyVars)
    PROVE  (Gemini!KeysRest /\ SleepTired)'
<1> USE DEF PoolInv, Gemini!KeysShared, Gemini!KeysTypeOK
<1>1. ASSUME NEW u \in Users, NEW n, Gemini!Search(u, n), cutShort' = {} => cutShort = {}
      PROVE  (Gemini!KeysRest /\ SleepTired)'
  <2> SUFFICES ASSUME NEW v \in Users
               PROVE  /\ seek'[v] = "ask" /\ early'[v] =>
                            tired'[v] \/ ~alone'[v] \/ cutShort' # {}
                      /\ seek'[v] = "sleep" => tired'[v]
    BY DEF Gemini!KeysRest, SleepTired
  <2>1. CASE v = u
    BY <1>1, <2>1 DEF Gemini!Search, Gemini!Turn
  <2>2. CASE v # u
    <3>1. seek'[v] = seek[v] /\ early'[v] = early[v] /\ tired'[v] = tired[v]
      BY <1>1, <2>2 DEF Gemini!Search, Gemini!Turn
    <3>2. alone'[v] => alone[v]
      BY <1>1, <2>2 DEF Gemini!Search
    <3> QED
      BY <1>1, <3>1, <3>2 DEF Gemini!KeysRest, SleepTired
  <2> QED
    BY <2>1, <2>2
<1>2. ASSUME NEW u \in Users, Gemini!Begin(u) PROVE (Gemini!KeysRest /\ SleepTired)'
  BY <1>1, <1>2 DEF Gemini!Begin
<1>3. ASSUME NEW u \in Users, Gemini!Look(u) \/ Gemini!Answered(u) PROVE (Gemini!KeysRest /\ SleepTired)'
  BY <1>3 DEF Gemini!Look, Gemini!Answered, Gemini!Turn, Gemini!keyHistory, Gemini!KeysRest, SleepTired
<1>4. ASSUME NEW u \in Users, Gemini!Move(u) PROVE (Gemini!KeysRest /\ SleepTired)'
  <2> DEFINE soonest == Gemini!MinOver({cooldown[k] : k \in Gemini!Pool})
  <2>0. /\ UNCHANGED <<alone, cutShort, cooldown, clock, asOf>> /\ seek[u] = "move"
        /\ index' = (index + 1) % Keys
        /\ \A v \in Users \ {u} : /\ seek'[v] = seek[v] /\ early'[v] = early[v]
                                  /\ tired'[v] = tired[v]
    BY <1>4 DEF Gemini!Move, Gemini!Turn, Gemini!Given
  <2>1. seek'[u] = "sleep" => tired'[u]
    <3>1. seek'[u] = "sleep" => tired' = [tired EXCEPT ![u] = asOf[u] < soonest]
                                /\ soonest > asOf[u]
      BY <1>4 DEF Gemini!Move, Gemini!Turn, Gemini!Given
    <3>2. soonest \in Nat /\ asOf[u] \in Nat
      BY SoonestIsOne DEF ClockRead
    <3> HIDE DEF soonest
    <3> QED
      BY <3>1, <3>2
  <2>2. ASSUME seek'[u] = "ask", early'[u], alone[u], cutShort = {} PROVE FALSE
    <3>1. PICK k \in Gemini!Pool : early'[u] = (clock < owed[k]) /\
              \/ Gemini!Rested(u, held[u]) /\ k = held[u]
              \/ /\ ~Gemini!Rested(u, held[u]) /\ index' = start[u] /\ ~(soonest > asOf[u])
      <4>1. 0 \in Gemini!Pool
        BY DEF Gemini!Pool
      <4> QED
        BY <1>4, <2>2, <4>1 DEF Gemini!Move, Gemini!Turn, Gemini!Given
    <3>2. asOf[u] \in Nat /\ asOf[u] <= clock
      BY DEF ClockRead
    <3>3. CASE Gemini!Rested(u, held[u]) /\ k = held[u]
      <4>1. owed[k] <= cooldown[k] /\ cooldown[k] <= asOf[u]
        BY <2>2, <3>3 DEF OwedCooled, Gemini!Rested
      <4>2. owed[k] \in Nat /\ cooldown[k] \in Nat /\ clock \in Nat
        OBVIOUS
      <4>3. ~(clock < owed[k])
        BY ONLY <3>2, <4>1, <4>2
      <4> QED
        BY <2>2, <3>1, <4>3
    <3>4. CASE ~Gemini!Rested(u, held[u]) /\ index' = start[u] /\ ~(soonest > asOf[u])
      <4>1. held[u] = index /\ \A i \in Between(start[u], index) : asOf[u] < cooldown[i]
        BY <2>0, <2>2 DEF AloneSearch, Gemini!Searching
      <4>2. asOf[u] < cooldown[index]
        BY <3>2, <3>4, <4>1 DEF Gemini!Rested
      <4>3. Between(start[u], index) \union {index} = Gemini!Pool
        BY <2>0, <3>4, GoneRound
      <4>4. \A i \in Gemini!Pool : asOf[u] < cooldown[i]
        BY <4>1, <4>2, <4>3
      <4>5. soonest \in {cooldown[i] : i \in Gemini!Pool} /\ soonest \in Nat
        BY SoonestIsOne
      <4>6. asOf[u] < soonest
        BY <4>4, <4>5
      <4> HIDE DEF soonest
      <4> QED
        BY <3>2, <3>4, <4>5, <4>6
    <3> QED
      BY <3>1, <3>3, <3>4
  <2> SUFFICES ASSUME NEW v \in Users
               PROVE  /\ seek'[v] = "ask" /\ early'[v] =>
                            tired'[v] \/ ~alone'[v] \/ cutShort' # {}
                      /\ seek'[v] = "sleep" => tired'[v]
    BY DEF Gemini!KeysRest, SleepTired
  <2>3. CASE v = u
    BY <2>0, <2>1, <2>2, <2>3
  <2>4. CASE v # u
    BY <2>0, <2>4 DEF Gemini!KeysRest, SleepTired
  <2> QED
    BY <2>3, <2>4
<1>5. ASSUME NEW u \in Users, Gemini!WakeUp(u) PROVE (Gemini!KeysRest /\ SleepTired)'
  BY <1>5 DEF Gemini!WakeUp, Gemini!Given, Gemini!Turn, Gemini!KeysRest, SleepTired
<1>6. ASSUME NEW u \in Users, NEW length \in Nat, Gemini!Failed(u, length)
      PROVE  (Gemini!KeysRest /\ SleepTired)'
  <2>0. cutShort' = {} => cutShort = {}
    BY <1>6, FailedCools
  <2>1. CASE attempt[u] + 1 < MaxAttempts
    BY <1>1, <1>6, <2>0, <2>1 DEF Gemini!Failed
  <2>2. CASE ~(attempt[u] + 1 < MaxAttempts)
    BY <1>6, <2>0, <2>2 DEF Gemini!Failed, Gemini!Turn, Gemini!KeysRest, SleepTired
  <2> QED
    BY <2>1, <2>2
<1>7. ASSUME NEW u \in Users, Gemini!RateLimited(u) \/ Gemini!OtherError(u)
      PROVE  (Gemini!KeysRest /\ SleepTired)'
  BY <1>6, <1>7, LengthNat DEF Gemini!RateLimited, Gemini!OtherError
<1>8. CASE Gemini!TimePasses \/ UNCHANGED Gemini!keyVars
  BY <1>8 DEF Gemini!TimePasses, Gemini!keyVars, Gemini!keyHistory, Gemini!KeysRest, SleepTired
<1> QED
  BY <1>2, <1>3, <1>4, <1>5, <1>7, <1>8 DEF Gemini!KeysNext

LEMMA PoolStep ==
    ASSUME PoolInv, [Gemini!KeysNext]_(Gemini!keyVars)
    PROVE  PoolInv'
<1>1. (Gemini!KeysTypeOK /\ ClockRead)'
  BY PoolTypeStep DEF PoolInv, Gemini!KeysShared
<1>2. OwedCooled' /\ AloneSearch' /\ (Gemini!KeysRest /\ SleepTired)'
  BY OwedStep, AloneStep, RestStep DEF PoolInv, Gemini!KeysShared
<1> QED
  BY <1>1, <1>2 DEF PoolInv, Gemini!KeysShared

LEMMA PoolStarts ==
    ASSUME Gemini!KeysInit
    PROVE  PoolInv
<1> USE DEF Gemini!KeysInit
<1>1. Gemini!KeysTypeOK
  <2>1. 0 \in Gemini!Pool /\ 0 \in 0 .. MaxAttempts - 1 /\ 0 \in 0 .. MaxTime /\ 0 \in Nat
    BY DEF Gemini!Pool
  <2>2. {alone, tired, early} \subseteq [Users -> BOOLEAN]
    BY Zenon
  <2> QED
    BY <2>1, <2>2 DEF Gemini!KeysTypeOK
<1>2. \A u \in Users : seek[u] = "idle"
  OBVIOUS
<1> QED
  BY <1>1, <1>2 DEF PoolInv, Gemini!KeysShared, Gemini!KeysRest, ClockRead, OwedCooled, AloneSearch,
     SleepTired, Gemini!Searching

HIDE GeminiAssumed DEF Gemini!KeyPoolAssumption

LEMMA GeminiInParts ==
    /\ PartsInit => Gemini!KeysInit
    /\ [PartsNext]_partsVars => [Gemini!KeysNext]_(Gemini!keyVars)
<1>1. PartsInit => Gemini!KeysInit
  BY DEF PartsInit
<1>2. ASSUME [PartsNext]_partsVars PROVE [Gemini!KeysNext]_(Gemini!keyVars)
  BY <1>2 DEF PartsNext, partsVars, OnHost, OnColab, OnKaggle, InJobs, InAccounts,
     InWatchdog, InPool, InPlanner, gemini, Gemini!keyVars
<1> QED
  BY <1>1, <1>2

\* MultiKeyGeminiPool of backend/quant_ai_bridge.py hands out no resting key
\* but in the ways KeysRest names: KeysShared holds of any number of requests,
\* keys and attempts.
THEOREM GeminiKeysRest == PartsSpec => []KeysShared
<1>1. PartsInit => PoolInv
  BY GeminiInParts, PoolStarts
<1>2. PoolInv /\ [PartsNext]_partsVars => PoolInv'
  BY GeminiInParts, PoolStep
<1>3. PoolInv => KeysShared
  BY DEF PoolInv, KeysShared
<1> QED
  BY <1>1, <1>2, <1>3, PTL DEF PartsSpec

-----------------------------------------------------------------------------
(* plan_job *)

RequestsAsked == request \in MCRequests \union {NoRequest}

LEMMA AccountNames ==
    /\ MCAccounts \in Seq(ToSet(MCAccounts)) /\ IsInjective(MCAccounts)
    /\ Range(MCAccounts) = ToSet(MCAccounts) /\ Range(Platforms) = ToSet(Platforms)
<1>1. /\ MCAccounts = <<"a", "b", "c">> /\ DOMAIN MCAccounts = 1 .. 3
      /\ MCAccounts \in Seq({"a", "b", "c"})
  BY DEF MCAccounts
<1>2. MCAccounts[1] = "a" /\ MCAccounts[2] = "b" /\ MCAccounts[3] = "c" /\ Len(MCAccounts) = 3
  BY <1>1
<1>3. \A i \in 1 .. 3 : i = 1 \/ i = 2 \/ i = 3
  OBVIOUS
<1>4. ToSet(MCAccounts) = {"a", "b", "c"}
  BY <1>1, <1>2, <1>3 DEF ToSet
<1>5. IsInjective(MCAccounts)
  BY <1>1, <1>2, <1>3 DEF IsInjective
<1>6. Range(MCAccounts) = ToSet(MCAccounts) /\ Range(Platforms) = ToSet(Platforms)
  BY <1>1, <1>2, PlatformList DEF Range, ToSet
<1> QED
  BY <1>1, <1>4, <1>5, <1>6

LEMMA RequestPlanned == ASSUME RequestsAsked PROVE PlanSound
<1>1. /\ request.bytes \in Nat /\ request.most \in Nat
      /\ request.used \in [ToSet(MCAccounts) -> Nat]
      /\ \E P : ToSet(Platforms) \subseteq P /\ request.available \in [P -> Nat]
  <2>1. CASE request \in MCRequests
    <3>1. /\ request.bytes \in 0 .. 6 /\ request.most \in 0 .. 2
          /\ request.used \in [ToSet(MCAccounts) -> 0 .. 2]
          /\ \/ request.available \in [ToSet(Platforms) -> 0 .. 2]
             \/ request.available \in [ToSet(Platforms) \union {"other"} -> {1}]
      BY <2>1, AccountNames DEF MCRequests
    <3>2. CASE request.available \in [ToSet(Platforms) -> 0 .. 2]
      BY <3>1, <3>2
    <3>3. CASE request.available \in [ToSet(Platforms) \union {"other"} -> {1}]
      BY <3>1, <3>3
    <3> QED
      BY <3>1, <3>2, <3>3
  <2>2. CASE request = NoRequest
    <3>1. /\ request.bytes = 1 /\ request.most = 0
          /\ request.used = [a \in ToSet(MCAccounts) |-> 0]
          /\ request.available = [p \in ToSet(Platforms) |-> 1]
      BY <2>2, AccountNames DEF NoRequest
    <3> QED
      BY <3>1
  <2> QED
    BY <2>1, <2>2 DEF RequestsAsked
<1>2. SlotsSound(request.bytes, MCAccounts, request.used, request.available, request.most)
  <2>1. PICK P : ToSet(Platforms) \subseteq P /\ request.available \in [P -> Nat]
    BY <1>1
  <2>2. request.bytes \in Int
    BY <1>1
  <2> QED
    BY <1>1, <2>1, <2>2, AccountNames, PlansSound
<1>3. \A parts \in 1 .. 4 : RangesTile(request.bytes, parts)
  <2> TAKE parts \in 1 .. 4
  <2>1. parts \in Nat \ {0}
    OBVIOUS
  <2> QED
    BY <1>1, <2>1, RangesTiled
<1> QED
  BY <1>2, <1>3 DEF PlanSound

\* plan_job and split_ranges of backend/scheduler.py answer soundly: PlanSound holds for any platforms, allowance and shard size.
THEOREM PlannedSoundly == PartsSpec => []PlanSound
<1>1. PartsInit => RequestsAsked
  BY DEF PartsInit, RequestsAsked
<1>2. RequestsAsked /\ [PartsNext]_partsVars => RequestsAsked'
  <2> SUFFICES ASSUME RequestsAsked, [PartsNext]_partsVars PROVE RequestsAsked'
    OBVIOUS
  <2>1. request' = request \/ request' \in MCRequests
    BY DEF PartsNext, partsVars, OnHost, OnColab, OnKaggle, InJobs, InAccounts, InWatchdog,
       InPool, InPlanner
  <2> QED
    BY <2>1 DEF RequestsAsked
<1>3. RequestsAsked => PlanSound
  BY RequestPlanned
<1> QED
  BY <1>1, <1>2, <1>3, PTL DEF PartsSpec
====
