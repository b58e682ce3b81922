------------------------ MODULE ToolCallStreamProofs ------------------------
(* For turns of any number of calls, of any number of fragments each or none,*)
(* however they are interleaved, spread over chunks, cut off, broken or      *)
(* cancelled: the agent is handed calls the model made, and a call it is not *)
(* handed without an error has been lost in one of four ways.                *)
EXTENDS ToolCallStream, NaturalOrder, SequenceTheorems, TLAPS

USE ToolCallStreamAssumption

-----------------------------------------------------------------------------
(* The invariant.                                                            *)

Whole(c)   == [id |-> c, args |-> Fragments(c)]
Arrived(c) == [id |-> c, args |-> [k \in 1..sent[c] |-> <<c, k>>]]
Handed     == {handed[k].id : k \in 1..Len(handed)}

\* When the end may have been announced, and to whom.
Ends ==
  /\ pc # "closed" => last # "error"
  /\ pc # "closed" /\ wire = "open" => last = "none"
  /\ pc = "flush" => wire = "last" /\ last = "none" /\ provider # "anthropic"
  /\ provider = "ollama" /\ pc = "read" => wire = "open"
  /\ provider = "anthropic" /\ wire = "last" => block = 0

\* What has begun to arrive is where the client looks for it.
Arriving ==
  /\ \A c \in Turn : sent[c] <= parts[c]
  /\ \A c \in Calls : c > begun => sent[c] = 0
  /\ block \in {0, begun} /\ chunks <= begun
  /\ provider # "anthropic" => block = 0
  /\ provider # "ollama" => chunks = 0
  /\ provider = "openai" =>
       acc = [c \in Calls |-> IF c <= begun THEN Arrived(c) ELSE NoEntry]
  /\ provider = "anthropic" /\ pc = "read" =>
       acc = [c \in Calls |-> IF c = block THEN Arrived(c) ELSE NoEntry]
  /\ provider = "ollama" /\ chunks = 0 => begun = 0
  /\ provider = "ollama" /\ chunks <= 1 =>
       acc = [c \in Calls |-> IF c <= begun THEN Whole(c) ELSE NoEntry]

\* The first entry holds two calls or more: their arguments do not parse.
Merged(entry) ==
  /\ entry.id \in 2..begun /\ entry.args # << >>
  /\ entry.args[1] = <<1, 1>>
  /\ entry.args[Len(entry.args)] = <<entry.id, parts[entry.id]>>

\* Calls with arguments that Ollama sends in several chunks are run together in
\* the first entry, and it is the first to be flushed: nothing gets past it.
RunTogether ==
  chunks > 1 /\ ~Mixed =>
    /\ handed = << >> /\ Merged(acc[1])
    /\ pc = "flush" => 1 \in left

\* An entry of Ollama's client goes by the last call that was put into it; its
\* arguments are of that call or of earlier ones, and only those of a call
\* without arguments may be missing.  No two entries go by the same call.
Gathered ==
  provider = "ollama" =>
    /\ \A i \in Calls :
         /\ acc[i] # NoEntry => acc[i].id \in 1..begun
         /\ \A k \in 1..Len(acc[i].args) : acc[i].args[k][1] <= acc[i].id
         /\ acc[i] # NoEntry /\ acc[i].args = << >> => parts[acc[i].id] = 0
    /\ \A i, j \in Calls :
         i # j /\ acc[i] # NoEntry /\ acc[j] # NoEntry => acc[i].id # acc[j].id
    /\ pc = "flush" =>
         \A i \in left : acc[i] # NoEntry /\ acc[i].id \notin Handed

\* A flush hands over whole calls in their order.
Flushing ==
  pc = "flush" /\ chunks <= 1 =>
    /\ left \subseteq 1..begun /\ \A i \in left : acc[i] = Whole(i)
    /\ Handed = (1..begun) \ left
    /\ \A a \in Handed, b \in left : a < b

\* What has been handed over when a client reads.
HandedOver ==
  pc = "read" =>
    /\ provider = "anthropic" => Handed = (1..begun) \ {block}
    /\ provider # "anthropic" /\ wire = "open" => handed = << >>
    /\ provider = "openai" /\ wire = "last" /\ ~cut /\ ~stopped =>
         Handed = 1..begun

IInv ==
  /\ TypeOK
  /\ Ends /\ Arriving /\ RunTogether /\ Gathered /\ Flushing /\ HandedOver
  /\ LossNeedsCause /\ ErrorNeedsCause

-----------------------------------------------------------------------------
(* Fragments and entries.                                                    *)

LEMMA BelowLess ==
  ASSUME NEW x \in Int, NEW y \in Int, NEW z \in Int, x <= y, y < z
  PROVE  x <= z
OBVIOUS

Fragment == Calls \X (1..MaxParts)

LEMMA TurnTypes ==
  ASSUME TypeOK
  PROVE  /\ Len(parts) \in 0..MaxCalls /\ Turn = 1..Len(parts)
         /\ Turn \subseteq Calls
         /\ \A c \in Turn : parts[c] \in 0..MaxParts
<1>1. PICK n \in 0..MaxCalls : parts \in [1..n -> 0..MaxParts]
  BY DEF TypeOK
<1>2. parts \in Seq(0..MaxParts)
  BY <1>1
<1>3. Len(parts) = n
  BY <1>1, <1>2
<1>. QED BY <1>1, <1>3 DEF Turn, Calls

LEMMA Counters ==
  ASSUME TypeOK
  PROVE  /\ Len(parts) \in Nat /\ Turn = 1..Len(parts)
         /\ begun \in Nat /\ begun <= Len(parts) /\ chunks \in Nat
         /\ block \in Nat /\ block <= begun
         /\ 1..begun \subseteq Turn
<1>1. Len(parts) \in Nat /\ Turn = 1..Len(parts)
  BY TurnTypes
<1>2. begun \in 0..Len(parts) /\ block \in 0..begun /\ chunks \in 0..MaxCalls
  BY DEF TypeOK
<1>. QED BY <1>1, <1>2

LEMMA FragmentsOf ==
  ASSUME TypeOK, NEW c \in Turn
  PROVE  /\ Fragments(c) \in Seq(Fragment) /\ Len(Fragments(c)) = parts[c]
         /\ parts[c] # 0 =>
              /\ Fragments(c) # << >> /\ Fragments(c)[1] = <<c, 1>>
              /\ Fragments(c)[parts[c]] = <<c, parts[c]>>
         /\ parts[c] = 0 => Fragments(c) = << >>
         /\ \A k \in 1..parts[c] : Fragments(c)[k] = <<c, k>>
         /\ Whole(c) \in Entries
<1>1. c \in Calls /\ parts[c] \in 0..MaxParts
  BY TurnTypes
<1> DEFINE f == [k \in 1..parts[c] |-> <<c, k>>]
<1>2. f \in [1..parts[c] -> Fragment]
  BY <1>1 DEF Fragment
<1>3. f \in Seq(Fragment) /\ Len(f) = parts[c]
  BY <1>1, <1>2
<1>4. /\ \A k \in 1..parts[c] : f[k] = <<c, k>>
      /\ parts[c] # 0 => f[1] = <<c, 1>> /\ f[parts[c]] = <<c, parts[c]>>
  BY <1>1
<1>5. /\ parts[c] # 0 => f # << >>
      /\ parts[c] = 0 => f = << >>
  BY <1>1, <1>3
<1>6. [id |-> c, args |-> f] \in Entries
  BY <1>1, <1>3 DEF Entries, Fragment, Calls
<1>. QED BY <1>3, <1>4, <1>5, <1>6 DEF Fragments, Whole

LEMMA ArrivedTypes ==
  ASSUME TypeOK, NEW c \in Calls
  PROVE  /\ Arrived(c) \in Entries /\ Arrived(c).id = c
         /\ Arrived(c).args \in Seq(Fragment) /\ Len(Arrived(c).args) = sent[c]
         /\ \A k \in 1..sent[c] : Arrived(c).args[k] = <<c, k>>
<1>1. sent[c] \in 0..MaxParts
  BY DEF TypeOK
<1> DEFINE f == [k \in 1..sent[c] |-> <<c, k>>]
<1>2. f \in [1..sent[c] -> Fragment]
  BY <1>1 DEF Fragment
<1>3. f \in Seq(Fragment) /\ Len(f) = sent[c]
  BY <1>1, <1>2
<1>4. \A k \in 1..sent[c] : f[k] = <<c, k>>
  OBVIOUS
<1>5. [id |-> c, args |-> f] \in Entries
  BY <1>3 DEF Entries, Fragment, Calls
<1>. QED BY <1>3, <1>4, <1>5 DEF Arrived

\* One call's arguments parse when they are complete, or not begun.
LEMMA ArrivedParses ==
  ASSUME TypeOK, NEW c \in Turn, sent[c] <= parts[c]
  PROVE  /\ sent[c] = parts[c] => Arrived(c) = Whole(c)
         /\ sent[c] = parts[c] => Parses(Arrived(c).args)
         /\ Parses(Arrived(c).args) =>
              \/ Arrived(c) = Whole(c)
              \/ Arrived(c) = [id |-> c, args |-> << >>]
<1>1. /\ c \in Calls /\ sent[c] \in 0..MaxParts /\ parts[c] \in 0..MaxParts
      /\ Arrived(c).id = c /\ Arrived(c).args \in Seq(Fragment)
      /\ Len(Arrived(c).args) = sent[c]
      /\ \A k \in 1..sent[c] : Arrived(c).args[k] = <<c, k>>
  BY TurnTypes, ArrivedTypes DEF TypeOK
<1>2. ASSUME sent[c] = parts[c]
      PROVE  Arrived(c) = Whole(c) /\ Arrived(c).args = Fragments(c)
  BY <1>2 DEF Arrived, Whole, Fragments
<1>3. ASSUME sent[c] = parts[c] PROVE Parses(Arrived(c).args)
  BY <1>2, <1>3 DEF Parses
<1>4. ASSUME Parses(Arrived(c).args), sent[c] # 0
      PROVE  sent[c] = parts[c]
  <2>1. PICK d \in Turn : Arrived(c).args = Fragments(d)
    BY <1>1, <1>4 DEF Parses
  <2>2. Fragments(d)[1] = <<d, 1>> /\ Len(Fragments(d)) = parts[d]
    <3>1. Len(Fragments(d)) = parts[d] /\ parts[d] # 0
      BY <1>1, <1>4, <2>1, FragmentsOf
    <3>. QED BY <3>1, FragmentsOf
  <2>3. 1 \in 1..sent[c]
    BY <1>1, <1>4
  <2>4. <<c, 1>> = <<d, 1>>
    BY <1>1, <2>1, <2>2, <2>3
  <2>. QED BY <1>1, <2>1, <2>2, <2>4
<1>5. ASSUME sent[c] = 0 PROVE Arrived(c) = [id |-> c, args |-> << >>]
  BY <1>5 DEF Arrived
<1>. QED BY <1>2, <1>3, <1>4, <1>5

\* Two calls run together are no call.
LEMMA MergedFails ==
  ASSUME TypeOK, NEW entry \in Entries, Merged(entry)
  PROVE  ~Parses(entry.args)
<1>1. ASSUME NEW c \in Turn, entry.args = Fragments(c) PROVE FALSE
  <2>1. /\ Fragments(c)[1] = <<c, 1>> /\ Len(Fragments(c)) = parts[c]
        /\ Fragments(c)[parts[c]] = <<c, parts[c]>>
    <3>1. parts[c] # 0
      BY <1>1, FragmentsOf DEF Merged
    <3>. QED BY <3>1, FragmentsOf
  <2>2. <<c, 1>> = <<1, 1>> /\ <<c, parts[c]>> = <<entry.id, parts[entry.id]>>
    BY <1>1, <2>1 DEF Merged
  <2>3. c = 1 /\ c = entry.id
    BY <2>2
  <2>. QED BY <2>3 DEF Merged
<1>. QED BY <1>1 DEF Parses, Merged

LEMMA NextFragment ==
  ASSUME TypeOK, NEW c \in Calls
  PROVE  Append([k \in 1..sent[c] |-> <<c, k>>], <<c, sent[c] + 1>>)
           = [k \in 1..(sent[c] + 1) |-> <<c, k>>]
<1>1. sent[c] \in Nat
  BY DEF TypeOK
<1> DEFINE f == [k \in 1..sent[c] |-> <<c, k>>]
           g == [k \in 1..(sent[c] + 1) |-> <<c, k>>]
           e == <<c, sent[c] + 1>>
<1>2. /\ f \in Seq(Calls \X Nat) /\ Len(f) = sent[c]
      /\ g \in [1..(sent[c] + 1) -> Calls \X Nat]
      /\ e \in Calls \X Nat
  <2>1. f \in [1..sent[c] -> Calls \X Nat]
    BY <1>1
  <2>2. g \in [1..(sent[c] + 1) -> Calls \X Nat]
    BY <1>1
  <2>. QED BY <1>1, <2>1, <2>2
<1>3. /\ \A i \in 1..sent[c] : f[i] = <<c, i>> /\ g[i] = <<c, i>>
      /\ g[sent[c] + 1] = e
  BY <1>1
<1> HIDE DEF f, g, e
<1>4. /\ Append(f, e) \in Seq(Calls \X Nat) /\ Len(Append(f, e)) = sent[c] + 1
      /\ \A i \in 1..sent[c] : Append(f, e)[i] = f[i]
      /\ Append(f, e)[sent[c] + 1] = e
  BY <1>2
<1>5. ASSUME NEW i \in 1..(sent[c] + 1) PROVE Append(f, e)[i] = g[i]
  <2>1. i = sent[c] + 1 \/ i \in 1..sent[c]
    BY <1>1
  <2>. QED BY <1>3, <1>4, <2>1
<1>6. Append(f, e) \in [1..(sent[c] + 1) -> Calls \X Nat]
  BY <1>4, LenProperties
<1>7. Append(f, e) = g
  BY <1>2, <1>5, <1>6
<1>. QED BY <1>7 DEF f, g, e

LEMMA HandedGrows ==
  ASSUME TypeOK, NEW entry \in Entries, Emit(entry)
  PROVE  handed' \in Seq(Entries) /\ Handed' = Handed \cup {entry.id}
<1>1. /\ handed \in Seq(Entries) /\ handed' \in Seq(Entries)
      /\ Len(handed') = Len(handed) + 1 /\ Len(handed) \in Nat
      /\ \A k \in 1..Len(handed) : handed'[k] = handed[k]
      /\ handed'[Len(handed) + 1] = entry
  BY DEF TypeOK, Emit
<1>2. ASSUME NEW k \in 1..Len(handed') PROVE handed'[k].id \in Handed \cup {entry.id}
  <2>1. CASE k = Len(handed) + 1
    BY <1>1, <2>1
  <2>2. CASE k # Len(handed) + 1
    <3>1. k \in 1..Len(handed)
      BY <1>1, <2>2
    <3>. QED BY <1>1, <3>1 DEF Handed
  <2>. QED BY <2>1, <2>2
<1>3. ASSUME NEW k \in 1..Len(handed) PROVE handed[k].id \in Handed'
  <2>1. k \in 1..Len(handed') /\ handed'[k] = handed[k]
    BY <1>1
  <2>. QED BY <2>1 DEF Handed
<1>4. entry.id \in Handed'
  <2>1. Len(handed) + 1 \in 1..Len(handed')
    BY <1>1
  <2>. QED BY <1>1, <2>1 DEF Handed
<1>. QED BY <1>1, <1>2, <1>3, <1>4 DEF Handed

-----------------------------------------------------------------------------
(* The steps.                                                                *)

LEMMA InitIInv == Init => IInv
<1> SUFFICES ASSUME Init PROVE IInv
  OBVIOUS
<1>1. PICK n \in 0..MaxCalls : parts \in [1..n -> 0..MaxParts]
  BY DEF Init
<1>2. parts \in Seq(0..MaxParts) /\ Len(parts) = n
  BY <1>1
<1>3. NoEntry \in Entries
  BY DEF NoEntry, Entries
<1>4. TypeOK
  <2>1. begun \in 0..Len(parts) /\ block \in 0..begun /\ chunks \in 0..MaxCalls
    BY <1>2 DEF Init
  <2>2. /\ sent \in [Calls -> 0..MaxParts] /\ acc \in [Calls -> Entries]
        /\ left \subseteq Calls /\ handed \in Seq(Entries)
    BY <1>3 DEF Init
  <2>3. \A i \in Calls : acc[i] = NoEntry /\ acc[i].id = 0
    BY DEF Init, NoEntry
  <2>. QED BY <1>1, <2>1, <2>2, <2>3 DEF Init, TypeOK
<1>5. Handed = {}
  BY DEF Init, Handed
<1>6. Ends /\ RunTogether /\ Gathered /\ Flushing /\ LossNeedsCause /\ ErrorNeedsCause
  BY <1>5 DEF Init, Ends, RunTogether, Gathered, NoEntry, Flushing, LossNeedsCause,
     ErrorNeedsCause
<1>7. HandedOver
  BY <1>5 DEF Init, HandedOver
<1>8. Arriving
  <2>1. \A c \in Turn : c \in Calls /\ parts[c] \in 0..MaxParts
    BY <1>4, TurnTypes
  <2>2. acc = [c \in Calls |-> NoEntry] /\ \A c \in Calls : ~(c <= 0)
    BY DEF Init, Calls
  <2>. QED BY <2>1, <2>2 DEF Init, Arriving, Calls
<1>. QED BY <1>4, <1>6, <1>7, <1>8 DEF IInv

\* readStream returns: what is left is what has been handed over.
LEMMA Closing ==
  ASSUME IInv, pc' = "closed", block' \in {0, block}, cut' \in BOOLEAN,
         broken' \in BOOLEAN, last' \in {"none", "done", "error"},
         UNCHANGED <<turnVars, begun, sent, chunks, wire, stopped, acc, left,
                     handed, cancelled>>,
         LossNeedsCause', ErrorNeedsCause'
  PROVE  IInv'
<1> USE DEF turnVars
<1>1. TypeOK'
  <2>1. TypeOK /\ begun \in Nat
    BY Counters DEF IInv
  <2>2. block' \in 0..begun'
    BY <2>1 DEF TypeOK
  <2>. QED BY <2>1, <2>2 DEF TypeOK
<1>2. Ends'
  BY DEF IInv, Ends
<1>3. Arriving'
  BY DEF IInv, Arriving, Arrived, Whole, Fragments, Turn
<1>4. RunTogether' /\ Gathered'
  BY DEF IInv, RunTogether, Merged, Mixed, Gathered, Handed
<1>5. Flushing' /\ HandedOver'
  BY DEF Flushing, HandedOver
<1>. QED BY <1>1, <1>2, <1>3, <1>4, <1>5 DEF IInv

\* Nothing is handed over, and reading goes on.
LEMMA StillReading ==
  ASSUME IInv, pc = "read", UNCHANGED <<pc, handed, left>>
  PROVE  Flushing' /\ LossNeedsCause' /\ Handed' = Handed
BY DEF Flushing, LossNeedsCause, Handed

-----------------------------------------------------------------------------
(* Anthropic.                                                                *)

LEMMA BeginCallEntry ==
  ASSUME IInv, BeginCall
  PROVE  /\ begun' = begun + 1 /\ begun' \in Turn /\ begun' \in Calls
         /\ begun' \in 1..Len(parts) /\ sent[begun'] = 0
         /\ acc' = [acc EXCEPT ![begun'] = Arrived(begun')]
         /\ Arrived(begun') \in Entries /\ Arrived(begun').id = begun'
<1>1. begun \in 0..Len(parts) /\ Len(parts) \in Nat /\ Turn = 1..Len(parts)
  <2>1. TypeOK
    BY DEF IInv
  <2>. QED BY <2>1, Counters
<1>2. begun' = begun + 1 /\ begun' \in 1..Len(parts)
  BY <1>1 DEF BeginCall
<1>3. begun' \in Turn /\ begun' \in Calls
  BY <1>1, <1>2, TurnTypes DEF IInv
<1>4. sent[begun'] = 0
  BY <1>1, <1>2, <1>3 DEF IInv, Arriving
<1>5. Arrived(begun') = [id |-> begun', args |-> << >>]
  BY <1>4 DEF Arrived
<1>. QED BY <1>2, <1>3, <1>4, <1>5, ArrivedTypes DEF BeginCall, IInv

LEMMA ContentBlockStartInv == ASSUME IInv, ContentBlockStart PROVE IInv'
<1> USE DEF turnVars
<1>1. /\ provider = "anthropic" /\ pc = "read" /\ wire = "open" /\ block = 0
      /\ BeginCall /\ block' = begun'
      /\ UNCHANGED <<provider, parts, sent, chunks, wire, cut, stopped, broken, left, pc,
                     handed, last, cancelled>>
  BY DEF ContentBlockStart, Reading
<1>2. /\ begun' = begun + 1 /\ begun' \in Turn /\ begun' \in Calls
      /\ begun' \in 1..Len(parts) /\ sent[begun'] = 0
      /\ acc' = [acc EXCEPT ![begun'] = Arrived(begun')]
      /\ Arrived(begun') \in Entries /\ Arrived(begun').id = begun'
  BY <1>1, BeginCallEntry
<1>3. /\ begun \in Nat /\ chunks \in Nat /\ acc \in [Calls -> Entries]
      /\ acc = [c \in Calls |-> NoEntry] /\ 0 \notin Calls
  BY <1>1, TurnTypes DEF IInv, TypeOK, Arriving, Calls
<1>4. acc' = [c \in Calls |-> IF c = begun' THEN Arrived(c) ELSE NoEntry]
  BY <1>2, <1>3
<1>5. TypeOK'
  <2>1. acc' \in [Calls -> Entries]
    BY <1>2, <1>3
  <2>2. \A i \in Calls : acc'[i].id \in {0, i}
    BY <1>2, <1>4 DEF NoEntry
  <2>3. \A i \in Calls \ {block'} : acc'[i] = NoEntry
    BY <1>1, <1>4
  <2>4. begun' \in 0..Len(parts) /\ block' \in 0..begun'
    BY <1>1, <1>2
  <2>. QED BY <1>1, <2>1, <2>2, <2>3, <2>4 DEF IInv, TypeOK
<1>6. Ends' /\ ErrorNeedsCause'
  BY <1>1 DEF IInv, Ends, ErrorNeedsCause
<1>7. Arriving'
  <2>1. \A c \in Turn : sent[c] <= parts[c]
    BY DEF IInv, Arriving
  <2>2. \A c \in Calls : c > begun' => sent[c] = 0
    BY <1>2, <1>3 DEF IInv, Arriving, Calls
  <2>3. acc' = [c \in Calls |-> IF c = block' THEN Arrived(c)' ELSE NoEntry]
    BY <1>1, <1>4 DEF Arrived
  <2>4. chunks = 0
    BY <1>1 DEF IInv, Arriving
  <2>. QED BY <1>1, <1>2, <1>3, <2>1, <2>2, <2>3, <2>4 DEF Arriving, Turn
<1>8. RunTogether' /\ Gathered'
  BY <1>1 DEF IInv, RunTogether, Gathered, Arriving
<1>9. HandedOver'
  <2>1. Handed = (1..begun) \ {0} /\ Handed' = Handed
    BY <1>1 DEF IInv, HandedOver, Handed
  <2>2. Handed' = (1..begun') \ {begun'}
    BY <1>2, <1>3, <2>1
  <2>. QED BY <1>1, <2>2 DEF HandedOver
<1>. QED BY <1>1, <1>5, <1>6, <1>7, <1>8, <1>9, StillReading DEF IInv

LEMMA FragmentArrives ==
  ASSUME IInv, NEW c \in Turn, acc[c] = Arrived(c), AppendFragment(c)
  PROVE  /\ sent' = [sent EXCEPT ![c] = sent[c] + 1] /\ sent[c] < parts[c]
         /\ sent' \in [Calls -> 0..MaxParts]
         /\ acc' = [acc EXCEPT ![c] = Arrived(c)']
         /\ Arrived(c)' \in Entries /\ Arrived(c)'.id = c
         /\ \A d \in Calls \ {c} : Arrived(d)' = Arrived(d)
<1>1. TypeOK /\ c \in Calls /\ parts[c] \in 0..MaxParts
  BY TurnTypes DEF IInv
<1>2. sent \in [Calls -> 0..MaxParts] /\ acc \in [Calls -> Entries]
  BY <1>1 DEF TypeOK
<1>3. sent' = [sent EXCEPT ![c] = sent[c] + 1] /\ sent[c] < parts[c]
  BY DEF AppendFragment
<1>4. sent' \in [Calls -> 0..MaxParts] /\ sent'[c] = sent[c] + 1
  BY <1>1, <1>2, <1>3
<1> DEFINE grown == Append(acc[c].args, <<c, sent[c] + 1>>)
<1>5. acc' = [acc EXCEPT ![c].args = grown]
  BY <1>4 DEF AppendFragment
<1>6. Arrived(c)' = [id |-> c, args |-> grown]
  <2>1. acc[c].args = [k \in 1..sent[c] |-> <<c, k>>]
    BY DEF Arrived
  <2>2. grown = [k \in 1..(sent[c] + 1) |-> <<c, k>>]
    BY <1>1, <2>1, NextFragment
  <2>3. Arrived(c)' = [id |-> c, args |-> [k \in 1..(sent[c] + 1) |-> <<c, k>>]]
    BY <1>4 DEF Arrived
  <2>. QED BY <2>2, <2>3
<1>7. grown \in Seq(Fragment)
  <2>1. acc[c].args \in Seq(Fragment)
    BY <1>1, ArrivedTypes
  <2>2. <<c, sent[c] + 1>> \in Fragment
    BY <1>1, <1>2, <1>3 DEF Fragment
  <2>. QED BY <2>1, <2>2
<1> HIDE DEF grown
<1>8. acc'[c] = Arrived(c)'
  <2>1. acc'[c] = [acc[c] EXCEPT !.args = grown]
    BY <1>1, <1>2, <1>5
  <2>. QED BY <1>6, <2>1 DEF Arrived
<1>9. acc' = [acc EXCEPT ![c] = Arrived(c)']
  BY <1>1, <1>2, <1>5, <1>8
<1>10. c \in 0..MaxCalls
  BY <1>1 DEF Calls
<1>11. Arrived(c)' \in Entries /\ Arrived(c)'.id = c
  BY <1>6, <1>7, <1>10 DEF Entries, Fragment
<1>12. \A d \in Calls \ {c} : Arrived(d)' = Arrived(d)
  BY <1>2, <1>3 DEF Arrived
<1>. QED BY <1>3, <1>4, <1>9, <1>11, <1>12

LEMMA ContentBlockDeltaInv == ASSUME IInv, ContentBlockDelta PROVE IInv'
<1> USE DEF turnVars
<1>1. /\ provider = "anthropic" /\ pc = "read" /\ wire = "open" /\ block # 0
      /\ AppendFragment(block)
      /\ UNCHANGED <<provider, parts, begun, block, chunks, wire, cut, stopped, broken,
                     left, pc, handed, last, cancelled>>
  BY DEF ContentBlockDelta, Reading
<1>2. TypeOK /\ block \in Turn /\ block \in Calls
  BY <1>1, Counters, TurnTypes DEF IInv
<1>3. acc = [c \in Calls |-> IF c = block THEN Arrived(c) ELSE NoEntry]
  BY <1>1 DEF IInv, Arriving
<1>4. /\ sent' = [sent EXCEPT ![block] = sent[block] + 1] /\ sent[block] < parts[block]
      /\ sent' \in [Calls -> 0..MaxParts]
      /\ acc' = [acc EXCEPT ![block] = Arrived(block)']
      /\ Arrived(block)' \in Entries /\ Arrived(block)'.id = block
  BY <1>1, <1>2, <1>3, FragmentArrives
<1>5. acc' = [c \in Calls |-> IF c = block THEN Arrived(c)' ELSE NoEntry]
  BY <1>1, <1>2, <1>3, <1>4
<1>6. TypeOK'
  <2>1. acc' \in [Calls -> Entries]
    BY <1>2, <1>4 DEF TypeOK
  <2>2. \A i \in Calls : acc'[i].id \in {0, i}
    <3>1. \A i \in Calls : acc[i].id \in {0, i}
      BY <1>1, <1>2 DEF TypeOK
    <3>. QED BY <1>2, <1>4, <2>1, <3>1 DEF TypeOK
  <2>3. \A i \in Calls \ {block'} : acc'[i] = NoEntry
    BY <1>1, <1>5
  <2>. QED BY <1>1, <1>2, <1>4, <2>1, <2>2, <2>3 DEF TypeOK
<1>7. Ends' /\ ErrorNeedsCause'
  BY <1>1 DEF IInv, Ends, ErrorNeedsCause
<1>8. Arriving'
  <2>1. \A c \in Turn : sent'[c] <= parts[c]
    <3>1. \A c \in Turn : c \in Calls /\ sent[c] \in Int /\ parts[c] \in Int
      <4>1. sent \in [Calls -> 0..MaxParts]
        BY <1>2 DEF TypeOK
      <4>2. Turn \subseteq Calls /\ \A c \in Turn : parts[c] \in 0..MaxParts
        BY <1>2, TurnTypes
      <4>. QED BY <4>1, <4>2
    <3>. QED BY <1>2, <1>4, <3>1 DEF IInv, Arriving, TypeOK
  <2>2. \A c \in Calls : c > begun => sent'[c] = 0
    <3>1. block <= begun /\ block \in Nat /\ begun \in Nat
      BY <1>2, Counters
    <3>. QED BY <1>2, <1>4, <3>1 DEF IInv, Arriving, TypeOK, Calls
  <2>. QED BY <1>1, <1>5, <2>1, <2>2 DEF IInv, Arriving, Turn
<1>9. RunTogether' /\ Gathered' /\ HandedOver'
  BY <1>1 DEF IInv, RunTogether, Gathered, HandedOver, Handed, Arriving
<1>. QED BY <1>1, <1>6, <1>7, <1>8, <1>9, StillReading DEF IInv

\* The call of the block that is open, when its block is closed.
LEMMA OpenBlock ==
  ASSUME IInv, ContentBlockStop
  PROVE  /\ TypeOK /\ block \in Turn /\ block \in Calls /\ block = begun
         /\ acc[block] = Arrived(block) /\ acc[block] \in Entries
         /\ sent[block] <= parts[block]
         /\ ~Parses(acc[block].args) => sent[block] < parts[block]
<1>1. provider = "anthropic" /\ pc = "read" /\ block # 0
  BY DEF ContentBlockStop, Reading
<1>2. TypeOK /\ block \in Turn /\ block \in Calls
  BY <1>1, Counters, TurnTypes DEF IInv
<1>3. acc[block] = Arrived(block) /\ block = begun /\ sent[block] <= parts[block]
  BY <1>1, <1>2 DEF IInv, Arriving
<1>4. sent[block] \in Int /\ parts[block] \in Int
  <2>1. sent \in [Calls -> 0..MaxParts]
    BY <1>2 DEF TypeOK
  <2>2. parts[block] \in 0..MaxParts
    BY <1>2, TurnTypes
  <2>. QED BY <1>2, <2>1, <2>2
<1>. QED BY <1>2, <1>3, <1>4, ArrivedParses, ArrivedTypes

LEMMA ContentBlockStopInv == ASSUME IInv, ContentBlockStop PROVE IInv'
<1> USE DEF turnVars
<1>1. /\ provider = "anthropic" /\ pc = "read" /\ wire = "open" /\ block # 0
      /\ EmitBlock /\ block' = 0 /\ cut' = (cut \/ sent[block] < parts[block])
      /\ UNCHANGED <<provider, parts, begun, sent, chunks, wire, stopped, broken,
                     cancelled>>
  BY DEF ContentBlockStop, Reading
<1>2. /\ TypeOK /\ block \in Turn /\ block \in Calls /\ block = begun
      /\ acc[block] = Arrived(block) /\ acc[block] \in Entries
      /\ sent[block] <= parts[block]
      /\ ~Parses(acc[block].args) => sent[block] < parts[block]
  BY OpenBlock
<1>3. cut' \in BOOLEAN
  BY <1>1
<1>4. CASE Parses(acc[block].args)
  <2>1. /\ Emit(acc[block]) /\ acc' = [acc EXCEPT ![block] = NoEntry]
        /\ UNCHANGED <<left, pc, last>>
    BY <1>1, <1>4 DEF EmitBlock
  <2>2. handed' \in Seq(Entries) /\ Handed' = Handed \cup {block}
    BY <1>2, <2>1, HandedGrows, ArrivedTypes
  <2>3. acc = [c \in Calls |-> IF c = block THEN Arrived(c) ELSE NoEntry]
    BY <1>1 DEF IInv, Arriving
  <2>4. acc' = [c \in Calls |-> NoEntry] /\ 0 \notin Calls
    BY <2>1, <2>3 DEF Calls
  <2>5. begun \in Nat /\ \A c \in Calls : c # 0
    BY <1>2, Counters DEF Calls
  <2>6. TypeOK'
    <3>1. NoEntry \in Entries /\ NoEntry.id = 0
      BY DEF NoEntry, Entries
    <3>2. acc' \in [Calls -> Entries] /\ \A i \in Calls : acc'[i].id \in {0, i}
      BY <2>4, <3>1
    <3>3. block' \in 0..begun'
      BY <1>1, <2>5
    <3>4. \A i \in Calls : acc'[i] = NoEntry
      BY <2>4
    <3>. QED BY <1>1, <1>2, <1>3, <2>1, <2>2, <3>2, <3>3, <3>4 DEF TypeOK
  <2>7. Ends'
    BY <1>1, <2>1 DEF IInv, Ends
  <2>8. ErrorNeedsCause'
    BY <1>1, <2>1 DEF IInv, Ends, ErrorNeedsCause
  <2>9. Arriving'
    <3>1. acc' = [c \in Calls |-> IF c = block' THEN Arrived(c)' ELSE NoEntry]
      BY <1>1, <2>4, <2>5
    <3>. QED BY <1>1, <3>1 DEF IInv, Arriving, Turn
  <2>10. RunTogether' /\ Gathered'
    BY <1>1, <2>5 DEF IInv, RunTogether, Gathered, Arriving
  <2>11. HandedOver'
    <3>1. Handed = (1..begun) \ {begun}
      BY <1>1, <1>2 DEF IInv, HandedOver
    <3>2. Handed' = (1..begun) \ {0}
      BY <1>2, <2>2, <2>5, <3>1
    <3>. QED BY <1>1, <2>1, <3>2 DEF HandedOver
  <2>12. Flushing' /\ LossNeedsCause'
    BY <1>1, <2>1 DEF Flushing, LossNeedsCause
  <2>. QED BY <2>6, <2>7, <2>8, <2>9, <2>10, <2>11, <2>12 DEF IInv
<1>5. CASE ~Parses(acc[block].args)
  <2>1. /\ last' = "error" /\ pc' = "closed"
        /\ UNCHANGED <<acc, left, handed>>
    BY <1>1, <1>5 DEF EmitBlock, Fail
  <2>2. cut' = TRUE
    BY <1>1, <1>2, <1>5
  <2>3. LossNeedsCause' /\ ErrorNeedsCause'
    BY <2>1, <2>2 DEF LossNeedsCause, ErrorNeedsCause
  <2>4. broken' \in BOOLEAN /\ block' \in {0, block}
    BY <1>1, <1>2 DEF TypeOK
  <2>. QED BY <1>1, <1>3, <2>1, <2>3, <2>4, Closing
<1>. QED BY <1>4, <1>5

LEMMA MessageStopInv == ASSUME IInv, MessageStop PROVE IInv'
<1> USE DEF turnVars
<1>1. /\ provider = "anthropic" /\ pc = "read" /\ wire = "open" /\ block = 0
      /\ wire' = "last" /\ last' = "done"
      /\ UNCHANGED <<provider, parts, begun, sent, block, chunks, cut, stopped, broken,
                     acc, left, pc, handed, cancelled>>
  BY DEF MessageStop, Reading
<1>2. TypeOK' /\ Ends'
  BY <1>1 DEF IInv, TypeOK, Ends
<1>3. Arriving' /\ RunTogether' /\ Gathered'
  BY <1>1 DEF IInv, Arriving, Arrived, Turn, RunTogether, Gathered
<1>4. HandedOver'
  BY <1>1 DEF IInv, HandedOver, Handed
<1>5. ErrorNeedsCause'
  BY <1>1 DEF ErrorNeedsCause
<1>. QED BY <1>1, <1>2, <1>3, <1>4, <1>5, StillReading DEF IInv

LEMMA AnthropicEndInv == ASSUME IInv, AnthropicEnd PROVE IInv'
<1> USE DEF turnVars
<1>1. /\ provider = "anthropic" /\ pc = "read" /\ pc' = "closed"
      /\ cut' = (cut \/ wire = "open")
      /\ UNCHANGED <<provider, parts, begun, sent, block, chunks, wire, stopped, broken,
                     acc, left, handed, last, cancelled>>
  BY DEF AnthropicEnd
<1>2. ErrorNeedsCause'
  BY <1>1 DEF IInv, Ends, ErrorNeedsCause
<1>3. LossNeedsCause'
  <2> SUFFICES ASSUME ~cut' PROVE Handed' = 1..begun'
    BY DEF LossNeedsCause, Handed
  <2>1. wire = "last"
    BY <1>1 DEF IInv, TypeOK
  <2>2. block = 0
    BY <1>1, <2>1 DEF IInv, Ends
  <2>3. Handed = (1..begun) \ {0}
    BY <1>1, <2>2 DEF IInv, HandedOver
  <2>4. (1..begun) \ {0} = 1..begun
    BY Counters DEF IInv
  <2>. QED BY <1>1, <2>3, <2>4 DEF Handed
<1>4. cut' \in BOOLEAN /\ broken' \in BOOLEAN
      /\ last' \in {"none", "done", "error"} /\ block' \in {0, block}
  BY <1>1 DEF IInv, TypeOK
<1>. QED BY <1>1, <1>2, <1>3, <1>4, Closing

-----------------------------------------------------------------------------
(* OpenAI.                                                                   *)

LEMMA ToolCallBeginsInv == ASSUME IInv, ToolCallBegins PROVE IInv'
<1> USE DEF turnVars
<1>1. /\ provider = "openai" /\ pc = "read" /\ wire = "open" /\ BeginCall
      /\ UNCHANGED <<provider, parts, sent, block, chunks, wire, cut, stopped, broken,
                     left, pc, handed, last, cancelled>>
  BY DEF ToolCallBegins, Reading
<1>2. /\ begun' = begun + 1 /\ begun' \in Turn /\ begun' \in Calls
      /\ begun' \in 1..Len(parts) /\ sent[begun'] = 0
      /\ acc' = [acc EXCEPT ![begun'] = Arrived(begun')]
      /\ Arrived(begun') \in Entries /\ Arrived(begun').id = begun'
  BY <1>1, BeginCallEntry
<1>3. /\ TypeOK /\ begun \in Nat /\ block \in Nat /\ block <= begun
      /\ acc \in [Calls -> Entries]
      /\ acc = [c \in Calls |-> IF c <= begun THEN Arrived(c) ELSE NoEntry]
  BY <1>1, Counters DEF IInv, TypeOK, Arriving
<1>4. acc' = [c \in Calls |-> IF c <= begun' THEN Arrived(c) ELSE NoEntry]
  <2>1. \A c \in Calls : c <= begun' <=> c <= begun \/ c = begun'
    BY <1>2, <1>3 DEF Calls
  <2>. QED BY <1>2, <1>3, <2>1
<1>5. TypeOK'
  <2>1. acc' \in [Calls -> Entries]
    BY <1>2, <1>3
  <2>2. \A i \in Calls : acc'[i].id \in {0, i}
    <3>1. \A i \in Calls : acc[i].id \in {0, i}
      BY <1>1, <1>3 DEF TypeOK
    <3>. QED BY <1>2, <1>3, <2>1, <3>1
  <2>3. begun' \in 0..Len(parts) /\ block' \in 0..begun'
    BY <1>1, <1>2, <1>3
  <2>. QED BY <1>1, <1>3, <2>1, <2>2, <2>3 DEF TypeOK
<1>6. Ends' /\ ErrorNeedsCause'
  BY <1>1 DEF IInv, Ends, ErrorNeedsCause
<1>7. Arriving'
  <2>1. \A c \in Calls : c > begun' => sent[c] = 0
    BY <1>2, <1>3 DEF IInv, Arriving, Calls
  <2>2. acc' = [c \in Calls |-> IF c <= begun' THEN Arrived(c)' ELSE NoEntry]
    BY <1>1, <1>4 DEF Arrived
  <2>3. chunks = 0 /\ block = 0
    BY <1>1 DEF IInv, Arriving
  <2>4. \A c \in Turn : sent[c] <= parts[c]
    BY DEF IInv, Arriving
  <2>. QED BY <1>1, <1>2, <1>3, <2>1, <2>2, <2>3, <2>4 DEF Arriving, Turn
<1>8. RunTogether' /\ Gathered' /\ HandedOver'
  BY <1>1 DEF IInv, RunTogether, Gathered, HandedOver, Arriving
<1>. QED BY <1>1, <1>5, <1>6, <1>7, <1>8, StillReading DEF IInv

LEMMA ToolCallDeltaInv == ASSUME IInv, ToolCallDelta PROVE IInv'
<1> USE DEF turnVars
<1>1. PICK c \in 1..begun :
        /\ provider = "openai" /\ pc = "read" /\ wire = "open"
        /\ AppendFragment(c)
        /\ UNCHANGED <<provider, parts, begun, block, chunks, wire, cut, stopped, broken,
                       left, pc, handed, last, cancelled>>
  BY DEF ToolCallDelta, Reading
<1>2. TypeOK /\ c \in Turn /\ c \in Calls /\ begun \in Nat
  BY <1>1, Counters, TurnTypes DEF IInv
<1>3. acc = [d \in Calls |-> IF d <= begun THEN Arrived(d) ELSE NoEntry]
  BY <1>1 DEF IInv, Arriving
<1>4. acc[c] = Arrived(c)
  BY <1>1, <1>2, <1>3
<1>5. /\ sent' = [sent EXCEPT ![c] = sent[c] + 1] /\ sent[c] < parts[c]
      /\ sent' \in [Calls -> 0..MaxParts]
      /\ acc' = [acc EXCEPT ![c] = Arrived(c)']
      /\ Arrived(c)' \in Entries /\ Arrived(c)'.id = c
      /\ \A d \in Calls \ {c} : Arrived(d)' = Arrived(d)
  BY <1>1, <1>2, <1>4, FragmentArrives
<1>6. acc' = [d \in Calls |-> IF d <= begun THEN Arrived(d)' ELSE NoEntry]
  <2>1. acc' = [d \in Calls |-> IF d = c THEN Arrived(c)' ELSE acc[d]]
    BY <1>2, <1>3, <1>5
  <2>2. ASSUME NEW d \in Calls
        PROVE  acc'[d] = IF d <= begun THEN Arrived(d)' ELSE NoEntry
    <3>1. CASE d = c
      <4>1. Arrived(d)' = Arrived(c)'
        BY <3>1 DEF Arrived
      <4>. QED BY <1>1, <1>2, <2>1, <3>1, <4>1
    <3>2. CASE d # c
      BY <1>3, <1>5, <2>1, <3>2
    <3>. QED BY <3>1, <3>2
  <2>. QED BY <2>1, <2>2
<1>7. TypeOK'
  <2>1. acc' \in [Calls -> Entries]
    BY <1>2, <1>5 DEF TypeOK
  <2>2. \A i \in Calls : acc'[i].id \in {0, i}
    <3>1. \A i \in Calls : acc[i].id \in {0, i}
      BY <1>1, <1>2 DEF TypeOK
    <3>. QED BY <1>2, <1>5, <2>1, <3>1 DEF TypeOK
  <2>. QED BY <1>1, <1>2, <1>5, <2>1, <2>2 DEF TypeOK
<1>8. Ends' /\ ErrorNeedsCause'
  BY <1>1 DEF IInv, Ends, ErrorNeedsCause
<1>9. Arriving'
  <2>1. sent \in [Calls -> 0..MaxParts]
    BY <1>2 DEF TypeOK
  <2>2. \A d \in Turn : d \in Calls /\ sent[d] \in Int /\ parts[d] \in Int
    <3>1. Turn \subseteq Calls /\ \A d \in Turn : parts[d] \in 0..MaxParts
      BY <1>2, TurnTypes
    <3>. QED BY <2>1, <3>1
  <2>3. \A d \in Turn : sent'[d] <= parts[d]
    BY <1>2, <1>5, <2>1, <2>2 DEF IInv, Arriving
  <2>4. \A d \in Calls : d > begun => sent'[d] = 0
    BY <1>1, <1>2, <1>5, <2>1 DEF IInv, Arriving, Calls
  <2>. QED BY <1>1, <1>6, <2>3, <2>4 DEF IInv, Arriving, Turn
<1>10. RunTogether' /\ Gathered' /\ HandedOver'
  BY <1>1 DEF IInv, RunTogether, Gathered, HandedOver, Arriving
<1>. QED BY <1>1, <1>7, <1>8, <1>9, <1>10, StillReading DEF IInv

LEMMA FinishToolCallsInv == ASSUME IInv, FinishToolCalls PROVE IInv'
<1> USE DEF turnVars
<1>1. /\ provider = "openai" /\ pc = "read" /\ wire = "open" /\ wire' = "last"
      /\ \A c \in 1..begun : sent[c] = parts[c]
      /\ pc' = "flush" /\ left' = {i \in Calls : acc[i] # NoEntry}
      /\ UNCHANGED <<provider, parts, begun, sent, block, chunks, cut, stopped, broken,
                     acc, handed, last, cancelled>>
  BY DEF FinishToolCalls, Reading, Flush
<1>2. /\ TypeOK /\ begun \in Nat /\ chunks = 0
      /\ acc = [c \in Calls |-> IF c <= begun THEN Arrived(c) ELSE NoEntry]
  BY <1>1, Counters DEF IInv, Arriving
<1>3. TypeOK' /\ Ends'
  BY <1>1 DEF IInv, TypeOK, Ends
<1>4. Arriving' /\ RunTogether' /\ Gathered' /\ ErrorNeedsCause'
  BY <1>1, <1>2 DEF IInv, Arriving, Arrived, Turn, RunTogether, Gathered, ErrorNeedsCause
<1>5. left' = 1..begun /\ \A i \in left' : acc[i] = Whole(i)
  <2>1. ASSUME NEW i \in Calls PROVE Arrived(i) # NoEntry
    BY <2>1 DEF Arrived, NoEntry, Calls
  <2>2. 1..begun \subseteq Turn /\ Turn \subseteq Calls
    BY <1>2, Counters, TurnTypes
  <2>3. \A i \in Calls : acc[i] # NoEntry <=> i \in 1..begun
    BY <1>2, <2>1 DEF Calls
  <2>4. ASSUME NEW i \in 1..begun PROVE acc[i] = Whole(i)
    <3>1. i \in Turn /\ i \in Calls /\ sent[i] = parts[i] /\ sent[i] <= parts[i]
      BY <1>1, <2>2 DEF IInv, Arriving
    <3>. QED BY <1>2, <3>1, ArrivedParses
  <2>. QED BY <1>1, <2>2, <2>3, <2>4
<1>6. handed' = << >> /\ Handed' = {}
  BY <1>1 DEF IInv, HandedOver, Handed
<1>7. Flushing'
  <2>1. \A i \in 1..begun : Whole(i)' = Whole(i)
    BY <1>1 DEF Whole, Fragments
  <2>. QED BY <1>1, <1>5, <1>6, <2>1 DEF Flushing
<1>8. HandedOver' /\ LossNeedsCause'
  BY <1>1 DEF HandedOver, LossNeedsCause
<1>. QED BY <1>3, <1>4, <1>7, <1>8 DEF IInv

LEMMA FinishStopInv == ASSUME IInv, FinishStop PROVE IInv'
<1> USE DEF turnVars
<1>1. /\ provider = "openai" /\ pc = "read" /\ wire = "open"
      /\ wire' = "last" /\ last' = "done" /\ stopped' = (begun > 0)
      /\ UNCHANGED <<provider, parts, begun, sent, block, chunks, cut, broken,
                     acc, left, pc, handed, cancelled>>
  BY DEF FinishStop, Reading
<1>a. stopped' \in BOOLEAN
  <2>1. (begun > 0) \in BOOLEAN
    BY Counters DEF IInv
  <2>. QED BY <1>1, <2>1, Zenon
<1>2. TypeOK' /\ Ends'
  BY <1>1, <1>a DEF IInv, TypeOK, Ends
<1>3. Arriving' /\ RunTogether' /\ Gathered'
  BY <1>1 DEF IInv, Arriving, Arrived, Turn, RunTogether, Gathered
<1>4. HandedOver'
  <2>1. handed = << >> /\ begun \in Nat
    BY <1>1, Counters DEF IInv, HandedOver
  <2>2. ~stopped' => begun = 0
    <3>1. ~stopped' => ~(begun > 0)
      BY <1>1, Zenon
    <3>. QED BY <2>1, <3>1
  <2>. QED BY <1>1, <2>1, <2>2 DEF HandedOver, Handed
<1>5. ErrorNeedsCause'
  BY <1>1 DEF ErrorNeedsCause
<1>. QED BY <1>1, <1>2, <1>3, <1>4, <1>5, StillReading DEF IInv

LEMMA FinishOtherwiseInv == ASSUME IInv, FinishOtherwise PROVE IInv'
<1> USE DEF turnVars
<1>1. /\ provider = "openai" /\ pc = "read" /\ wire = "open"
      /\ wire' = "last" /\ cut' = TRUE
      /\ UNCHANGED <<provider, parts, begun, sent, block, chunks, stopped, broken, last,
                     acc, left, pc, handed, cancelled>>
  BY DEF FinishOtherwise, Reading, clientVars
<1>2. TypeOK' /\ Ends'
  BY <1>1 DEF IInv, TypeOK, Ends
<1>3. Arriving' /\ RunTogether' /\ Gathered'
  BY <1>1 DEF IInv, Arriving, Arrived, Turn, RunTogether, Gathered
<1>4. HandedOver' /\ ErrorNeedsCause'
  BY <1>1 DEF HandedOver, ErrorNeedsCause
<1>. QED BY <1>1, <1>2, <1>3, <1>4, StillReading DEF IInv

LEMMA OpenAIEndInv == ASSUME IInv, OpenAIEnd PROVE IInv'
<1> USE DEF turnVars
<1>1. /\ provider = "openai" /\ pc = "read" /\ pc' = "closed"
      /\ last' = "done" /\ cut' = (cut \/ wire = "open")
      /\ UNCHANGED <<provider, parts, begun, sent, block, chunks, wire, stopped, broken,
                     acc, left, handed, cancelled>>
  BY DEF OpenAIEnd
<1>2. ErrorNeedsCause'
  BY <1>1 DEF ErrorNeedsCause
<1>3. LossNeedsCause'
  <2> SUFFICES ASSUME ~cut', ~stopped PROVE Handed' = 1..begun'
    BY <1>1 DEF LossNeedsCause, Handed
  <2>1. wire = "last" /\ ~cut
    BY <1>1 DEF IInv, TypeOK
  <2>. QED BY <1>1, <2>1 DEF IInv, HandedOver, Handed
<1>4. cut' \in BOOLEAN /\ broken' \in BOOLEAN /\ block' \in {0, block}
  BY <1>1 DEF IInv, TypeOK
<1>. QED BY <1>1, <1>2, <1>3, <1>4, Closing

-----------------------------------------------------------------------------
(* Ollama.                                                                   *)

\* What follows in an entry leaves its beginning alone and is its end.
LEMMA RunOn ==
  ASSUME TypeOK, NEW args \in Seq(Fragment), NEW c \in Turn
  PROVE  LET all == args \o Fragments(c)
         IN  /\ all \in Seq(Fragment)
             /\ parts[c] # 0 => /\ all # << >>
                                /\ all[Len(all)] = <<c, parts[c]>>
             /\ args # << >> => all # << >> /\ all[1] = args[1]
             /\ (\A k \in 1..Len(args) : args[k][1] <= c) =>
                  \A k \in 1..Len(all) : all[k][1] <= c
<1> DEFINE f == Fragments(c)
           all == args \o f
<1>1. /\ f \in Seq(Fragment) /\ Len(f) = parts[c] /\ parts[c] \in 0..MaxParts
      /\ \A k \in 1..parts[c] : f[k] = <<c, k>>
      /\ c \in Nat
  BY FragmentsOf, TurnTypes DEF Calls
<1> HIDE DEF f
<1>2. Len(args) \in Nat /\ (args # << >> => Len(args) > 0)
  OBVIOUS
<1>3. /\ all \in Seq(Fragment) /\ Len(all) = Len(args) + Len(f)
      /\ \A i \in 1..Len(args) + Len(f) :
           all[i] = IF i <= Len(args) THEN args[i] ELSE f[i - Len(args)]
  BY <1>1, ConcatProperties
<1> HIDE DEF all
<1>4. ASSUME parts[c] # 0 PROVE all # << >> /\ all[Len(all)] = <<c, parts[c]>>
  <2>1. /\ Len(all) \in 1..Len(args) + Len(f) /\ ~(Len(all) <= Len(args))
        /\ Len(all) # 0
    BY <1>1, <1>2, <1>3, <1>4
  <2>2. Len(all) - Len(args) = parts[c] /\ parts[c] \in 1..parts[c]
    BY <1>1, <1>2, <1>3, <1>4
  <2>. QED BY <1>1, <1>3, <2>1, <2>2
<1>5. ASSUME args # << >> PROVE all # << >> /\ all[1] = args[1]
  <2>1. Len(all) # 0
    BY <1>1, <1>2, <1>3, <1>5
  <2>. QED BY <1>1, <1>2, <1>3, <1>5, <2>1
<1>6. ASSUME \A k \in 1..Len(args) : args[k][1] <= c, NEW k \in 1..Len(all)
      PROVE  all[k][1] <= c
  <2>1. CASE k <= Len(args)
    BY <1>1, <1>2, <1>3, <1>6, <2>1
  <2>2. CASE ~(k <= Len(args))
    <3>1. k - Len(args) \in 1..parts[c]
      BY <1>1, <1>2, <1>3, <2>2
    <3>2. all[k] = <<c, k - Len(args)>>
      BY <1>1, <1>3, <2>2, <3>1
    <3>. QED BY <1>1, <3>2
  <2>. QED BY <2>1, <2>2
<1>. QED BY <1>3, <1>4, <1>5, <1>6 DEF all, f

LEMMA ToolCallChunkInv == ASSUME IInv, ToolCallChunk PROVE IInv'
<1> USE DEF turnVars
<1>1. PICK n \in 1..(Len(parts) - begun) :
        /\ provider = "ollama" /\ pc = "read" /\ wire = "open"
        /\ begun' = begun + n
        /\ acc' = [i \in Calls |->
                     IF i > n THEN acc[i]
                     ELSE [id |-> begun + i,
                           args |-> acc[i].args \o Fragments(begun + i)]]
        /\ sent' = [c \in Calls |-> IF c \in begun + 1..begun + n THEN parts[c]
                                                                 ELSE sent[c]]
        /\ chunks' = chunks + 1
        /\ UNCHANGED <<provider, parts, block, wire, cut, stopped, broken, left, pc,
                       handed, last, cancelled>>
  BY DEF ToolCallChunk, Reading
<1>2. /\ TypeOK /\ Len(parts) \in 0..MaxCalls /\ Turn = 1..Len(parts)
      /\ Turn \subseteq Calls /\ begun \in Nat /\ chunks \in Nat
      /\ begun <= Len(parts) /\ chunks <= begun /\ block = 0
      /\ handed = << >> /\ acc \in [Calls -> Entries]
      /\ sent \in [Calls -> 0..MaxParts]
  BY <1>1, Counters, TurnTypes DEF IInv, TypeOK, Arriving, HandedOver
<1>3. /\ n \in Nat \ {0} /\ begun' \in 1..Len(parts) /\ chunks' \in 1..begun'
      /\ chunks' \in 0..MaxCalls
  BY <1>1, <1>2
<1>4. \A i \in Calls : i <= n => begun + i \in Turn /\ begun + i \in Calls
  BY <1>1, <1>2, <1>3 DEF Calls
<1>5. \A i \in Calls : acc[i].args \in Seq(Fragment)
  BY <1>2 DEF Entries, Fragment
<1> DEFINE joined(at) == acc[at].args \o Fragments(begun + at)
<1>6. /\ \A i \in Calls : i <= n =>
            acc'[i] = [id |-> begun + i, args |-> joined(i)]
      /\ \A i \in Calls : ~(i <= n) => acc'[i] = acc[i]
  <2>1. \A i \in Calls : i > n <=> ~(i <= n)
    BY <1>3 DEF Calls
  <2>2. acc' = [i \in Calls |-> IF i > n THEN acc[i]
                               ELSE [id |-> begun + i, args |-> joined(i)]]
    BY <1>1
  <2> HIDE DEF joined
  <2>. QED BY <2>1, <2>2
<1>7. TypeOK'
  <2>1. acc' \in [Calls -> Entries]
    <3>1. ASSUME NEW i \in Calls, i <= n
          PROVE  [id |-> begun + i, args |-> acc[i].args \o Fragments(begun + i)]
                   \in Entries
      <4>1. acc[i].args \o Fragments(begun + i) \in Seq(Fragment)
        BY <1>2, <1>4, <1>5, <3>1, RunOn
      <4>2. begun + i \in 0..MaxCalls
        BY <1>4, <3>1 DEF Calls
      <4>. QED BY <4>1, <4>2 DEF Entries, Fragment
    <3>2. \A i \in Calls : i > n \/ i <= n
      BY <1>3 DEF Calls
    <3>. QED BY <1>1, <1>2, <3>1, <3>2
  <2>2. sent' \in [Calls -> 0..MaxParts]
    <3>1. \A c \in begun + 1..begun + n : c \in Turn
      BY <1>1, <1>2, <1>3
    <3>2. \A c \in Turn : parts[c] \in 0..MaxParts
      BY <1>2, TurnTypes
    <3>. QED BY <1>1, <1>2, <3>1, <3>2
  <2>3. begun' \in 0..Len(parts) /\ block' \in 0..begun'
    BY <1>1, <1>2, <1>3
  <2>. QED BY <1>1, <1>2, <1>3, <2>1, <2>2, <2>3 DEF TypeOK
<1>8. Ends' /\ ErrorNeedsCause'
  BY <1>1 DEF IInv, Ends, ErrorNeedsCause
<1>9. Arriving'
  <2>1. \A c \in Turn : sent'[c] <= parts[c]
    <3>1. \A c \in Turn : parts[c] \in 0..MaxParts
      BY <1>2, TurnTypes
    <3>2. \A c \in Turn : sent[c] <= parts[c]
      BY DEF IInv, Arriving
    <3>. QED BY <1>1, <1>2, <3>1, <3>2
  <2>2. \A c \in Calls : c > begun' => sent'[c] = 0
    <3>1. \A c \in Calls : c > begun => sent[c] = 0
      BY DEF IInv, Arriving
    <3>. QED BY <1>1, <1>2, <1>3, <3>1 DEF Calls
  <2>3. ASSUME chunks' <= 1
        PROVE  acc' = [c \in Calls |-> IF c <= begun' THEN Whole(c) ELSE NoEntry]
    <3>1. chunks = 0 /\ begun = 0 /\ begun' = n
      BY <1>1, <1>2, <2>3 DEF IInv, Arriving
    <3>2. \A c \in Calls : acc[c] = NoEntry
      BY <1>1, <1>2, <3>1 DEF IInv, Arriving, Calls
    <3>3. ASSUME NEW c \in Calls, c <= n
          PROVE  acc'[c] = Whole(c)
      <4>1. acc'[c] = [id |-> c, args |-> << >> \o Fragments(c)]
        <5>1. acc[c].args = << >> /\ begun + c = c
          BY <3>1, <3>2, <3>3 DEF Calls, NoEntry
        <5>2. acc'[c] = [id |-> begun + c, args |-> joined(c)]
          BY <1>6, <3>3
        <5>. QED BY <5>1, <5>2
      <4>2. Fragments(c) \in Seq(Fragment)
        BY <1>2, <1>4, <3>1, <3>3, FragmentsOf DEF Calls
      <4>3. << >> \o Fragments(c) = Fragments(c)
        BY <4>2, ConcatEmptySeq
      <4>. QED BY <4>1, <4>3 DEF Whole
    <3>4. ASSUME NEW c \in Calls, ~(c <= n)
          PROVE  acc'[c] = NoEntry
      <4> HIDE DEF joined
      <4>1. acc'[c] = acc[c]
        BY <1>6, <3>4
      <4>. QED BY <3>2, <4>1
    <3>5. ASSUME NEW c \in Calls
          PROVE  acc'[c] = IF c <= begun' THEN Whole(c) ELSE NoEntry
      BY <3>1, <3>3, <3>4
    <3>6. acc' = [c \in Calls |-> acc'[c]]
      BY <1>1
    <3>. QED BY <3>5, <3>6
  <2>4. ASSUME chunks' <= 1
        PROVE  (acc = [c \in Calls |-> IF c <= begun THEN Whole(c) ELSE NoEntry])'
    <3>1. parts' = parts
      BY <1>1
    <3>. QED BY <2>3, <2>4, <3>1 DEF Whole, Fragments
  <2>5. /\ provider' = "ollama" /\ block' = 0 /\ chunks' <= begun'
        /\ chunks' # 0 /\ Turn' = Turn /\ parts' = parts
    BY <1>1, <1>2, <1>3 DEF Turn
  <2>. QED BY <2>1, <2>2, <2>4, <2>5 DEF Arriving
<1>10. RunTogether'
  <2> SUFFICES ASSUME chunks' > 1, ~Mixed' PROVE Merged(acc[1])'
    BY <1>1, <1>2 DEF RunTogether
  <2>1. chunks >= 1 /\ begun >= 1 /\ 1 \in Turn /\ 1 \in Calls
    BY <1>1, <1>2
  <2>a. \A c \in 1..begun' : parts[c] # 0
    BY <1>1 DEF Mixed
  <2>b. 1..begun \subseteq 1..begun' /\ 1 \in 1..begun'
    BY <1>1, <1>2, <1>3, <2>1
  <2>2. acc[1].args # << >> /\ acc[1].args[1] = <<1, 1>>
    <3>1. CASE chunks = 1
      <4>1. acc[1] = Whole(1) /\ parts[1] # 0
        BY <1>1, <1>2, <2>1, <2>a, <2>b, <3>1 DEF IInv, Arriving
      <4>. QED BY <1>2, <2>1, <4>1, FragmentsOf DEF Whole
    <3>2. CASE chunks > 1
      <4>1. ~Mixed
        BY <2>a, <2>b DEF Mixed
      <4>. QED BY <3>2, <4>1 DEF IInv, RunTogether, Merged
    <3>. QED BY <1>2, <2>1, <3>1, <3>2
  <2>3. acc'[1].id = begun + 1 /\ acc'[1].args = joined(1)
    <3>1. 1 <= n /\ 1 \in Calls
      BY <1>3, <2>1
    <3> HIDE DEF joined
    <3>2. acc'[1] = [id |-> begun + 1, args |-> joined(1)]
      BY <1>6, <3>1
    <3>. QED BY <3>2
  <2>4. begun + 1 \in Turn /\ begun + 1 \in 2..begun'
    BY <1>1, <1>2, <1>3, <1>4, <2>1
  <2>5. /\ acc'[1].args # << >> /\ acc'[1].args[1] = <<1, 1>>
        /\ acc'[1].args[Len(acc'[1].args)] = <<begun + 1, parts[begun + 1]>>
    <3>1. acc[1].args \in Seq(Fragment)
      BY <1>5, <2>1
    <3>2. parts[begun + 1] # 0
      BY <1>3, <2>4, <2>a
    <3>3. /\ joined(1) # << >> /\ joined(1)[1] = <<1, 1>>
          /\ joined(1)[Len(joined(1))] = <<begun + 1, parts[begun + 1]>>
      BY <1>2, <2>2, <2>4, <3>1, <3>2, RunOn
    <3> HIDE DEF joined
    <3>. QED BY <2>3, <3>3
  <2>. QED BY <1>1, <2>3, <2>4, <2>5 DEF Merged
<1>11. HandedOver'
  BY <1>1, <1>2 DEF HandedOver
<1>12. Gathered'
  <2>1. /\ \A i \in Calls : acc[i] # NoEntry => acc[i].id \in 1..begun
        /\ \A i \in Calls : \A k \in 1..Len(acc[i].args) :
             acc[i].args[k][1] <= acc[i].id
        /\ \A i \in Calls :
             acc[i] # NoEntry /\ acc[i].args = << >> => parts[acc[i].id] = 0
        /\ \A i, j \in Calls :
             i # j /\ acc[i] # NoEntry /\ acc[j] # NoEntry => acc[i].id # acc[j].id
    BY <1>1 DEF IInv, Gathered
  <2>2. ASSUME NEW i \in Calls, i <= n
        PROVE  /\ begun + i \in 1..begun' /\ begun + i \notin 1..begun
               /\ acc'[i].id = begun + i
               /\ \A k \in 1..Len(acc'[i].args) : acc'[i].args[k][1] <= begun + i
               /\ acc'[i].args = << >> => parts[begun + i] = 0
    <3>1. begun + i \in 1..begun' /\ begun + i \notin 1..begun /\ begun + i \in Turn
      BY <1>1, <1>2, <1>3, <1>4, <2>2 DEF Calls
    <3>2. acc[i].args \in Seq(Fragment)
      BY <1>5
    <3>3. \A k \in 1..Len(acc[i].args) : acc[i].args[k][1] <= begun + i
      <4>1. CASE acc[i] = NoEntry
        BY <4>1 DEF NoEntry
      <4>2. CASE acc[i] # NoEntry
        <5>1. acc[i].id \in 1..begun /\ acc[i].id < begun + i
          BY <1>2, <2>1, <2>2, <4>2 DEF Calls
        <5>2. \A k \in 1..Len(acc[i].args) : acc[i].args[k] \in Calls \X Nat
          BY <3>2 DEF Fragment
        <5>3. ASSUME NEW k \in 1..Len(acc[i].args)
              PROVE  acc[i].args[k][1] <= begun + i
          <6>1. acc[i].args[k][1] <= acc[i].id
            BY <2>1
          <6>2. acc[i].args[k][1] \in Int
            BY <5>2 DEF Calls
          <6>3. acc[i].id \in Int /\ begun + i \in Int
            BY <1>2, <5>1 DEF Calls
          <6>. QED BY <5>1, <6>1, <6>2, <6>3, BelowLess
        <5>. QED BY <5>3
      <4>. QED BY <4>1, <4>2
    <3>4. /\ \A k \in 1..Len(joined(i)) : joined(i)[k][1] <= begun + i
          /\ parts[begun + i] # 0 => joined(i) # << >>
      BY <1>2, <3>1, <3>2, <3>3, RunOn
    <3> HIDE DEF joined
    <3>5. acc'[i] = [id |-> begun + i, args |-> joined(i)]
      BY <1>6, <2>2
    <3>. QED BY <3>1, <3>4, <3>5
  <2>3. ASSUME NEW i \in Calls, ~(i <= n) PROVE acc'[i] = acc[i]
    <3> HIDE DEF joined
    <3>. QED BY <1>6, <2>3
  <2>4. 1..begun \subseteq 1..begun'
    BY <1>1, <1>2, <1>3
  <2>5. ASSUME NEW i \in Calls
        PROVE  /\ acc'[i] # NoEntry => acc'[i].id \in 1..begun'
               /\ \A k \in 1..Len(acc'[i].args) : acc'[i].args[k][1] <= acc'[i].id
               /\ acc'[i] # NoEntry /\ acc'[i].args = << >> => parts[acc'[i].id] = 0
    <3>1. CASE i <= n
      BY <2>2, <3>1
    <3>2. CASE ~(i <= n)
      BY <2>1, <2>3, <2>4, <3>2
    <3>. QED BY <3>1, <3>2
  <2>6. ASSUME NEW i \in Calls, NEW j \in Calls, i # j,
               acc'[i] # NoEntry, acc'[j] # NoEntry
        PROVE  acc'[i].id # acc'[j].id
    <3>1. CASE i <= n /\ j <= n
      <4>1. acc'[i].id = begun + i /\ acc'[j].id = begun + j
        BY <2>2, <3>1
      <4>. QED BY <1>2, <2>6, <4>1 DEF Calls
    <3>2. CASE i <= n /\ ~(j <= n)
      <4>1. acc'[i].id \notin 1..begun
        BY <2>2, <3>2
      <4>2. acc'[j].id \in 1..begun
        BY <2>1, <2>3, <2>6, <3>2
      <4>. QED BY <4>1, <4>2
    <3>3. CASE ~(i <= n) /\ j <= n
      <4>1. acc'[j].id \notin 1..begun
        BY <2>2, <3>3
      <4>2. acc'[i].id \in 1..begun
        BY <2>1, <2>3, <2>6, <3>3
      <4>. QED BY <4>1, <4>2
    <3>4. CASE ~(i <= n) /\ ~(j <= n)
      <4>1. acc'[i] = acc[i] /\ acc'[j] = acc[j]
        BY <2>3, <3>4
      <4>. QED BY <2>1, <2>6, <4>1
    <3>. QED BY <3>1, <3>2, <3>3, <3>4
  <2>. QED BY <1>1, <2>5, <2>6 DEF Gathered
<1>. QED BY <1>1, <1>7, <1>8, <1>9, <1>10, <1>11, <1>12, StillReading DEF IInv

\* Everything that came in one chunk is flushed.
LEMMA OllamaEndInv == ASSUME IInv, OllamaEnd PROVE IInv'
<1> USE DEF turnVars
<1>1. /\ provider = "ollama" /\ pc = "read" /\ wire = "open" /\ wire' = "last"
      /\ pc' = "flush" /\ left' = {i \in Calls : acc[i] # NoEntry}
      /\ UNCHANGED <<provider, parts, begun, sent, block, chunks, cut, stopped, broken,
                     acc, handed, last, cancelled>>
  BY DEF OllamaEnd, Reading, Flush
<1>2. TypeOK /\ begun \in Nat /\ chunks \in Nat /\ handed = << >> /\ Handed = {}
  BY <1>1, Counters DEF IInv, HandedOver, Handed
<1>3. TypeOK' /\ Ends'
  BY <1>1 DEF IInv, TypeOK, Ends
<1>4. Arriving' /\ ErrorNeedsCause'
  BY <1>1 DEF IInv, Arriving, Arrived, Whole, Fragments, Turn, ErrorNeedsCause
<1>5. Flushing'
  <2> SUFFICES ASSUME chunks <= 1
               PROVE  /\ left' = 1..begun /\ Handed' = {}
                      /\ \A i \in 1..begun : acc'[i] = Whole(i)'
    BY <1>1 DEF Flushing
  <2>1. acc = [c \in Calls |-> IF c <= begun THEN Whole(c) ELSE NoEntry]
    BY <1>1 DEF IInv, Arriving
  <2>2. \A c \in Calls : Whole(c) # NoEntry
    BY DEF Whole, NoEntry, Calls
  <2>3. 1..begun \subseteq Calls
    BY <1>2, Counters, TurnTypes
  <2>4. \A i \in Calls : acc[i] # NoEntry <=> i \in 1..begun
    BY <1>2, <2>1, <2>2 DEF Calls
  <2>5. \A i \in 1..begun : acc[i] = Whole(i)
    BY <1>2, <2>1, <2>3
  <2>6. \A i \in 1..begun : Whole(i)' = Whole(i)
    BY <1>1 DEF Whole, Fragments
  <2>. QED BY <1>1, <1>2, <2>3, <2>4, <2>5, <2>6 DEF Handed
<1>6. RunTogether'
  <2> SUFFICES ASSUME chunks > 1, ~Mixed PROVE 1 \in left' /\ Merged(acc[1])'
    BY <1>1, <1>2 DEF RunTogether, Mixed
  <2>1. Merged(acc[1])
    BY DEF IInv, RunTogether
  <2>2. 1 \in Calls
    BY <1>2, Counters, TurnTypes DEF IInv, Arriving
  <2>3. acc[1] # NoEntry
    BY <2>1 DEF Merged, NoEntry
  <2>. QED BY <1>1, <2>1, <2>2, <2>3 DEF Merged
<1>7. HandedOver' /\ LossNeedsCause'
  BY <1>1 DEF HandedOver, LossNeedsCause
<1>8. Gathered'
  BY <1>1, <1>2 DEF IInv, Gathered, Handed
<1>. QED BY <1>3, <1>4, <1>5, <1>6, <1>7, <1>8 DEF IInv

-----------------------------------------------------------------------------
(* Flushing, errors and cancellation.                                        *)

First == CHOOSE i \in left : \A k \in left : i <= k

\* The next entry to flush is a whole call, after all that were handed over;
\* unless Ollama's chunks are run together, and then it is the one that fails;
\* unless they are mixed.
LEMMA FirstLeft ==
  ASSUME IInv, pc = "flush", left # {}
  PROVE  /\ First \in left /\ acc[First] \in Entries
         /\ chunks > 1 /\ ~Mixed => ~Parses(acc[First].args)
         /\ chunks <= 1 => /\ First \in Turn /\ acc[First] = Whole(First)
                           /\ Parses(acc[First].args)
                           /\ \A a \in Handed : a < First
                           /\ \A k \in left \ {First} : First < k
<1>1. /\ TypeOK /\ left \subseteq Calls /\ chunks \in Nat
      /\ acc \in [Calls -> Entries]
  BY Counters DEF IInv, TypeOK
<1>2. First \in left /\ \A k \in left : First <= k
  <2>1. left \subseteq Nat
    BY <1>1 DEF Calls
  <2>2. \E m \in left : \A k \in left : m <= k
    BY <2>1, LeastNatural
  <2>. QED BY <2>2 DEF First
<1>3. First \in Calls /\ acc[First] \in Entries
  BY <1>1, <1>2
<1>4. ASSUME chunks > 1, ~Mixed PROVE ~Parses(acc[First].args)
  <2>1. Merged(acc[1]) /\ 1 \in left
    BY <1>4 DEF IInv, RunTogether
  <2>2. First = 1
    BY <1>2, <1>3, <2>1 DEF Calls
  <2>. QED BY <1>1, <1>3, <2>1, <2>2, MergedFails
<1>5. ASSUME chunks <= 1
      PROVE  /\ First \in Turn /\ acc[First] = Whole(First)
             /\ Parses(acc[First].args) /\ \A a \in Handed : a < First
             /\ \A k \in left \ {First} : First < k
  <2>1. /\ left \subseteq 1..begun /\ acc[First] = Whole(First)
        /\ \A a \in Handed : a < First
    BY <1>2, <1>5 DEF IInv, Flushing
  <2>2. First \in Turn
    BY <1>1, <1>2, <2>1, Counters
  <2>3. \A k \in left \ {First} : First < k
    BY <1>1, <1>2, <1>3 DEF Calls
  <2>. QED BY <2>1, <2>2, <2>3 DEF Parses, Whole
<1>. QED BY <1>1, <1>2, <1>3, <1>4, <1>5

LEMMA FlushCallInv == ASSUME IInv, FlushCall PROVE IInv'
<1> USE DEF turnVars, wireVars
<1>1. /\ pc = "flush" /\ left # {}
      /\ IF Parses(acc[First].args)
         THEN /\ Emit(acc[First]) /\ left' = left \ {First}
              /\ UNCHANGED <<acc, pc, last>>
         ELSE Fail
      /\ UNCHANGED <<provider, parts, begun, sent, block, chunks, wire, cut,
                     stopped, broken, cancelled>>
  BY DEF FlushCall, First
<1>2. /\ TypeOK /\ left \subseteq Calls /\ begun \in Nat /\ chunks \in Nat
      /\ provider # "ollama" => chunks = 0
  BY Counters DEF IInv, TypeOK, Arriving
<1>3. /\ First \in left /\ acc[First] \in Entries
      /\ chunks > 1 /\ ~Mixed => ~Parses(acc[First].args)
      /\ chunks <= 1 => /\ acc[First] = Whole(First) /\ Parses(acc[First].args)
                        /\ \A a \in Handed : a < First
                        /\ \A k \in left \ {First} : First < k
  BY <1>1, FirstLeft
<1>4. CASE Parses(acc[First].args)
  <2>1. Emit(acc[First]) /\ left' = left \ {First} /\ UNCHANGED <<acc, pc, last>>
    BY <1>1, <1>4
  <2>2. handed' \in Seq(Entries) /\ Handed' = Handed \cup {acc[First].id}
    BY <1>2, <1>3, <2>1, HandedGrows
  <2>3. TypeOK'
    BY <1>1, <1>2, <2>1, <2>2 DEF TypeOK
  <2>4. Ends' /\ ErrorNeedsCause'
    BY <1>1, <2>1 DEF IInv, Ends, ErrorNeedsCause
  <2>5. Arriving'
    BY <1>1, <2>1 DEF IInv, Arriving, Arrived, Whole, Fragments, Turn
  <2>6. HandedOver' /\ LossNeedsCause'
    BY <1>1, <2>1 DEF HandedOver, LossNeedsCause
  <2>7. RunTogether'
    <3>1. ~(chunks > 1 /\ ~Mixed)
      BY <1>3, <1>4
    <3>. QED BY <1>1, <3>1 DEF RunTogether, Mixed
  <2>8. Gathered'
    <3> SUFFICES ASSUME provider = "ollama" PROVE Gathered'
      BY <1>1 DEF Gathered
    <3>1. /\ \A i \in Calls :
               /\ acc[i] # NoEntry => acc[i].id \in 1..begun
               /\ \A k \in 1..Len(acc[i].args) : acc[i].args[k][1] <= acc[i].id
               /\ acc[i] # NoEntry /\ acc[i].args = << >> => parts[acc[i].id] = 0
          /\ \A i, j \in Calls :
               i # j /\ acc[i] # NoEntry /\ acc[j] # NoEntry => acc[i].id # acc[j].id
          /\ \A i \in left : acc[i] # NoEntry /\ acc[i].id \notin Handed
      BY <1>1 DEF IInv, Gathered
    <3>2. \A i \in left' : acc[i] # NoEntry /\ acc[i].id \notin Handed'
      BY <1>2, <1>3, <2>1, <2>2, <3>1
    <3>. QED BY <1>1, <2>1, <3>1, <3>2 DEF Gathered
  <2>9. Flushing'
    <3> SUFFICES ASSUME chunks <= 1 PROVE Flushing'
      BY <1>1 DEF Flushing
    <3>1. /\ left \subseteq 1..begun /\ \A k \in left : acc[k] = Whole(k)
          /\ Handed = (1..begun) \ left /\ \A a \in Handed, b \in left : a < b
      BY <1>1 DEF IInv, Flushing
    <3>2. Handed' = Handed \cup {First}
      BY <1>3, <2>2 DEF Whole
    <3>3. Handed' = (1..begun) \ left'
      BY <1>3, <2>1, <3>1, <3>2
    <3>4. \A a \in Handed', b \in left' : a < b
      BY <1>3, <2>1, <3>1, <3>2
    <3>5. \A k \in left' : acc'[k] = Whole(k) /\ Whole(k)' = Whole(k)
      BY <1>1, <2>1, <3>1 DEF Whole, Fragments
    <3>. QED BY <1>1, <2>1, <3>1, <3>3, <3>4, <3>5 DEF Flushing
  <2>. QED BY <2>3, <2>4, <2>5, <2>6, <2>7, <2>8, <2>9 DEF IInv
<1>5. CASE ~Parses(acc[First].args)
  <2>1. last' = "error" /\ pc' = "closed" /\ UNCHANGED <<acc, left, handed>>
    BY <1>1, <1>5 DEF Fail
  <2>2. chunks > 1
    BY <1>2, <1>3, <1>5
  <2>3. LossNeedsCause' /\ ErrorNeedsCause'
    BY <1>1, <2>1, <2>2 DEF LossNeedsCause, ErrorNeedsCause
  <2>4. cut' \in BOOLEAN /\ broken' \in BOOLEAN /\ block' \in {0, block}
    BY <1>1, <1>2 DEF TypeOK
  <2>. QED BY <1>1, <2>1, <2>3, <2>4, Closing
<1>. QED BY <1>4, <1>5

LEMMA FlushDoneInv == ASSUME IInv, FlushDone PROVE IInv'
<1> USE DEF turnVars, wireVars
<1>1. /\ pc = "flush" /\ left = {} /\ last' = "done"
      /\ pc' = IF provider = "ollama" THEN "closed" ELSE "read"
      /\ UNCHANGED <<provider, parts, begun, sent, block, chunks, wire, cut,
                     stopped, broken, acc, left, handed, cancelled>>
  BY DEF FlushDone
<1>2. /\ TypeOK /\ begun \in Nat /\ chunks \in Nat
      /\ provider \in {"openai", "ollama"} /\ wire = "last"
  BY <1>1, Counters DEF IInv, TypeOK, Ends, Providers
<1>3. ~Mixed => Handed = 1..begun
  <2> SUFFICES ASSUME ~Mixed PROVE Handed = 1..begun
    OBVIOUS
  <2>1. chunks <= 1
    BY <1>1, <1>2 DEF IInv, RunTogether
  <2>. QED BY <1>1, <2>1 DEF IInv, Flushing
<1>4. LossNeedsCause' /\ ErrorNeedsCause'
  BY <1>1, <1>3 DEF LossNeedsCause, Mixed, ErrorNeedsCause, Handed
<1>5. CASE provider = "ollama"
  <2>1. cut' \in BOOLEAN /\ broken' \in BOOLEAN /\ block' \in {0, block}
    BY <1>1, <1>2 DEF TypeOK
  <2>. QED BY <1>1, <1>4, <1>5, <2>1, Closing
<1>6. CASE provider = "openai"
  <2>1. TypeOK' /\ Ends'
    BY <1>1, <1>2, <1>6 DEF TypeOK, Ends
  <2>2. Arriving' /\ RunTogether' /\ Gathered'
    BY <1>1, <1>6 DEF IInv, Arriving, Arrived, Whole, Fragments, Turn,
       RunTogether, Gathered
  <2>3. ~Mixed
    BY <1>2, <1>6 DEF IInv, Arriving, Mixed
  <2>4. Flushing' /\ HandedOver'
    BY <1>1, <1>2, <1>3, <1>6, <2>3 DEF Flushing, HandedOver, Handed
  <2>. QED BY <1>4, <2>1, <2>2, <2>4 DEF IInv
<1>. QED BY <1>2, <1>5, <1>6

LEMMA StreamErrorInv == ASSUME IInv, StreamError PROVE IInv'
<1> USE DEF turnVars
<1>1. /\ last' = "error" /\ pc' = "closed" /\ broken' = TRUE
      /\ UNCHANGED <<provider, parts, begun, sent, block, chunks, wire, cut,
                     stopped, acc, left, handed, cancelled>>
  BY DEF StreamError, Fail
<1>2. LossNeedsCause' /\ ErrorNeedsCause'
  BY <1>1 DEF LossNeedsCause, ErrorNeedsCause
<1>3. cut' \in BOOLEAN /\ broken' \in BOOLEAN /\ block' \in {0, block}
  BY <1>1 DEF IInv, TypeOK
<1>. QED BY <1>1, <1>2, <1>3, Closing

LEMMA GiveUpInv == ASSUME IInv, GiveUp PROVE IInv'
<1> USE DEF turnVars, wireVars
<1>1. /\ cancelled /\ pc' = "closed" /\ last' \in {last, "error"}
      /\ UNCHANGED <<provider, parts, begun, sent, block, chunks, wire, cut,
                     stopped, broken, acc, left, handed, cancelled>>
  BY DEF GiveUp
<1>2. LossNeedsCause' /\ ErrorNeedsCause'
  BY <1>1 DEF LossNeedsCause, ErrorNeedsCause
<1>3. /\ cut' \in BOOLEAN /\ broken' \in BOOLEAN /\ block' \in {0, block}
      /\ last' \in {"none", "done", "error"}
  BY <1>1 DEF IInv, TypeOK
<1>. QED BY <1>1, <1>2, <1>3, Closing

\* The context's end is seen by nobody yet.
LEMMA CancelInv == ASSUME IInv, Cancel PROVE IInv'
<1>1. /\ cancelled' = TRUE
      /\ UNCHANGED <<provider, parts, begun, sent, block, chunks, wire, cut,
                     stopped, broken, acc, left, pc, handed, last>>
  BY DEF Cancel, turnVars, wireVars, clientVars
<1>2. TypeOK' /\ Ends' /\ LossNeedsCause' /\ ErrorNeedsCause'
  BY <1>1 DEF IInv, TypeOK, Ends, LossNeedsCause, Mixed, ErrorNeedsCause
<1>3. Arriving' /\ RunTogether' /\ Gathered'
  BY <1>1 DEF IInv, Arriving, Arrived, Whole, Fragments, Turn, RunTogether, Merged,
     Mixed, Gathered, Handed
<1>4. Flushing' /\ HandedOver'
  BY <1>1 DEF IInv, Flushing, HandedOver, Handed, Whole, Fragments
<1>. QED BY <1>2, <1>3, <1>4 DEF IInv

-----------------------------------------------------------------------------
(* The invariant holds.                                                      *)

LEMMA NextIInv == IInv /\ [Next]_vars => IInv'
<1> SUFFICES ASSUME IInv, [Next]_vars PROVE IInv'
  OBVIOUS
<1>1. CASE UNCHANGED vars
  <2>1. UNCHANGED <<provider, parts, begun, sent, block, chunks, wire, cut,
                    stopped, broken, acc, left, pc, handed, last, cancelled>>
    BY <1>1 DEF vars, turnVars, wireVars, clientVars
  <2>2. TypeOK' /\ Ends' /\ LossNeedsCause' /\ ErrorNeedsCause'
    BY <2>1 DEF IInv, TypeOK, Ends, LossNeedsCause, Mixed, ErrorNeedsCause
  <2>3. Arriving' /\ RunTogether' /\ Gathered'
    BY <2>1 DEF IInv, Arriving, Arrived, Whole, Fragments, Turn, RunTogether, Merged,
       Mixed, Gathered, Handed
  <2>4. Flushing' /\ HandedOver'
    BY <2>1 DEF IInv, Flushing, HandedOver, Handed, Whole, Fragments
  <2>. QED BY <2>2, <2>3, <2>4 DEF IInv
<1>2. CASE AnthropicStep
  BY <1>2, ContentBlockStartInv, ContentBlockDeltaInv, ContentBlockStopInv,
     MessageStopInv, AnthropicEndInv DEF AnthropicStep
<1>3. CASE OpenAIStep
  BY <1>3, ToolCallBeginsInv, ToolCallDeltaInv, FinishToolCallsInv,
     FinishStopInv, FinishOtherwiseInv, OpenAIEndInv DEF OpenAIStep
<1>4. CASE OllamaStep
  BY <1>4, ToolCallChunkInv, OllamaEndInv DEF OllamaStep
<1>. QED BY <1>1, <1>2, <1>3, <1>4, FlushCallInv, FlushDoneInv, StreamErrorInv,
            CancelInv, GiveUpInv DEF Next

LEMMA Invariance == Spec => []IInv
BY InitIInv, NextIInv, PTL DEF Spec

\* Entries keep their places, and Anthropic's client keeps none but the open
\* block's.
THEOREM TypeCorrect == Spec => []TypeOK
<1>1. IInv => TypeOK
  BY DEF IInv
<1>. QED BY <1>1, Invariance, PTL

\* When a turn has come to its end without an error, a call that had begun to
\* arrive and was not handed over has one of four causes: the stream was cut
\* short, the context ended, OpenAI's model said "stop" after calls, or Ollama's
\* chunks mixed.
THEOREM LossesHaveCauses == Spec => []LossNeedsCause
<1>1. IInv => LossNeedsCause
  BY DEF IInv
<1>. QED BY <1>1, Invariance, PTL

\* The clients report an error only when the stream was broken or cut short,
\* the request cancelled, or Ollama's calls came in more than one chunk.
THEOREM ErrorsHaveCauses == Spec => []ErrorNeedsCause
<1>1. IInv => ErrorNeedsCause
  BY DEF IInv
<1>. QED BY <1>1, Invariance, PTL

-----------------------------------------------------------------------------
(* The refinement.                                                           *)

Offered == [c \in Turn |-> [id |-> c, args |-> Fragments(c)]]
State   == CASE last = "error"                   -> "failed"
             [] last # "error" /\ pc = "closed"  -> "closed"
             [] last = "done" /\ pc # "closed"   -> "done"
             [] last = "none" /\ pc # "closed"   -> "open"

\* The turn is one ModelTurn allows.
LEMMA OfferedTurn ==
  ASSUME TypeOK
  PROVE  /\ Offered \in Seq([id : Nat, args : Seq(Nat \X Nat)])
         /\ Len(Offered) = Len(parts) /\ Turn = 1..Len(parts)
         /\ \A c \in Turn : Offered[c] = Whole(c)
<1>1. Len(parts) \in Nat /\ Turn = 1..Len(parts)
  BY Counters
<1>2. ASSUME NEW c \in Turn
      PROVE  [id |-> c, args |-> Fragments(c)] \in [id : Nat, args : Seq(Nat \X Nat)]
  <2>1. parts[c] \in Nat /\ c \in Nat
    BY <1>1, TurnTypes
  <2>2. [k \in 1..parts[c] |-> <<c, k>>] \in [1..parts[c] -> Nat \X Nat]
    BY <2>1
  <2>3. Fragments(c) \in Seq(Nat \X Nat)
    BY <2>1, <2>2 DEF Fragments
  <2>. QED BY <2>1, <2>3
<1> DEFINE call == [id : Nat, args : Seq(Nat \X Nat)]
<1>3. Offered \in [1..Len(parts) -> call]
  BY <1>1, <1>2 DEF Offered
<1>4. Offered \in Seq(call) /\ Len(Offered) = Len(parts)
  <2> HIDE DEF call
  <2>. QED BY <1>1, <1>3
<1>5. \A c \in Turn : Offered[c] = Whole(c)
  BY DEF Offered, Whole
<1>. QED BY <1>1, <1>4, <1>5

\* What the model may do to the stream at any step.
LEMMA CutAndMixed ==
  ASSUME IInv, [Next]_vars
  PROVE  cut' \in {cut, TRUE} /\ Mixed' \in {Mixed, TRUE} /\ UNCHANGED Offered
<1> USE DEF turnVars, wireVars, clientVars
<1>1. TypeOK /\ TypeOK' /\ begun \in Nat /\ chunks \in Nat
  BY NextIInv, Counters DEF IInv
<1>2. UNCHANGED parts
  BY DEF Next, AnthropicStep, ContentBlockStart, ContentBlockDelta,
     ContentBlockStop, MessageStop, AnthropicEnd, OpenAIStep, ToolCallBegins,
     ToolCallDelta, FinishToolCalls, FinishStop, FinishOtherwise, OpenAIEnd,
     OllamaStep, ToolCallChunk, OllamaEnd, FlushCall, FlushDone, StreamError,
     Cancel, GiveUp, vars
<1>3. cut' \in {cut, TRUE}
  <2>1. cut \in BOOLEAN /\ cut' \in BOOLEAN /\ (cut => cut')
    BY <1>1 DEF TypeOK, Next, AnthropicStep, ContentBlockStart,
       ContentBlockDelta, ContentBlockStop, MessageStop, AnthropicEnd,
       OpenAIStep, ToolCallBegins, ToolCallDelta, FinishToolCalls, FinishStop,
       FinishOtherwise, OpenAIEnd, OllamaStep, ToolCallChunk, OllamaEnd,
       FlushCall, FlushDone, StreamError, Cancel, GiveUp, vars
  <2>. QED BY <2>1
<1>4. /\ begun' = begun \/ (\E n \in Nat : begun' = begun + n)
      /\ chunks' = chunks \/ chunks' = chunks + 1
  <2>1. CASE ToolCallChunk
    <3>1. PICK n \in 1..(Len(parts) - begun) : begun' = begun + n
      BY <2>1 DEF ToolCallChunk
    <3>. QED BY <1>1, <2>1, <3>1, Counters DEF ToolCallChunk
  <2>2. CASE ~ToolCallChunk
    <3>1. chunks' = chunks /\ (begun' = begun \/ begun' = begun + 1)
      BY <2>2 DEF Next, AnthropicStep, BeginCall, ContentBlockStart,
         ContentBlockDelta, ContentBlockStop, MessageStop, AnthropicEnd,
         OpenAIStep, ToolCallBegins, ToolCallDelta, FinishToolCalls, FinishStop,
         FinishOtherwise, OpenAIEnd, OllamaStep, OllamaEnd, FlushCall,
         FlushDone, StreamError, Cancel, GiveUp, vars
    <3>. QED BY <1>1, <3>1
  <2>. QED BY <2>1, <2>2
<1>5. Mixed => Mixed'
  <2>1. 1..begun \subseteq 1..begun' /\ (chunks > 1 => chunks' > 1)
    BY <1>1, <1>4
  <2>. QED BY <1>2, <2>1 DEF Mixed
<1>. QED BY <1>2, <1>3, <1>5 DEF Mixed, Offered, Turn, Fragments

\* A call that is handed over is the whole of one the model made, or what is
\* left of one that was cut off, and comes after all that were handed over.
LEMMA HandOverMaps ==
  ASSUME TypeOK, pc # "closed", last = "none", UNCHANGED <<parts, pc, last>>,
         NEW c \in Turn, \A a \in Handed : a < c,
         NEW entry \in Entries,
         \/ entry = Whole(c)
         \/ entry = [id |-> c, args |-> << >>] /\ cut',
         Emit(entry)
  PROVE  Contract!HandOver
<1>1. /\ Len(Offered) = Len(parts) /\ Turn = 1..Len(parts)
      /\ Offered[c] = Whole(c)
  BY OfferedTurn
<1>2. State = "open" /\ UNCHANGED <<Offered, State>>
  BY DEF State, Offered, Turn, Fragments
<1>3. \A k \in 1..Len(handed) : handed[k].id < Offered[c].id
  BY <1>1 DEF Handed, Whole
<1>4. \/ entry = Offered[c]
      \/ cut' /\ entry = Contract!Bare(Offered[c])
  BY <1>1 DEF Whole, Contract!Bare
<1>5. handed' = Append(handed, entry) /\ c \in 1..Len(Offered)
  BY <1>1 DEF Emit
<1>. QED BY <1>2, <1>3, <1>4, <1>5 DEF Contract!HandOver, Offered, State

\* Where chunks are mixed, the call is one that was not handed over, and its
\* arguments are its own or an earlier call's.
LEMMA HandOverMixedMaps ==
  ASSUME IInv, FlushCall, Parses(acc[First].args), chunks > 1
  PROVE  Contract!HandOverMixed
<1> USE DEF turnVars, wireVars
<1>1. /\ pc = "flush" /\ left # {} /\ Emit(acc[First])
      /\ UNCHANGED <<parts, begun, chunks, cut, pc, last>>
  BY DEF FlushCall, First
<1>a. TypeOK /\ begun \in Nat /\ 1..begun \subseteq Turn
  BY Counters DEF IInv
<1>b. provider = "ollama" /\ left \subseteq Calls
  BY DEF IInv, TypeOK, Arriving
<1>2. /\ TypeOK /\ begun \in Nat /\ 1..begun \subseteq Turn
      /\ provider = "ollama" /\ left \subseteq Calls
  BY <1>a, <1>b
<1>3. First \in left /\ acc[First] \in Entries /\ Mixed
  BY <1>1, FirstLeft
<1>4. /\ acc[First].id \in 1..begun /\ acc[First].id \notin Handed
      /\ \A k \in 1..Len(acc[First].args) :
           acc[First].args[k][1] <= acc[First].id
      /\ acc[First].args = << >> => parts[acc[First].id] = 0
  BY <1>1, <1>2, <1>3 DEF IInv, Gathered
<1>5. PICK c \in Turn : acc[First].id = c
  BY <1>2, <1>4
<1>6. PICK b \in 1..c : b \in Turn /\ acc[First].args = Fragments(b)
  <2>1. c \in Nat /\ c \in 1..c
    BY <1>2, <1>4, <1>5
  <2>2. CASE acc[First].args = << >>
    <3>1. Fragments(c) = << >>
      BY <1>2, <1>4, <1>5, <2>2, FragmentsOf
    <3>. QED BY <2>1, <2>2, <3>1
  <2>3. CASE acc[First].args # << >>
    <3>1. PICK d \in Turn : acc[First].args = Fragments(d)
      BY <2>3 DEF Parses
    <3>2. /\ Fragments(d)[1] = <<d, 1>> /\ Len(Fragments(d)) = parts[d]
          /\ parts[d] \in Nat /\ parts[d] # 0 /\ d \in 1..Len(parts)
      BY <1>2, <2>3, <3>1, FragmentsOf, TurnTypes
    <3>3. d <= c
      BY <1>4, <1>5, <3>1, <3>2
    <3>. QED BY <1>2, <2>1, <3>1, <3>2, <3>3
  <2>. QED BY <2>2, <2>3
<1>7. acc[First] = [Whole(c) EXCEPT !.args = Whole(b).args]
  BY <1>3, <1>5, <1>6 DEF Entries, Whole
<1>8. /\ Len(Offered) = Len(parts) /\ Turn = 1..Len(parts)
      /\ Offered[c] = Whole(c) /\ Offered[b] = Whole(b)
  BY <1>2, <1>6, OfferedTurn
<1>9. State = "open" /\ UNCHANGED State
  BY <1>1 DEF IInv, Ends, State
<1>10. \A k \in 1..Len(handed) : handed[k].id # Offered[c].id
  BY <1>4, <1>5, <1>8 DEF Handed, Whole
<1>11. handed' = Append(handed, [Offered[c] EXCEPT !.args = Offered[b].args])
  BY <1>1, <1>7, <1>8 DEF Emit
<1>. QED BY <1>3, <1>8, <1>9, <1>10, <1>11 DEF Contract!HandOverMixed, Offered, State

\* Steps that hand over nothing announce an end, once, or go unnoticed.
LEMMA EndMaps ==
  ASSUME TypeOK, Ends, TypeOK', Ends', UNCHANGED <<parts, handed>>,
         pc = "closed" => UNCHANGED <<pc, last>>, last = "done" => last' # "none"
  PROVE  Contract!Done \/ Contract!Fail \/ Contract!Close \/ Contract!Arrive
<1>2. \/ State' = State
      \/ State = "open" /\ State' = "done"
      \/ State \in {"open", "done"} /\ State' \in {"failed", "closed"}
  BY DEF State, TypeOK, Ends
<1>. QED BY <1>2 DEF Contract!Done, Contract!Fail, Contract!Close,
            Contract!Arrive, State

LEMMA StepsMap ==
  IInv /\ [Next]_vars => Contract!Next
<1> SUFFICES ASSUME IInv, [Next]_vars PROVE Contract!Next
  OBVIOUS
<1> USE DEF turnVars, wireVars, clientVars
<1>1. TypeOK /\ Ends /\ TypeOK' /\ Ends'
  BY NextIInv DEF IInv
<1> DEFINE Goal == \/ Contract!HandOver \/ Contract!HandOverMixed
                   \/ Contract!Done \/ Contract!Fail \/ Contract!Close
                   \/ Contract!Arrive
<1>2. ASSUME ContentBlockStop, Parses(acc[block].args) PROVE Contract!HandOver
  <2>1. /\ provider = "anthropic" /\ pc = "read" /\ wire = "open"
        /\ Emit(acc[block]) /\ block # 0 /\ UNCHANGED <<parts, pc, last>>
        /\ cut' = (cut \/ sent[block] < parts[block])
    BY <1>2 DEF ContentBlockStop, Reading, EmitBlock
  <2>2. /\ block \in Turn /\ block = begun /\ sent[block] <= parts[block]
        /\ acc[block] = Arrived(block) /\ acc[block] \in Entries
        /\ block \in Calls
    BY <1>2, OpenBlock
  <2>3. \/ acc[block] = Whole(block)
        \/ acc[block] = [id |-> block, args |-> << >>] /\ cut'
    <3>1. sent[block] \in Int /\ parts[block] \in Int
      <4>1. sent \in [Calls -> 0..MaxParts]
        BY <1>1 DEF TypeOK
      <4>2. parts[block] \in 0..MaxParts
        BY <1>1, <2>2, TurnTypes
      <4>. QED BY <2>2, <4>1, <4>2
    <3>2. CASE sent[block] = parts[block]
      BY <1>1, <2>2, <3>2, ArrivedParses
    <3>3. CASE sent[block] # parts[block]
      <4>1. sent[block] < parts[block]
        BY <2>2, <3>1, <3>3
      <4>2. cut'
        BY <2>1, <4>1
      <4>3. \/ Arrived(block) = Whole(block)
            \/ Arrived(block) = [id |-> block, args |-> << >>]
        BY <1>1, <1>2, <2>2, ArrivedParses
      <4>. QED BY <2>2, <4>2, <4>3
    <3>. QED BY <3>2, <3>3
  <2>4. \A a \in Handed : a < block
    <3>1. Handed = (1..begun) \ {begun} /\ begun \in Nat
      BY <1>1, <2>1, <2>2, Counters DEF IInv, HandedOver
    <3>. QED BY <2>2, <3>1
  <2>5. last = "none" /\ pc # "closed"
    BY <1>1, <2>1 DEF Ends
  <2>. QED BY <1>1, <2>1, <2>2, <2>3, <2>4, <2>5, HandOverMaps
<1>3. ASSUME FlushCall, Parses(acc[First].args)
      PROVE  Contract!HandOver \/ Contract!HandOverMixed
  <2>1. /\ pc = "flush" /\ left # {} /\ Emit(acc[First])
        /\ UNCHANGED <<parts, pc, last>> /\ chunks \in Nat
    BY <1>1, <1>3, Counters DEF FlushCall, First
  <2>2. CASE chunks <= 1
    <3>1. /\ First \in Turn /\ acc[First] = Whole(First)
          /\ acc[First] \in Entries /\ \A a \in Handed : a < First
      BY <2>1, <2>2, FirstLeft
    <3>2. last = "none" /\ pc # "closed"
      BY <1>1, <2>1 DEF Ends
    <3>. QED BY <1>1, <2>1, <3>1, <3>2, HandOverMaps
  <2>3. CASE chunks > 1
    BY <1>3, <2>3, HandOverMixedMaps
  <2>. QED BY <2>1, <2>2, <2>3
<1>4. ASSUME ~(ContentBlockStop /\ Parses(acc[block].args)),
             ~(FlushCall /\ Parses(acc[First].args))
      PROVE  Goal
  <2>1. UNCHANGED <<parts, handed>>
    BY <1>4 DEF Next, AnthropicStep, ContentBlockStart, ContentBlockDelta,
       ContentBlockStop, EmitBlock, Fail, MessageStop, AnthropicEnd, OpenAIStep,
       ToolCallBegins, ToolCallDelta, FinishToolCalls, Flush, FinishStop,
       FinishOtherwise, OpenAIEnd, OllamaStep, ToolCallChunk, OllamaEnd,
       FlushCall, First, FlushDone, StreamError, Cancel, GiveUp, vars
  <2>2. pc = "closed" => UNCHANGED <<pc, last>>
    BY DEF Next, AnthropicStep, Reading, ContentBlockStart, ContentBlockDelta,
       ContentBlockStop, MessageStop, AnthropicEnd, OpenAIStep,
       ToolCallBegins, ToolCallDelta, FinishToolCalls, FinishStop,
       FinishOtherwise, OpenAIEnd, OllamaStep, ToolCallChunk, OllamaEnd,
       FlushCall, FlushDone, StreamError, Cancel, GiveUp, vars
  <2>3. last = "done" => last' # "none"
    BY DEF Next, AnthropicStep, ContentBlockStart, ContentBlockDelta,
       ContentBlockStop, EmitBlock, Fail, MessageStop, AnthropicEnd, OpenAIStep,
       ToolCallBegins, ToolCallDelta, FinishToolCalls, Flush, FinishStop,
       FinishOtherwise, OpenAIEnd, OllamaStep, ToolCallChunk, OllamaEnd,
       FlushCall, FlushDone, StreamError, Cancel, GiveUp, vars
  <2>. QED BY <1>1, <2>1, <2>2, <2>3, EndMaps
<1>5. Goal
  BY <1>2, <1>3, <1>4, Zenon
<1>6. cut' \in {cut, TRUE} /\ Mixed' \in {Mixed, TRUE} /\ UNCHANGED Offered
  BY CutAndMixed
<1>. QED BY <1>5, <1>6 DEF Contract!Next, Offered

\* Every turn, whichever client reads it, is one that ModelTurn allows.
THEOREM ImplementsTurn == Spec => TurnKept
<1>1. Init => Contract!Init
  <2> SUFFICES ASSUME Init PROVE Contract!Init
    OBVIOUS
  <2>1. Offered \in Seq([id : Nat, args : Seq(Nat \X Nat)])
    BY InitIInv, OfferedTurn DEF IInv
  <2>2. handed = << >> /\ State = "open" /\ cut = FALSE /\ Mixed = FALSE
    BY DEF Init, State, Mixed
  <2>. QED BY <2>1, <2>2 DEF Contract!Init, Offered, State
<1>. QED BY <1>1, Invariance, StepsMap, PTL
         DEF Spec, TurnKept, Contract!Spec, Offered, State
=============================================================================
