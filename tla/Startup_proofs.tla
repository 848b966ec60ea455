---------------------------- MODULE Startup_proofs ----------------------------
(***************************************************************************)
(* Proofs about the start of a daemon, for any lengths of lists, any names *)
(* and any number of spaces: what is allocated and what the bits say at    *)
(* each place of the parser, from which follow what a listening daemon     *)
(* has, which files are refused and which memory is misused.               *)
(***************************************************************************)
EXTENDS Startup, SequenceTheorems, TLAPS

-------------------------------------------------------------------------------
(* Memory *)

Marks == {"unset", "live", "freed"}

Mem == [heap : [Pointers -> Marks], misused : SUBSET Pointers]

(* What a free does: the pointer is misused if it is not live, and nothing   *)
(* else changes.                                                             *)
LEMMA UseFacts ==
  ASSUME NEW h \in Mem, NEW p \in Pointers
  PROVE  /\ Use(h, p) \in Mem
         /\ Use(h, p).heap = h.heap
         /\ Use(h, p).misused = h.misused \cup {q \in {p} : h.heap[q] # "live"}
<1>1. CASE h.heap[p] = "live"
    BY <1>1 DEF Use, Mem
<1>2. CASE h.heap[p] # "live"
    BY <1>2 DEF Use, Mem
<1> QED
    BY <1>1, <1>2

LEMMA FreeFacts ==
  ASSUME NEW h \in Mem, NEW p \in Pointers
  PROVE  /\ Free(h, p) \in Mem
         /\ \A q \in Pointers \ {p} : Free(h, p).heap[q] = h.heap[q]
         /\ Free(h, p).misused = h.misused \cup {q \in {p} : h.heap[q] # "live"}
<1> DEFINE u == Use(h, p)
<1>1. u \in Mem /\ u.heap = h.heap /\ u.misused = h.misused \cup {q \in {p} : h.heap[q] # "live"}
    BY UseFacts
<1>2. Free(h, p) = [u EXCEPT !.heap[p] = IF @ = "live" THEN "freed" ELSE @]
    BY DEF Free
<1> QED
    BY <1>1, <1>2 DEF Mem, Marks

LEMMA FreeIfFacts ==
  ASSUME NEW h \in Mem, NEW p \in Pointers, NEW c \in BOOLEAN
  PROVE  /\ FreeIf(h, c, p) \in Mem
         /\ \A q \in Pointers \ {p} : FreeIf(h, c, p).heap[q] = h.heap[q]
         /\ FreeIf(h, c, p).misused = h.misused \cup {q \in {p} : c /\ h.heap[q] # "live"}
         /\ ~c => FreeIf(h, c, p) = h
<1>1. CASE c
    BY <1>1, FreeFacts DEF FreeIf
<1>2. CASE ~c
    BY <1>2 DEF FreeIf
<1> QED
    BY <1>1, <1>2

(* What a refusal may misuse: what it frees by its section and its bits.     *)
Freed(section, bits) ==
    {q \in Pointers : \/ q = "spaces" /\ section = 1
                      \/ q = "p2pmd_endpoint" /\ 1 \in bits
                      \/ q = "predecessor" /\ 5 \in bits
                      \/ q = "successor_list" /\ 4 \in bits}

LEMMA FailureFacts ==
  ASSUME NEW h \in Mem, NEW section \in {0, 1}, NEW bits
  PROVE  /\ _handle_parse_failure(h, section, bits) \in Mem
         /\ \A q \in _handle_parse_failure(h, section, bits).misused :
                q \in h.misused \/ (q \in Freed(section, bits) /\ h.heap[q] # "live")
         /\ \A q \in Pointers \ Freed(section, bits) :
                _handle_parse_failure(h, section, bits).heap[q] = h.heap[q]
<1> DEFINE h1 == FreeIf(h, section = 1, "spaces")
           h2 == FreeIf(h1, 1 \in bits, "p2pmd_endpoint")
           h3 == FreeIf(h2, 5 \in bits, "predecessor")
           h4 == FreeIf(h3, 4 \in bits, "successor_list")
<1>0. _handle_parse_failure(h, section, bits) = h4
    BY DEF _handle_parse_failure, Bit
<1>p. {"spaces", "p2pmd_endpoint", "predecessor", "successor_list"} \subseteq Pointers
    BY DEF Pointers
<1>1. /\ h1 \in Mem
      /\ \A q \in Pointers \ {"spaces"} : h1.heap[q] = h.heap[q]
      /\ h1.misused = h.misused \cup {q \in {"spaces"} : section = 1 /\ h.heap[q] # "live"}
      /\ section # 1 => h1 = h
  <2>1. (section = 1) \in BOOLEAN /\ "spaces" \in Pointers
      BY <1>p
  <2> QED
      BY <2>1, FreeIfFacts
<1>2. /\ h2 \in Mem
      /\ \A q \in Pointers \ {"p2pmd_endpoint"} : h2.heap[q] = h1.heap[q]
      /\ h2.misused = h1.misused \cup {q \in {"p2pmd_endpoint"} : 1 \in bits /\ h1.heap[q] # "live"}
      /\ 1 \notin bits => h2 = h1
  <2>1. (1 \in bits) \in BOOLEAN /\ "p2pmd_endpoint" \in Pointers /\ h1 \in Mem
      BY <1>1, <1>p
  <2> HIDE DEF h1
  <2> QED
      BY <2>1, FreeIfFacts
<1>3. /\ h3 \in Mem
      /\ \A q \in Pointers \ {"predecessor"} : h3.heap[q] = h2.heap[q]
      /\ h3.misused = h2.misused \cup {q \in {"predecessor"} : 5 \in bits /\ h2.heap[q] # "live"}
      /\ 5 \notin bits => h3 = h2
  <2>1. (5 \in bits) \in BOOLEAN /\ "predecessor" \in Pointers /\ h2 \in Mem
      BY <1>2, <1>p
  <2> HIDE DEF h2
  <2> QED
      BY <2>1, FreeIfFacts
<1>4. /\ h4 \in Mem
      /\ \A q \in Pointers \ {"successor_list"} : h4.heap[q] = h3.heap[q]
      /\ h4.misused = h3.misused \cup {q \in {"successor_list"} : 4 \in bits /\ h3.heap[q] # "live"}
      /\ 4 \notin bits => h4 = h3
  <2>1. (4 \in bits) \in BOOLEAN /\ "successor_list" \in Pointers /\ h3 \in Mem
      BY <1>3, <1>p
  <2> HIDE DEF h3
  <2> QED
      BY <2>1, FreeIfFacts
<1> HIDE DEF h1, h2, h3, h4
<1>5. \A q \in h4.misused : q \in h.misused \/ (q \in Freed(section, bits) /\ h.heap[q] # "live")
  <2>1. h1.heap["p2pmd_endpoint"] = h.heap["p2pmd_endpoint"]
      BY <1>1, <1>p
  <2>2. h2.heap["predecessor"] = h.heap["predecessor"]
      BY <1>1, <1>2, <1>p
  <2>3. h3.heap["successor_list"] = h.heap["successor_list"]
      BY <1>1, <1>2, <1>3, <1>p
  <2> QED
      BY <2>1, <2>2, <2>3, <1>1, <1>2, <1>3, <1>4, <1>p DEF Freed
<1>6. ASSUME NEW q \in Pointers \ Freed(section, bits) PROVE h4.heap[q] = h.heap[q]
    BY <1>1, <1>2, <1>3, <1>4 DEF Freed
<1> QED
    BY <1>0, <1>4, <1>5, <1>6

(* A refusal in the section p2pmd.                                           *)
P2pmdFailure(h, bits) == _handle_parse_failure(h, 0, bits)

LEMMA P2pmdFailureFacts ==
  \A h \in Mem : \A bits \in SUBSET (0 .. 5) :
      /\ P2pmdFailure(h, bits) \in Mem
      /\ \A q \in P2pmdFailure(h, bits).misused :
             \/ q \in h.misused
             \/ q = "p2pmd_endpoint" /\ 1 \in bits /\ h.heap[q] # "live"
             \/ q = "predecessor" /\ 5 \in bits /\ h.heap[q] # "live"
             \/ q = "successor_list" /\ 4 \in bits /\ h.heap[q] # "live"
<1>1. 0 \in {0, 1}
    OBVIOUS
<1> QED
    BY <1>1, FailureFacts DEF P2pmdFailure, Freed

-------------------------------------------------------------------------------
(* The invariant *)

Ends == {"failed", "exited", "crashed"}
Spaces == {"between", "space"}
Create == {"sockets", "making", "listening"}
Rest == {"tsd", "spaces", "parsed", "config"} \cup Spaces \cup Create

SpaceType == [name : Names \cup {None},
              mode : {"master", "worker", "p2p"} \cup {None},
              tsd_mode : {"token", "direct"} \cup {None}]

CfgType == [r : Nat, _r_list : Nat, room : Nat, ended : BOOLEAN]

TypeInv ==
    /\ pc \in {"log", "read", "p2pmd"} \cup Rest \cup Ends
    /\ bv \subseteq 0 .. 5
    /\ Memory \in Mem
    /\ cfg \in CfgType
    /\ spaces \in Seq(SpaceType)
    /\ made \in 0 .. Len(spaces)

(* What is unusual and no reason to refuse a file.                           *)
Harmless == {"edge", "no_spaces", "same_name", "r_first"}

(* What is a reason.                                                         *)
Faulty(o) == o \ {"edge", "same_name"} # {}

OddInv ==
    /\ pc \notin Ends => odd \subseteq Harmless
    /\ pc \in {"failed", "exited"} => Faulty(odd)
    /\ ~cfg.ended => "edge" \in odd

Expected(field) == IF field \in seen THEN "live" ELSE "unset"

(* The bits of the fields seen.  That of the list is set by r also.          *)
BitsOfP2pmd ==
    /\ 0 \in bv <=> "mode" \in seen
    /\ 1 \in bv <=> "endpoint" \in seen
    /\ 2 \in bv <=> "r" \in seen
    /\ 3 \in bv <=> "r_max" \in seen
    /\ 4 \in bv <=> "successor_list" \in seen \/ "r" \in seen
    /\ 5 \in bv <=> "predecessor" \in seen

BitsOfSpace ==
    /\ 0 \in bv <=> "name" \in seen
    /\ 1 \in bv <=> "id" \in seen
    /\ 2 \in bv <=> "mode" \in seen
    /\ 3 \in bv <=> "tsd_mode" \in seen
    /\ bv \subseteq 0 .. 3

(* Before and in the section p2pmd what is allocated is what was seen.       *)
P2pmdHeap ==
    /\ heap["p2pmd_endpoint"] = Expected("endpoint")
    /\ heap["predecessor"] = Expected("predecessor")
    /\ heap["successor_list"] = Expected("successor_list")

P2pmdRoom ==
    /\ "r_first" \in odd <=> "r" \in seen /\ "successor_list" \notin seen
    /\ "successor_list" \in seen => cfg._r_list = cfg.room
    /\ "r" \in seen /\ "successor_list" \in seen => cfg.r = cfg.room

P2pmdInv ==
    pc \in {"log", "read", "p2pmd"} =>
        BitsOfP2pmd /\ P2pmdHeap /\ misused = {} /\ P2pmdRoom /\ spaces = <<>>

(* After it.                                                                 *)
RestInv ==
    pc \in Rest =>
        /\ heap["p2pmd_endpoint"] = "live" /\ heap["predecessor"] = "live"
        /\ \/ heap["successor_list"] = "live" /\ cfg.r = cfg.room /\ "r_first" \notin odd
           \/ heap["successor_list"] = "unset" /\ "r_first" \in odd
        /\ pc # "tsd" => heap["tsd_endpoint"] = "live"
        /\ pc \in {"tsd", "spaces"} => bv = {} /\ spaces = <<>>
        /\ pc \in Spaces => bv \subseteq 0 .. 3 /\ heap["spaces"] = "live"
        /\ pc \in {"parsed", "config"} \cup Create => heap["spaces"] = "live" \/ "no_spaces" \in odd
        /\ pc \in Create => heap["join_address"] = "live" \/ "edge" \in odd

(* The spaces read so far are complete, the last one as far as its bits say, *)
(* and of different names.                                                   *)
Complete(i) == None \notin {spaces[i].name, spaces[i].mode, spaces[i].tsd_mode}

SpacesInv ==
    /\ pc \notin Ends =>
         \A i \in 1 .. Len(spaces) :
            /\ pc # "space" \/ i < Len(spaces) => Complete(i)
            /\ \A j \in 1 .. i - 1 :
                  spaces[i].name = spaces[j].name => "same_name" \in odd
    /\ pc = "space" =>
         /\ Len(spaces) > 0
         /\ BitsOfSpace
         /\ "name" \in seen => spaces[Len(spaces)].name # None
         /\ "mode" \in seen => spaces[Len(spaces)].mode # None
         /\ "tsd_mode" \in seen => spaces[Len(spaces)].tsd_mode # None

TableInv ==
    /\ pc \notin {"making", "listening"} \cup Ends => made = 0
    /\ pc = "listening" => made = Len(spaces)
    /\ pc \notin Ends =>
         \A i \in 1 .. made :
            /\ spaces[i].name \in DOMAIN table
            /\ table[spaces[i].name] = i \/ "same_name" \in odd

StartInv ==
    /\ TypeInv /\ OddInv /\ P2pmdInv /\ RestInv /\ UndefinedOnlyIf
    /\ SpacesInv /\ TableInv

LEMMA FaultyIf ==
  ASSUME NEW o, NEW x \in o, x \notin {"edge", "same_name"}
  PROVE  Faulty(o)
BY DEF Faulty

LEMMA StartInit == Init => StartInv
<1> SUFFICES ASSUME Init PROVE StartInv
    OBVIOUS
<1>1. TypeInv
  <2>1. Memory \in Mem
      BY DEF Init, Memory, Mem, Marks
  <2>2. <<>> \in Seq(SpaceType) /\ Len(<<>>) = 0
      OBVIOUS
  <2>3. spaces = <<>> /\ made = 0 /\ pc = "log" /\ bv = {}
      BY DEF Init
  <2>4. cfg \in CfgType
    <3>1. cfg \in [r : {0}, _r_list : Lengths \cup {0}, room : {0}, ended : {TRUE}]
        BY DEF Init
    <3>2. Lengths \cup {0} \subseteq Nat
        BY StartupAssumption
    <3> HIDE DEF Init
    <3> QED
        BY <3>1, <3>2 DEF CfgType
  <2> QED
      BY <2>1, <2>2, <2>3, <2>4 DEF TypeInv
<1>2. OddInv /\ RestInv /\ UndefinedOnlyIf /\ SpacesInv /\ TableInv
  <2>1. /\ pc = "log" /\ odd = {} /\ misused = {} /\ spaces = <<>> /\ made = 0
        /\ cfg.ended = TRUE
      BY DEF Init
  <2>2. OddInv /\ UndefinedOnlyIf
      BY <2>1 DEF OddInv, UndefinedOnlyIf, Ends
  <2>3. RestInv
      BY <2>1 DEF RestInv, Rest, Spaces, Create
  <2>4. 1 .. Len(spaces) = {} /\ 1 .. made = {}
      BY <2>1
  <2> QED
      BY <2>1, <2>2, <2>3, <2>4 DEF SpacesInv, TableInv
<1>3. P2pmdInv
    BY DEF Init, P2pmdInv, BitsOfP2pmd, P2pmdHeap, P2pmdRoom, Expected, Pointers
<1> QED
    BY <1>1, <1>2, <1>3 DEF StartInv

-------------------------------------------------------------------------------
(* The section p2pmd *)

(* A file that is refused.                                                   *)
LEMMA Refused ==
  ASSUME StartInv, pc' \in Ends, Memory' \in Mem, bv' \subseteq 0 .. 5,
         cfg' \in CfgType,
         spaces' \in Seq(SpaceType), made' \in 0 .. Len(spaces'),
         OddInv', UndefinedOnlyIf'
  PROVE  StartInv'
<1>1. pc' \notin {"log", "read", "p2pmd"} \cup Rest
    BY DEF Ends, Rest, Spaces, Create
<1>2. P2pmdInv' /\ RestInv' /\ SpacesInv' /\ TableInv'
    BY <1>1 DEF P2pmdInv, RestInv, SpacesInv, TableInv, Rest, Spaces, Create
<1>3. TypeInv'
    BY DEF TypeInv
<1> QED
    BY <1>2, <1>3 DEF StartInv

(* A refusal within the section.                                             *)
LEMMA P2pmdRefused ==
  ASSUME StartInv, pc = "p2pmd", UNCHANGED <<spaces, made>>,
         Memory' \in Mem, bv' \subseteq 0 .. 5, pc' \in {"failed", "exited"},
         misused' \subseteq {"successor_list"},
         misused' = {} \/ "r_first" \in odd' \/ "repeated" \in odd',
         cfg' \in CfgType,
         cfg'.ended = cfg.ended \/ "edge" \in odd',
         odd \subseteq odd', Faulty(odd')
  PROVE  StartInv'
<1>1. OddInv'
    BY DEF StartInv, OddInv, Ends
<1>2. UndefinedOnlyIf'
    BY DEF UndefinedOnlyIf
<1>3. spaces' \in Seq(SpaceType) /\ made' \in 0 .. Len(spaces')
    BY DEF StartInv, TypeInv
<1>4. pc' \in Ends
    BY DEF Ends
<1> QED
    BY <1>1, <1>2, <1>3, <1>4, Refused

(* A field that is accepted leaves what concerns the spaces alone.           *)
LEMMA P2pmdAccepted ==
  ASSUME StartInv, pc = "p2pmd", pc' = pc, UNCHANGED <<spaces, made, table>>,
         Memory' \in Mem, bv' \subseteq 0 .. 5,
         cfg' \in CfgType,
         cfg'.ended = cfg.ended \/ "edge" \in odd',
         odd \subseteq odd', odd' \subseteq Harmless, P2pmdInv'
  PROVE  StartInv'
<1>1. TypeInv' /\ RestInv'
    BY DEF StartInv, TypeInv, RestInv, Rest, Spaces, Create
<1>2. UndefinedOnlyIf'
    BY DEF P2pmdInv, UndefinedOnlyIf
<1>3. made = 0 /\ Len(spaces) = 0
  <2>1. spaces = <<>> /\ made \in 0 .. Len(spaces)
      BY DEF StartInv, P2pmdInv, TypeInv
  <2> QED
      BY <2>1
<1>4. SpacesInv' /\ TableInv'
    BY <1>3 DEF SpacesInv, TableInv
<1>5. OddInv'
    BY DEF StartInv, OddInv, Ends
<1> QED
    BY <1>1, <1>2, <1>4, <1>5 DEF StartInv

(* What holds within the section.                                            *)
LEMMA P2pmdState ==
  ASSUME StartInv, pc = "p2pmd"
  PROVE  /\ bv \in SUBSET (0 .. 5) /\ Memory \in Mem /\ odd \subseteq Harmless
         /\ cfg \in CfgType
         /\ BitsOfP2pmd /\ P2pmdHeap /\ misused = {} /\ P2pmdRoom /\ spaces = <<>>
         /\ 1 \in bv => heap["p2pmd_endpoint"] = "live"
         /\ 5 \in bv => heap["predecessor"] = "live"
         /\ 4 \in bv => heap["successor_list"] = "live" \/ "r_first" \in odd
<1>1. /\ bv \in SUBSET (0 .. 5) /\ Memory \in Mem /\ odd \subseteq Harmless
      /\ cfg \in CfgType
    BY DEF StartInv, TypeInv, OddInv, Ends
<1>2. BitsOfP2pmd /\ P2pmdHeap /\ misused = {} /\ P2pmdRoom /\ spaces = <<>>
    BY DEF StartInv, P2pmdInv
<1>3. /\ 1 \in bv => heap["p2pmd_endpoint"] = "live"
      /\ 5 \in bv => heap["predecessor"] = "live"
      /\ 4 \in bv => heap["successor_list"] = "live" \/ "r_first" \in odd
    BY <1>2 DEF BitsOfP2pmd, P2pmdHeap, P2pmdRoom, Expected
<1> QED
    BY <1>1, <1>2, <1>3

(* A refusal frees by the bits; what they say must be live, but for a list   *)
(* that r has marked or that was given twice.                                *)
LEMMA P2pmdRefusal ==
  ASSUME StartInv, pc = "p2pmd", UNCHANGED <<spaces, made>>,
         NEW h \in Mem, h.misused = {}, NEW bits \in SUBSET (0 .. 5),
         Becomes(_handle_parse_failure(h, 0, bits)),
         bv' \subseteq 0 .. 5, pc' \in {"failed", "exited"},
         1 \in bits => h.heap["p2pmd_endpoint"] = "live",
         5 \in bits => h.heap["predecessor"] = "live",
         4 \in bits => (h.heap["successor_list"] = "live" \/ "r_first" \in odd' \/ "repeated" \in odd'),
         cfg' \in CfgType, cfg'.ended = cfg.ended \/ "edge" \in odd',
         odd \subseteq odd', Faulty(odd')
  PROVE  StartInv'
<1> DEFINE g == P2pmdFailure(h, bits)
<1>1. /\ g \in Mem
      /\ \A q \in g.misused :
             \/ q \in h.misused
             \/ q = "p2pmd_endpoint" /\ 1 \in bits /\ h.heap[q] # "live"
             \/ q = "predecessor" /\ 5 \in bits /\ h.heap[q] # "live"
             \/ q = "successor_list" /\ 4 \in bits /\ h.heap[q] # "live"
    BY P2pmdFailureFacts
<1>2. heap' = g.heap /\ misused' = g.misused
    BY DEF Becomes, P2pmdFailure
<1> HIDE DEF g
<1>3. Memory' \in Mem
    BY <1>1, <1>2 DEF Memory, Mem
<1>4. /\ misused' \subseteq {"successor_list"}
      /\ misused' = {} \/ "r_first" \in odd' \/ "repeated" \in odd'
    BY <1>1, <1>2
<1> QED
    BY <1>3, <1>4, P2pmdRefused

(* That of Memory by bv.                                                     *)
LEMMA P2pmdRefusalPlain ==
  ASSUME StartInv, pc = "p2pmd", UNCHANGED <<spaces, made>>,
         Becomes(_handle_parse_failure(Memory, 0, bv)),
         bv' = bv, pc' \in {"failed", "exited"},
         cfg' \in CfgType, cfg'.ended = cfg.ended \/ "edge" \in odd',
         odd \subseteq odd', Faulty(odd')
  PROVE  StartInv'
<1> DEFINE h == Memory
<1>1. /\ bv \in SUBSET (0 .. 5) /\ h \in Mem /\ h.misused = {}
      /\ 1 \in bv => h.heap["p2pmd_endpoint"] = "live"
      /\ 5 \in bv => h.heap["predecessor"] = "live"
      /\ 4 \in bv => (h.heap["successor_list"] = "live" \/ "r_first" \in odd' \/ "repeated" \in odd')
    BY P2pmdState DEF Memory
<1>2. Becomes(_handle_parse_failure(h, 0, bv))
    OBVIOUS
<1> HIDE DEF h
<1> QED
    BY <1>1, <1>2, P2pmdRefusal

LEMMA FlawsFacts ==
  ASSUME NEW field, NEW wrong \in BOOLEAN
  PROVE  /\ wrong => "wrong" \in Flaws(field, wrong)
         /\ field \in seen => "repeated" \in Flaws(field, wrong)
         /\ "r_first" \in Flaws(field, wrong) <=> field = "r" /\ "successor_list" \notin seen
         /\ ~wrong /\ field \notin seen => Flaws(field, wrong) \subseteq {"r_first"}
BY DEF Flaws

(* What a field other than r leaves in odd.                                  *)
LEMMA FieldFlaws ==
  ASSUME NEW field, field # "r", NEW wrong \in BOOLEAN, odd' = odd \cup Flaws(field, wrong)
  PROVE  /\ wrong => "wrong" \in odd'
         /\ field \in seen => "repeated" \in odd'
         /\ ~wrong /\ field \notin seen => odd' = odd
         /\ odd \subseteq odd'
<1>1. ~wrong /\ field \notin seen => Flaws(field, wrong) = {}
    BY DEF Flaws
<1> QED
    BY <1>1, FlawsFacts

(* mode: nothing is allocated.                                               *)
LEMMA ParseModeStep ==
  ASSUME StartInv, NEW value \in {"member", "other"}, ParseMode(value)
  PROVE  StartInv'
<1>1. /\ pc = "p2pmd" /\ seen' = seen \cup {"mode"} /\ UNCHANGED <<spaces, made, table, cfg>>
    BY DEF ParseMode, Read
<1>2. /\ value = "other" => "wrong" \in odd'
      /\ "mode" \in seen => "repeated" \in odd'
      /\ value # "other" /\ "mode" \notin seen => odd' = odd
      /\ odd \subseteq odd'
  <2>1. (value = "other") \in BOOLEAN /\ odd' = odd \cup Flaws("mode", value = "other")
      BY DEF ParseMode, Read
  <2> QED
      BY <2>1, FieldFlaws
<1>i. /\ BitsOfP2pmd /\ P2pmdHeap /\ misused = {} /\ P2pmdRoom /\ spaces = <<>>
      /\ Memory \in Mem /\ bv \in SUBSET (0 .. 5) /\ odd \subseteq Harmless /\ cfg' \in CfgType
    BY <1>1, P2pmdState
<1>3. 0 \in bv <=> "mode" \in seen
    BY <1>i DEF BitsOfP2pmd
<1>4. CASE value # "other" /\ 0 \notin bv
  <2>1. heap' = heap /\ misused' = misused /\ bv' = bv \cup {0} /\ pc' = pc
      BY <1>4 DEF ParseMode, Accept, Bit, Becomes, Memory
  <2>2. odd' = odd
      BY <1>2, <1>3, <1>4
  <2>3. BitsOfP2pmd'
      BY <1>1, <2>1, <1>i DEF BitsOfP2pmd
  <2>4. P2pmdHeap'
      BY <1>1, <2>1, <1>i DEF P2pmdHeap, Expected
  <2>5. P2pmdRoom'
      BY <1>1, <2>1, <1>i, <2>2 DEF P2pmdRoom
  <2>6. P2pmdInv'
      BY <1>1, <2>1, <1>i, <2>3, <2>4, <2>5 DEF P2pmdInv
  <2>7. Memory' \in Mem /\ bv' \subseteq 0 .. 5
      BY <1>i, <2>1 DEF Memory
  <2> QED
      BY <1>1, <1>i, <2>1, <2>2, <2>6, <2>7, P2pmdAccepted
<1>5. CASE ~(value # "other" /\ 0 \notin bv)
  <2>1. Becomes(_handle_parse_failure(Memory, 0, bv)) /\ pc' = "failed" /\ bv' = bv
      BY <1>5 DEF ParseMode, Accept, Bit, Refuse
  <2>2. "wrong" \in odd' \/ "repeated" \in odd'
      BY <1>2, <1>3, <1>5
  <2>3. Faulty(odd')
      BY <2>2, FaultyIf
  <2> QED
      BY <1>1, <1>2, <1>i, <2>1, <2>3, P2pmdRefusalPlain
<1> QED
    BY <1>4, <1>5

(* r_max: as mode.                                                           *)
LEMMA ParseRMaxStep ==
  ASSUME StartInv, NEW value \in {"text", "number"}, ParseRMax(value)
  PROVE  StartInv'
<1>1. /\ pc = "p2pmd" /\ seen' = seen \cup {"r_max"} /\ UNCHANGED <<spaces, made, table, cfg>>
    BY DEF ParseRMax, Read
<1>2. /\ value = "text" => "wrong" \in odd'
      /\ "r_max" \in seen => "repeated" \in odd'
      /\ value # "text" /\ "r_max" \notin seen => odd' = odd
      /\ odd \subseteq odd'
  <2>1. (value = "text") \in BOOLEAN /\ odd' = odd \cup Flaws("r_max", value = "text")
      BY DEF ParseRMax, Read
  <2> QED
      BY <2>1, FieldFlaws
<1>i. /\ BitsOfP2pmd /\ P2pmdHeap /\ misused = {} /\ P2pmdRoom /\ spaces = <<>>
      /\ Memory \in Mem /\ bv \in SUBSET (0 .. 5) /\ odd \subseteq Harmless /\ cfg' \in CfgType
    BY <1>1, P2pmdState
<1>3. 3 \in bv <=> "r_max" \in seen
    BY <1>i DEF BitsOfP2pmd
<1>4. CASE value # "text" /\ 3 \notin bv
  <2>1. heap' = heap /\ misused' = misused /\ bv' = bv \cup {3} /\ pc' = pc
      BY <1>4 DEF ParseRMax, Accept, Bit, Becomes, Memory
  <2>2. odd' = odd
      BY <1>2, <1>3, <1>4
  <2>3. BitsOfP2pmd'
      BY <1>1, <2>1, <1>i DEF BitsOfP2pmd
  <2>4. P2pmdHeap'
      BY <1>1, <2>1, <1>i DEF P2pmdHeap, Expected
  <2>5. P2pmdRoom'
      BY <1>1, <2>1, <1>i, <2>2 DEF P2pmdRoom
  <2>6. P2pmdInv'
      BY <1>1, <2>1, <1>i, <2>3, <2>4, <2>5 DEF P2pmdInv
  <2>7. Memory' \in Mem /\ bv' \subseteq 0 .. 5
      BY <1>i, <2>1 DEF Memory
  <2> QED
      BY <1>1, <1>i, <2>1, <2>2, <2>6, <2>7, P2pmdAccepted
<1>5. CASE ~(value # "text" /\ 3 \notin bv)
  <2>1. Becomes(_handle_parse_failure(Memory, 0, bv)) /\ pc' = "failed" /\ bv' = bv
      BY <1>5 DEF ParseRMax, Accept, Bit, Refuse
  <2>2. "wrong" \in odd' \/ "repeated" \in odd'
      BY <1>2, <1>3, <1>5
  <2>3. Faulty(odd')
      BY <2>2, FaultyIf
  <2> QED
      BY <1>1, <1>2, <1>i, <2>1, <2>3, P2pmdRefusalPlain
<1> QED
    BY <1>4, <1>5

(* What the allocation of a field does.                                      *)
LEMMA SetFacts ==
  ASSUME Memory \in Mem, NEW p \in Pointers
  PROVE  /\ Set(Memory, p) \in Mem
         /\ Set(Memory, p).heap[p] = "live"
         /\ \A q \in Pointers \ {p} : Set(Memory, p).heap[q] = heap[q]
         /\ Set(Memory, p).misused = misused
BY DEF Set, Memory, Mem, Marks

(* endpoint: given twice, the second is freed in place of the first.         *)
LEMMA ParseEndpointStep ==
  ASSUME StartInv, NEW value \in {"text", "number"}, ParseEndpoint(value)
  PROVE  StartInv'
<1>1. /\ pc = "p2pmd" /\ seen' = seen \cup {"endpoint"} /\ UNCHANGED <<spaces, made, table, cfg>>
    BY DEF ParseEndpoint, Read
<1>2. /\ value = "number" => "wrong" \in odd'
      /\ "endpoint" \in seen => "repeated" \in odd'
      /\ value # "number" /\ "endpoint" \notin seen => odd' = odd
      /\ odd \subseteq odd'
  <2>1. (value = "number") \in BOOLEAN /\ odd' = odd \cup Flaws("endpoint", value = "number")
      BY DEF ParseEndpoint, Read
  <2> QED
      BY <2>1, FieldFlaws
<1>i. /\ BitsOfP2pmd /\ P2pmdHeap /\ misused = {} /\ P2pmdRoom /\ spaces = <<>>
      /\ Memory \in Mem /\ bv \in SUBSET (0 .. 5) /\ odd \subseteq Harmless /\ cfg' \in CfgType
    BY <1>1, P2pmdState
<1>3. 1 \in bv <=> "endpoint" \in seen
    BY <1>i DEF BitsOfP2pmd
<1>s. /\ Set(Memory, "p2pmd_endpoint") \in Mem
      /\ Set(Memory, "p2pmd_endpoint").heap["p2pmd_endpoint"] = "live"
      /\ \A q \in Pointers \ {"p2pmd_endpoint"} : Set(Memory, "p2pmd_endpoint").heap[q] = heap[q]
      /\ Set(Memory, "p2pmd_endpoint").misused = misused
  <2>1. "p2pmd_endpoint" \in Pointers
      BY DEF Pointers
  <2> QED
      BY <1>i, <2>1, SetFacts
<1>p. {"predecessor", "successor_list"} \subseteq Pointers
    BY DEF Pointers
<1>4. CASE value # "number" /\ 1 \notin bv
  <2>1. /\ Becomes(Set(Memory, "p2pmd_endpoint")) /\ bv' = bv \cup {1} /\ pc' = pc
      BY <1>4 DEF ParseEndpoint, Accept, Bit
  <2>h. /\ heap'["p2pmd_endpoint"] = "live" /\ misused' = misused /\ Memory' \in Mem
        /\ heap'["predecessor"] = heap["predecessor"]
        /\ heap'["successor_list"] = heap["successor_list"]
      BY <1>s, <2>1, <1>p DEF Becomes, Memory, Mem
  <2>2. odd' = odd
      BY <1>2, <1>3, <1>4
  <2>3. BitsOfP2pmd'
      BY <1>1, <2>1, <1>i DEF BitsOfP2pmd
  <2>4. P2pmdHeap'
      BY <1>1, <2>h, <1>i DEF P2pmdHeap, Expected
  <2>5. P2pmdRoom'
      BY <1>1, <2>1, <1>i, <2>2 DEF P2pmdRoom
  <2>6. P2pmdInv'
      BY <1>1, <2>h, <1>i, <2>3, <2>4, <2>5 DEF P2pmdInv
  <2>7. bv' \subseteq 0 .. 5
      BY <1>i, <2>1
  <2> QED
      BY <1>1, <1>i, <2>1, <2>h, <2>2, <2>6, <2>7, P2pmdAccepted
<1>5. CASE value = "number"
  <2>1. Becomes(_handle_parse_failure(Memory, 0, bv)) /\ pc' = "failed" /\ bv' = bv
      BY <1>5 DEF ParseEndpoint, Accept, Bit, Refuse
  <2>3. Faulty(odd')
      BY <1>2, <1>5, FaultyIf
  <2> QED
      BY <1>1, <1>2, <1>i, <2>1, <2>3, P2pmdRefusalPlain
<1>6. CASE value # "number" /\ 1 \in bv
  <2> DEFINE h == Set(Memory, "p2pmd_endpoint")
  <2>1. Becomes(_handle_parse_failure(h, 0, bv)) /\ pc' = "failed" /\ bv' = bv
      BY <1>6 DEF ParseEndpoint, Accept, Bit, Refuse
  <2>3. Faulty(odd')
      BY <1>2, <1>3, <1>6, FaultyIf
  <2>4. /\ h \in Mem /\ h.misused = {}
        /\ h.heap["p2pmd_endpoint"] = "live"
        /\ 5 \in bv => h.heap["predecessor"] = "live"
        /\ 4 \in bv => (h.heap["successor_list"] = "live" \/ "r_first" \in odd' \/ "repeated" \in odd')
    <3>1. h.heap["predecessor"] = heap["predecessor"] /\ h.heap["successor_list"] = heap["successor_list"]
        BY <1>s, <1>p
    <3> HIDE DEF h
    <3>2. /\ 5 \in bv => heap["predecessor"] = "live"
          /\ 4 \in bv => heap["successor_list"] = "live" \/ "r_first" \in odd
        BY <1>1, P2pmdState
    <3> QED
        BY <1>2, <1>i, <1>s, <3>1, <3>2 DEF h
  <2> HIDE DEF h
  <2> QED
      BY <1>1, <1>2, <1>i, <2>1, <2>3, <2>4, P2pmdRefusal
<1> QED
    BY <1>4, <1>5, <1>6

(* predecessor: as endpoint; of just the largest length it is not ended.     *)
LEMMA ParsePredecessorStep ==
  ASSUME StartInv, NEW value \in {"text", "edge", "long", "number"}, ParsePredecessor(value)
  PROVE  StartInv'
<1> DEFINE fits == value \in {"text", "edge"}
<1>1. /\ pc = "p2pmd" /\ seen' = seen \cup {"predecessor"} /\ UNCHANGED <<spaces, made, table>>
      /\ cfg' = [cfg EXCEPT !.ended = value # "edge"]
    BY DEF ParsePredecessor
<1>2. /\ ~fits => "wrong" \in odd'
      /\ "predecessor" \in seen => "repeated" \in odd'
      /\ fits /\ "predecessor" \notin seen => odd' \subseteq odd \cup {"edge"}
      /\ value = "edge" => "edge" \in odd'
      /\ odd \subseteq odd'
  <2>1. odd' = odd \cup Flaws("predecessor", ~fits) \cup ({value} \cap {"edge"})
      BY DEF ParsePredecessor
  <2>2. fits /\ "predecessor" \notin seen => Flaws("predecessor", ~fits) = {}
      BY DEF Flaws
  <2>3. /\ ~fits => "wrong" \in Flaws("predecessor", ~fits)
        /\ "predecessor" \in seen => "repeated" \in Flaws("predecessor", ~fits)
      BY DEF Flaws
  <2> HIDE DEF fits
  <2> QED
      BY <2>1, <2>2, <2>3
<1>i. /\ BitsOfP2pmd /\ P2pmdHeap /\ misused = {} /\ P2pmdRoom /\ spaces = <<>>
      /\ Memory \in Mem /\ bv \in SUBSET (0 .. 5) /\ odd \subseteq Harmless /\ cfg \in CfgType
    BY <1>1, P2pmdState
<1>c. /\ cfg' \in CfgType
      /\ cfg'.ended = (value # "edge")
      /\ cfg'._r_list = cfg._r_list /\ cfg'.r = cfg.r /\ cfg'.room = cfg.room
    BY <1>1, <1>i DEF CfgType
<1>e. cfg'.ended = cfg.ended \/ "edge" \in odd'
  <2>1. (~cfg.ended => "edge" \in odd) /\ cfg.ended \in BOOLEAN
      BY <1>i DEF StartInv, OddInv, CfgType
  <2> QED
      BY <1>2, <1>c, <2>1
<1>3. 5 \in bv <=> "predecessor" \in seen
    BY <1>i DEF BitsOfP2pmd
<1>s. /\ Set(Memory, "predecessor") \in Mem
      /\ Set(Memory, "predecessor").heap["predecessor"] = "live"
      /\ \A q \in Pointers \ {"predecessor"} : Set(Memory, "predecessor").heap[q] = heap[q]
      /\ Set(Memory, "predecessor").misused = misused
  <2>1. "predecessor" \in Pointers
      BY DEF Pointers
  <2> QED
      BY <1>i, <2>1, SetFacts
<1>p. {"p2pmd_endpoint", "successor_list"} \subseteq Pointers
    BY DEF Pointers
<1>4. CASE fits /\ 5 \notin bv
  <2>1. /\ Becomes(Set(Memory, "predecessor")) /\ bv' = bv \cup {5} /\ pc' = pc
      BY <1>4 DEF ParsePredecessor, Accept, Bit
  <2>h. /\ heap'["predecessor"] = "live" /\ misused' = misused /\ Memory' \in Mem
        /\ heap'["p2pmd_endpoint"] = heap["p2pmd_endpoint"]
        /\ heap'["successor_list"] = heap["successor_list"]
      BY <1>s, <2>1, <1>p DEF Becomes, Memory, Mem
  <2> HIDE DEF fits
  <2>2. odd' \subseteq odd \cup {"edge"}
      BY <1>2, <1>3, <1>4
  <2>3. BitsOfP2pmd'
      BY <1>1, <2>1, <1>i DEF BitsOfP2pmd
  <2>4. P2pmdHeap'
      BY <1>1, <2>h, <1>i DEF P2pmdHeap, Expected
  <2>5. P2pmdRoom'
      BY <1>1, <1>2, <1>c, <2>1, <1>i, <2>2 DEF P2pmdRoom
  <2>6. P2pmdInv'
      BY <1>1, <2>h, <1>i, <2>3, <2>4, <2>5 DEF P2pmdInv
  <2>7. bv' \subseteq 0 .. 5
      BY <1>i, <2>1
  <2>8. odd' \subseteq Harmless
    <3>1. odd \subseteq Harmless
        BY <1>i
    <3> QED
        BY <2>2, <3>1 DEF Harmless
  <2> QED
      BY <1>1, <1>2, <1>c, <1>e, <2>1, <2>h, <2>6, <2>7, <2>8, P2pmdAccepted
<1>5. CASE ~fits
  <2>1. Becomes(_handle_parse_failure(Memory, 0, bv)) /\ pc' = "failed" /\ bv' = bv
      BY <1>5 DEF ParsePredecessor, Accept, Bit, Refuse
  <2> HIDE DEF fits
  <2>3. Faulty(odd')
      BY <1>2, <1>5, FaultyIf
  <2> QED
      BY <1>1, <1>2, <1>c, <1>e, <2>1, <2>3, P2pmdRefusalPlain
<1>6. CASE fits /\ 5 \in bv
  <2> DEFINE h == Set(Memory, "predecessor")
  <2>1. Becomes(_handle_parse_failure(h, 0, bv)) /\ pc' = "failed" /\ bv' = bv
      BY <1>6 DEF ParsePredecessor, Accept, Bit, Refuse
  <2>3. Faulty(odd')
      BY <1>2, <1>3, <1>6, FaultyIf
  <2>4. /\ h \in Mem /\ h.misused = {}
        /\ h.heap["predecessor"] = "live"
        /\ 1 \in bv => h.heap["p2pmd_endpoint"] = "live"
        /\ 4 \in bv => (h.heap["successor_list"] = "live" \/ "r_first" \in odd' \/ "repeated" \in odd')
    <3>1. h.heap["p2pmd_endpoint"] = heap["p2pmd_endpoint"] /\ h.heap["successor_list"] = heap["successor_list"]
        BY <1>s, <1>p
    <3> HIDE DEF h
    <3>2. /\ 1 \in bv => heap["p2pmd_endpoint"] = "live"
          /\ 4 \in bv => heap["successor_list"] = "live" \/ "r_first" \in odd
        BY <1>1, P2pmdState
    <3> HIDE DEF fits
    <3> QED
        BY <1>2, <1>i, <1>s, <3>1, <3>2 DEF h
  <2> HIDE DEF h, fits
  <2> QED
      BY <1>1, <1>2, <1>c, <1>e, <1>i, <2>1, <2>3, <2>4, P2pmdRefusal
<1> QED
    BY <1>4, <1>5, <1>6

(* successor_list: a list that is too long is freed, and again if the bit is *)
(* set.                                                                      *)
LEMMA ParseSuccessorListStep ==
  ASSUME StartInv, NEW n \in Lengths, NEW value \in {"text", "number", "long", "no_array"}
  PROVE  ParseSuccessorList(n, value) => StartInv'
<1>a. SUFFICES ASSUME ParseSuccessorList(n, value) PROVE StartInv'
    OBVIOUS
<1> DEFINE wrong == value # "text" \/ ("r" \in seen /\ n # cfg.r)
           h == Set(Memory, "successor_list")
<1>1. /\ pc = "p2pmd" /\ seen' = seen \cup {"successor_list"} /\ UNCHANGED <<spaces, made, table>>
    BY <1>a DEF ParseSuccessorList, Read
<1>2. /\ wrong => "wrong" \in odd'
      /\ "successor_list" \in seen => "repeated" \in odd'
      /\ ~wrong /\ "successor_list" \notin seen => odd' = odd
      /\ odd \subseteq odd'
  <2>1. wrong \in BOOLEAN /\ odd' = odd \cup Flaws("successor_list", wrong)
      BY <1>a DEF ParseSuccessorList, Read
  <2> HIDE DEF wrong
  <2> QED
      BY <2>1, FieldFlaws
<1>i. /\ BitsOfP2pmd /\ P2pmdHeap /\ misused = {} /\ P2pmdRoom /\ spaces = <<>>
      /\ Memory \in Mem /\ bv \in SUBSET (0 .. 5) /\ odd \subseteq Harmless /\ cfg \in CfgType
    BY <1>1, P2pmdState
<1>3. /\ 4 \in bv <=> "successor_list" \in seen \/ "r" \in seen
      /\ 2 \in bv <=> "r" \in seen
    BY <1>i DEF BitsOfP2pmd
<1>n. n \in Nat
    BY StartupAssumption
<1>s. /\ h \in Mem /\ h.heap["successor_list"] = "live"
      /\ \A q \in Pointers \ {"successor_list"} : h.heap[q] = heap[q]
      /\ h.misused = {}
  <2>1. "successor_list" \in Pointers
      BY DEF Pointers
  <2> QED
      BY <1>i, <2>1, SetFacts
<1>p. {"p2pmd_endpoint", "predecessor", "successor_list"} \subseteq Pointers
    BY DEF Pointers
<1>l. /\ 1 \in bv => h.heap["p2pmd_endpoint"] = "live"
      /\ 5 \in bv => h.heap["predecessor"] = "live"
  <2> HIDE DEF h
  <2>1. /\ 1 \in bv => heap["p2pmd_endpoint"] = "live"
        /\ 5 \in bv => heap["predecessor"] = "live"
      BY <1>1, P2pmdState
  <2> QED
      BY <1>s, <1>p, <2>1
<1>4. CASE value = "no_array"
  <2>1. Becomes(_handle_parse_failure(Memory, 0, bv)) /\ pc' = "failed" /\ bv' = bv /\ cfg' = cfg
      BY <1>a, <1>4 DEF ParseSuccessorList, Refuse
  <2>2. Faulty(odd')
      BY <1>2, <1>4, FaultyIf
  <2> QED
      BY <1>1, <1>2, <1>i, <2>1, <2>2, P2pmdRefusalPlain
<1>5. CASE value # "no_array" /\ ~ListLengthFits(n)
  <2>1. /\ Becomes(_handle_parse_failure(Memory, 0, bv)) /\ pc' = "failed" /\ bv' = bv
        /\ cfg' = [cfg EXCEPT !._r_list = n]
      BY <1>a, <1>5 DEF ParseSuccessorList, Refuse
  <2>2. cfg' \in CfgType /\ cfg'.ended = cfg.ended
      BY <2>1, <1>i, <1>n DEF CfgType
  <2>3. wrong
      BY <1>3, <1>5 DEF ListLengthFits, Bit
  <2>4. Faulty(odd')
      BY <1>2, <2>3, FaultyIf
  <2> QED
      BY <1>1, <1>2, <2>1, <2>2, <2>4, P2pmdRefusalPlain
<1>6. CASE value # "no_array" /\ ListLengthFits(n)
  <2>1. cfg' = [cfg EXCEPT !._r_list = n, !.room = n]
      BY <1>a, <1>6 DEF ParseSuccessorList
  <2>2. cfg' \in CfgType /\ cfg'.ended = cfg.ended /\ cfg'.r = cfg.r /\ cfg'._r_list = n /\ cfg'.room = n
      BY <2>1, <1>i, <1>n DEF CfgType
  <2>3. CASE value = "long"
    <3> DEFINE g == Free(h, "successor_list")
    <3>1. Becomes(_handle_parse_failure(g, 0, bv)) /\ pc' = "failed" /\ bv' = bv
        BY <1>a, <1>6, <2>3 DEF ParseSuccessorList, Refuse, ListBits
    <3> HIDE DEF h
    <3>2. /\ g \in Mem /\ g.misused = {}
          /\ \A q \in Pointers \ {"successor_list"} : g.heap[q] = h.heap[q]
      <4>1. /\ g \in Mem
            /\ \A q \in Pointers \ {"successor_list"} : g.heap[q] = h.heap[q]
            /\ g.misused = h.misused \cup {q \in {"successor_list"} : h.heap[q] # "live"}
          BY <1>s, <1>p, FreeFacts
      <4> HIDE DEF g
      <4> QED
          BY <1>s, <4>1
    <3> HIDE DEF g
    <3>3. /\ 1 \in bv => g.heap["p2pmd_endpoint"] = "live"
          /\ 5 \in bv => g.heap["predecessor"] = "live"
        BY <1>l, <1>p, <3>2
    <3>4. 4 \in bv => "repeated" \in odd' \/ "r_first" \in odd'
        BY <1>2, <1>3, <1>i DEF P2pmdRoom
    <3>5. Faulty(odd')
        BY <1>2, <2>3, FaultyIf
    <3> QED
        BY <1>1, <1>2, <1>i, <2>2, <3>1, <3>2, <3>3, <3>4, <3>5, P2pmdRefusal
  <2>4. CASE value = "number" \/ (value = "text" /\ 4 \in bv)
    <3>1. Becomes(_handle_parse_failure(h, 0, bv)) /\ pc' = "failed" /\ bv' = bv
      <4>1. CASE value = "number"
          BY <1>a, <1>6, <4>1 DEF ParseSuccessorList, Refuse, ListBits
      <4>2. CASE value = "text" /\ 4 \in bv
          BY <1>a, <1>6, <4>2 DEF ParseSuccessorList, Refuse, Accept, Bit
      <4> QED
          BY <2>4, <4>1, <4>2
    <3> HIDE DEF h
    <3>2. "wrong" \in odd' \/ "repeated" \in odd' \/ "r_first" \in odd'
      <4>1. CASE value = "number"
          BY <1>2, <4>1
      <4>2. CASE value = "text" /\ 4 \in bv
        <5>1. "successor_list" \in seen => "repeated" \in odd'
            BY <1>2
        <5>2. "successor_list" \notin seen => "r_first" \in odd'
            BY <1>2, <1>3, <1>i, <4>2 DEF P2pmdRoom
        <5> QED
            BY <5>1, <5>2
      <4> QED
          BY <2>4, <4>1, <4>2
    <3>3. Faulty(odd')
        BY <3>2, FaultyIf
    <3> QED
        BY <1>1, <1>2, <1>i, <1>l, <1>s, <2>2, <3>1, <3>3, P2pmdRefusal
  <2>5. CASE value = "text" /\ 4 \notin bv
    <3>1. Becomes(h)
        BY <1>a, <1>6, <2>5 DEF ParseSuccessorList, Accept, Bit
    <3>b. bv' = bv \cup {4} /\ pc' = pc
        BY <1>a, <1>6, <2>5 DEF ParseSuccessorList, Accept, Bit
    <3> HIDE DEF h
    <3>h. /\ heap'["successor_list"] = "live" /\ misused' = misused /\ Memory' \in Mem
          /\ heap'["p2pmd_endpoint"] = heap["p2pmd_endpoint"]
          /\ heap'["predecessor"] = heap["predecessor"]
        BY <1>i, <1>s, <3>1, <1>p DEF Becomes, Memory, Mem
    <3>s. "r" \notin seen /\ "successor_list" \notin seen
        BY <1>3, <2>5
    <3>2. odd' = odd
        BY <1>2, <2>5, <3>s
    <3> HIDE DEF wrong
    <3>i. BitsOfP2pmd /\ bv \in SUBSET (0 .. 5)
        BY <1>i
    <3>3. BitsOfP2pmd'
        BY <1>1, <3>b, <3>i DEF BitsOfP2pmd
    <3>4. P2pmdHeap'
        BY <1>1, <3>h, <1>i DEF P2pmdHeap, Expected
    <3>5. P2pmdRoom'
        BY <1>1, <2>2, <3>s, <1>i, <3>2 DEF P2pmdRoom
    <3>6. P2pmdInv'
        BY <1>1, <3>h, <1>i, <3>3, <3>4, <3>5 DEF P2pmdInv
    <3>7. bv' \subseteq 0 .. 5
        BY <3>i, <3>b
    <3> QED
        BY <1>1, <1>i, <2>2, <3>b, <3>h, <3>2, <3>6, <3>7, P2pmdAccepted
  <2> QED
      BY <1>6, <2>3, <2>4, <2>5
<1> QED
    BY <1>4, <1>5, <1>6

(* r: it marks the list as given, whether there is one or not.               *)
LEMMA ParseRStep ==
  ASSUME StartInv, NEW n \in Lengths \cup {None}, ParseR(n)
  PROVE  StartInv'
<1> DEFINE wrong == n = None \/ ("successor_list" \in seen /\ n # cfg._r_list)
           bits == bv \cup {4}
<1>1. /\ pc = "p2pmd" /\ seen' = seen \cup {"r"} /\ UNCHANGED <<spaces, made, table>>
    BY DEF ParseR, Read
<1>2. /\ wrong => "wrong" \in odd'
      /\ "r" \in seen => "repeated" \in odd'
      /\ "successor_list" \notin seen => "r_first" \in odd'
      /\ ~wrong /\ "r" \notin seen => odd' \subseteq odd \cup {"r_first"}
      /\ ~wrong /\ "r" \notin seen /\ "successor_list" \in seen => odd' = odd
      /\ odd \subseteq odd'
  <2>1. wrong \in BOOLEAN /\ odd' = odd \cup Flaws("r", wrong)
      BY DEF ParseR, Read
  <2> HIDE DEF wrong
  <2>2. /\ wrong => "wrong" \in Flaws("r", wrong)
        /\ "r" \in seen => "repeated" \in Flaws("r", wrong)
        /\ "successor_list" \notin seen => "r_first" \in Flaws("r", wrong)
        /\ ~wrong /\ "r" \notin seen => Flaws("r", wrong) \subseteq {"r_first"}
        /\ ~wrong /\ "r" \notin seen /\ "successor_list" \in seen => Flaws("r", wrong) = {}
      BY DEF Flaws
  <2> QED
      BY <2>1, <2>2
<1>i. /\ BitsOfP2pmd /\ P2pmdHeap /\ misused = {} /\ P2pmdRoom /\ spaces = <<>>
      /\ Memory \in Mem /\ bv \in SUBSET (0 .. 5) /\ odd \subseteq Harmless /\ cfg \in CfgType
    BY <1>1, P2pmdState
<1>3. 2 \in bv <=> "r" \in seen
    BY <1>i DEF BitsOfP2pmd
<1>4. CASE n = None
  <2>1. Becomes(_handle_parse_failure(Memory, 0, bv)) /\ pc' = "failed" /\ bv' = bv /\ cfg' = cfg
      BY <1>4 DEF ParseR, Refuse
  <2>2. Faulty(odd')
      BY <1>2, <1>4, FaultyIf
  <2> QED
      BY <1>1, <1>2, <1>i, <2>1, <2>2, P2pmdRefusalPlain
<1>5. CASE n # None
  <2>1. cfg' = [cfg EXCEPT !.r = n] /\ n \in Nat
      BY <1>5, StartupAssumption DEF ParseR
  <2>2. /\ cfg' \in CfgType /\ cfg'.ended = cfg.ended /\ cfg'.r = n
        /\ cfg'._r_list = cfg._r_list /\ cfg'.room = cfg.room
      BY <2>1, <1>i DEF CfgType
  <2>b. bits \in SUBSET (0 .. 5)
      BY <1>i
  <2>3. CASE ~RFits(n) \/ 2 \in bits
    <3>1. Becomes(_handle_parse_failure(Memory, 0, bits)) /\ pc' = "failed" /\ bv' = bits
        BY <1>5, <2>3 DEF ParseR, Refuse, Bit
    <3>2. "wrong" \in odd' \/ "repeated" \in odd' \/ "r_first" \in odd'
        BY <1>2, <1>3, <2>3 DEF RFits
    <3>3. Faulty(odd')
        BY <3>2, FaultyIf
    <3> DEFINE h == Memory
    <3>4. /\ h \in Mem /\ h.misused = {}
          /\ 1 \in bits => h.heap["p2pmd_endpoint"] = "live"
          /\ 5 \in bits => h.heap["predecessor"] = "live"
        BY <1>1, P2pmdState DEF Memory
    <3>5. heap["successor_list"] = "live" \/ "r_first" \in odd'
        BY <1>2, <1>i DEF P2pmdHeap, Expected
    <3>6. 4 \in bits => (h.heap["successor_list"] = "live" \/ "r_first" \in odd' \/ "repeated" \in odd')
        BY <3>5 DEF Memory
    <3>7. Becomes(_handle_parse_failure(h, 0, bits))
        BY <3>1
    <3>8. bv' \subseteq 0 .. 5 /\ pc' \in {"failed", "exited"}
        BY <2>b, <3>1
    <3> HIDE DEF h, bits, wrong
    <3> QED
        BY <1>1, <1>2, <2>2, <2>b, <3>3, <3>4, <3>6, <3>7, <3>8, P2pmdRefusal
  <2>4. CASE RFits(n) /\ 2 \notin bits
    <3>1. heap' = heap /\ misused' = misused /\ pc' = pc /\ bv' = bits \cup {2}
        BY <1>5, <2>4 DEF ParseR, Bit
    <3>2. ~wrong /\ "r" \notin seen /\ n = cfg._r_list
        BY <1>3, <1>5, <2>4 DEF RFits
    <3> HIDE DEF wrong
    <3>3. BitsOfP2pmd'
        BY <1>1, <3>1, <1>i DEF BitsOfP2pmd
    <3>4. P2pmdHeap'
        BY <1>1, <3>1, <1>i DEF P2pmdHeap, Expected
    <3>5. P2pmdRoom'
        BY <1>1, <1>2, <2>2, <3>2, <1>i DEF P2pmdRoom
    <3>6. P2pmdInv'
        BY <1>1, <1>i, <3>1, <3>3, <3>4, <3>5 DEF P2pmdInv
    <3>7. Memory' \in Mem /\ bv' \subseteq 0 .. 5
        BY <1>i, <3>1 DEF Memory
    <3>8. odd' \subseteq Harmless
      <4>1. odd' \subseteq odd \cup {"r_first"} /\ odd \subseteq Harmless
          BY <1>2, <1>i, <3>2
      <4> QED
          BY <4>1 DEF Harmless
    <3> QED
        BY <1>1, <1>2, <2>2, <3>1, <3>6, <3>7, <3>8, P2pmdAccepted
  <2> QED
      BY <2>3, <2>4
<1> QED
    BY <1>4, <1>5

LEMMA ParseUnknownStep ==
  ASSUME StartInv, ParseUnknown
  PROVE  StartInv'
<1>1. /\ pc = "p2pmd" /\ UNCHANGED <<spaces, made, cfg>> /\ bv' = bv /\ pc' = "exited"
      /\ Becomes(_handle_parse_failure(Memory, 0, bv))
      /\ odd' = odd \cup Flaws("unknown", TRUE)
    BY DEF ParseUnknown, Read
<1>2. "wrong" \in odd' /\ odd \subseteq odd' /\ cfg' \in CfgType
    BY <1>1, P2pmdState DEF Flaws
<1>3. Faulty(odd')
    BY <1>2, FaultyIf
<1> QED
    BY <1>1, <1>2, <1>3, P2pmdRefusalPlain

(* The end of the section: r and the other fields are there, of the list     *)
(* only the bit is sure.                                                     *)
LEMMA EndP2pmdStep ==
  ASSUME StartInv, EndP2pmd
  PROVE  StartInv'
<1>1. pc = "p2pmd" /\ UNCHANGED <<heap, misused, cfg, spaces, made, table>>
    BY DEF EndP2pmd
<1>i. /\ BitsOfP2pmd /\ P2pmdHeap /\ misused = {} /\ P2pmdRoom /\ spaces = <<>>
      /\ Memory \in Mem /\ bv \in SUBSET (0 .. 5) /\ odd \subseteq Harmless /\ cfg \in CfgType
    BY <1>1, P2pmdState
<1>2. CASE bv = 0 .. 5
  <2>1. pc' = "tsd" /\ bv' = {} /\ odd' = odd
      BY <1>2 DEF EndP2pmd, magic0
  <2>2. 1 \in bv /\ 2 \in bv /\ 5 \in bv
      BY <1>2
  <2>3. "endpoint" \in seen /\ "r" \in seen /\ "predecessor" \in seen
      BY <1>i, <2>2 DEF BitsOfP2pmd
  <2>4. /\ heap["p2pmd_endpoint"] = "live" /\ heap["predecessor"] = "live"
        /\ \/ heap["successor_list"] = "live" /\ cfg.r = cfg.room /\ "r_first" \notin odd
           \/ heap["successor_list"] = "unset" /\ "r_first" \in odd
      BY <1>i, <2>3 DEF P2pmdHeap, P2pmdRoom, Expected
  <2>5. RestInv'
      BY <1>1, <1>i, <2>1, <2>4 DEF RestInv, Spaces, Create
  <2>6. Len(spaces) = 0 /\ made = 0
      BY <1>1, <1>i DEF StartInv, TypeInv
  <2>7. SpacesInv' /\ TableInv'
      BY <1>1, <2>1, <2>6 DEF SpacesInv, TableInv
  <2>8. TypeInv'
    <3>1. Memory' \in Mem /\ pc' \in Rest
        BY <1>1, <1>i, <2>1 DEF Memory, Rest
    <3>2. spaces \in Seq(SpaceType) /\ made \in 0 .. Len(spaces)
        BY DEF StartInv, TypeInv
    <3> QED
        BY <1>1, <1>i, <2>1, <3>1, <3>2 DEF TypeInv
  <2>9. OddInv' /\ UndefinedOnlyIf' /\ P2pmdInv'
      BY <1>1, <1>i, <2>1 DEF StartInv, OddInv, UndefinedOnlyIf, P2pmdInv, Ends
  <2> QED
      BY <2>5, <2>7, <2>8, <2>9 DEF StartInv
<1>3. CASE bv # 0 .. 5
  <2>1. pc' = "exited" /\ bv' = bv /\ odd' = odd \cup {"missing"}
      BY <1>3 DEF EndP2pmd, magic0
  <2>2. "missing" \in odd' /\ odd \subseteq odd'
      BY <2>1
  <2>3. Faulty(odd') /\ Memory' \in Mem
      BY <1>1, <1>i, <2>2, FaultyIf DEF Memory
  <2> QED
      BY <1>1, <1>i, <2>1, <2>2, <2>3, P2pmdRefused
<1> QED
    BY <1>2, <1>3

LEMMA ParseP2pmdStep ==
  ASSUME StartInv, ParseP2pmd
  PROVE  StartInv'
BY ParseModeStep, ParseEndpointStep, ParseRMaxStep, ParseRStep, ParseSuccessorListStep,
   ParsePredecessorStep, ParseUnknownStep, EndP2pmdStep DEF ParseP2pmd

-------------------------------------------------------------------------------
(* The section tsd and the spaces *)

LEMMA UndefinedKept ==
  ASSUME UndefinedOnlyIf, misused' \subseteq misused, odd \subseteq odd'
  PROVE  UndefinedOnlyIf'
BY DEF UndefinedOnlyIf

(* A refusal that leaves memory as it is, or frees what is live.             *)
LEMMA RestRefused ==
  ASSUME StartInv, pc' \in {"failed", "exited"}, Memory' \in Mem,
         misused' \subseteq misused, odd \subseteq odd', Faulty(odd'),
         bv' \subseteq 0 .. 5, UNCHANGED <<cfg, spaces, made>>
  PROVE  StartInv'
<1>1. UndefinedOnlyIf'
    BY UndefinedKept DEF StartInv
<1>2. OddInv' /\ pc' \in Ends
    BY DEF StartInv, OddInv, Ends
<1>3. /\ cfg' \in CfgType /\ spaces' \in Seq(SpaceType) /\ made' \in 0 .. Len(spaces')
    BY DEF StartInv, TypeInv
<1> QED
    BY <1>1, <1>2, <1>3, Refused

LEMMA RestState ==
  ASSUME StartInv, pc \in Rest
  PROVE  /\ bv \in SUBSET (0 .. 5) /\ Memory \in Mem /\ odd \subseteq Harmless
         /\ cfg \in CfgType /\ spaces \in Seq(SpaceType) /\ made \in 0 .. Len(spaces)
         /\ heap["p2pmd_endpoint"] = "live" /\ heap["predecessor"] = "live"
         /\ \/ heap["successor_list"] = "live" /\ cfg.r = cfg.room /\ "r_first" \notin odd
            \/ heap["successor_list"] = "unset" /\ "r_first" \in odd
         /\ pc # "tsd" => heap["tsd_endpoint"] = "live"
         /\ UndefinedOnlyIf
         /\ ~cfg.ended => "edge" \in odd
<1>1. pc \notin Ends
    BY DEF Ends, Rest, Spaces, Create
<1> QED
    BY <1>1 DEF StartInv, TypeInv, OddInv, RestInv

(* Steps of the parser that leave the spaces alone.                          *)
LEMMA SpacesKept ==
  ASSUME StartInv, pc \in Rest, pc' \in {"spaces", "between", "parsed", "config", "sockets"},
         pc \notin {"space", "making", "listening"}, UNCHANGED <<spaces, made, table>>, odd \subseteq odd'
  PROVE  SpacesInv' /\ TableInv'
<1>1. pc \notin Ends /\ pc' # "space" /\ made = 0
  <2>1. pc \notin Ends
      BY DEF Ends, Rest, Spaces, Create
  <2> QED
      BY <2>1 DEF StartInv, TableInv
<1>2. SpacesInv'
    BY <1>1 DEF StartInv, SpacesInv, Complete
<1>3. TableInv'
    BY <1>1 DEF TableInv
<1> QED
    BY <1>2, <1>3

(* ... and whatever the memory but for what the actor will use.              *)
LEMMA RestStep ==
  ASSUME StartInv, pc \in Rest, pc' \in Rest, odd \subseteq odd', odd' \subseteq Harmless,
         "r_first" \in odd' => "r_first" \in odd,
         Memory' \in Mem, bv' \subseteq 0 .. 5, cfg' = cfg,
         heap'["p2pmd_endpoint"] = heap["p2pmd_endpoint"],
         heap'["predecessor"] = heap["predecessor"],
         heap'["successor_list"] = heap["successor_list"],
         pc' # "tsd" => heap'["tsd_endpoint"] = "live",
         pc' \in {"tsd", "spaces"} => bv' = {} /\ spaces' = <<>>,
         pc' \in Spaces => bv' \subseteq 0 .. 3 /\ heap'["spaces"] = "live",
         pc' \in {"parsed", "config"} \cup Create => heap'["spaces"] = "live" \/ "no_spaces" \in odd',
         pc' \in Create => heap'["join_address"] = "live" \/ "edge" \in odd',
         UndefinedOnlyIf', SpacesInv', TableInv',
         spaces' \in Seq(SpaceType), made' \in 0 .. Len(spaces')
  PROVE  StartInv'
<1>1. pc' \notin Ends /\ pc' \notin {"log", "read", "p2pmd"}
    BY DEF Ends, Rest, Spaces, Create
<1>2. TypeInv'
    BY RestState DEF TypeInv
<1>3. OddInv'
    BY <1>1, RestState DEF OddInv, Ends
<1>4. P2pmdInv'
    BY <1>1 DEF P2pmdInv
<1>5. RestInv'
  <2>1. /\ heap'["p2pmd_endpoint"] = "live" /\ heap'["predecessor"] = "live"
        /\ \/ heap'["successor_list"] = "live" /\ cfg'.r = cfg'.room /\ "r_first" \notin odd'
           \/ heap'["successor_list"] = "unset" /\ "r_first" \in odd'
      BY RestState
  <2> QED
      BY <2>1 DEF RestInv
<1> QED
    BY <1>2, <1>3, <1>4, <1>5 DEF StartInv

LEMMA ParseTsdStep ==
  ASSUME StartInv, NEW fields, ParseTsd(fields)
  PROVE  StartInv'
<1>1. pc = "tsd" /\ pc \in Rest /\ UNCHANGED <<bv, cfg, seen, spaces, made, table>>
    BY DEF ParseTsd, Rest
<1>i. /\ bv \in SUBSET (0 .. 5) /\ Memory \in Mem /\ odd \subseteq Harmless /\ UndefinedOnlyIf
      /\ spaces \in Seq(SpaceType) /\ made \in 0 .. Len(spaces)
    BY <1>1, RestState
<1>p. "tsd_endpoint" \in Pointers /\ {"p2pmd_endpoint", "predecessor", "successor_list"} \subseteq Pointers \ {"tsd_endpoint"}
    BY DEF Pointers
<1>2. /\ Memory' \in Mem /\ misused' = misused
      /\ \A q \in Pointers \ {"tsd_endpoint"} : heap'[q] = heap[q]
      /\ "endpoint" \in Range(fields) => heap'["tsd_endpoint"] = "live"
  <2>1. CASE "endpoint" \in Range(fields)
    <3> DEFINE h == Set(Memory, "tsd_endpoint")
    <3>1. Becomes(h)
        BY <2>1 DEF ParseTsd
    <3>2. /\ h \in Mem /\ h.heap["tsd_endpoint"] = "live"
          /\ \A q \in Pointers \ {"tsd_endpoint"} : h.heap[q] = heap[q]
          /\ h.misused = misused
        BY <1>i, <1>p, SetFacts
    <3> HIDE DEF h
    <3> QED
        BY <3>1, <3>2 DEF Becomes, Memory, Mem
  <2>2. CASE "endpoint" \notin Range(fields)
      BY <1>i, <2>2 DEF ParseTsd, Memory
  <2> QED
      BY <2>1, <2>2
<1>3. CASE fields = TsdFields
  <2>1. pc' = "spaces" /\ odd' = odd
      BY <1>3 DEF ParseTsd
  <2>2. "endpoint" \in Range(fields)
    <3>1. fields[1] = "endpoint" /\ 1 \in DOMAIN fields
        BY <1>3 DEF TsdFields
    <3> QED
        BY <3>1 DEF Range
  <2>3. UndefinedOnlyIf'
      BY <1>i, <1>2, <2>1, UndefinedKept
  <2>4. SpacesInv' /\ TableInv'
      BY <1>1, <2>1, SpacesKept
  <2>5. bv' = {} /\ spaces' = <<>>
      BY <1>1 DEF StartInv, RestInv
  <2>6. /\ pc' \in Rest /\ pc' \notin Spaces
        /\ pc' \notin {"parsed", "config"} \cup Create
        /\ pc' \notin Create
      BY <2>1 DEF Rest, Spaces, Create
  <2> QED
      BY <1>1, <1>i, <1>p, <1>2, <2>1, <2>2, <2>3, <2>4, <2>5, <2>6, RestStep
<1>4. CASE fields # TsdFields
  <2>1. pc' = "failed" /\ odd' = odd \cup {"tsd"}
      BY <1>4 DEF ParseTsd
  <2>2. "tsd" \in odd' /\ odd \subseteq odd'
      BY <2>1
  <2>3. Faulty(odd')
      BY <2>2, FaultyIf
  <2> QED
      BY <1>1, <1>i, <1>2, <2>1, <2>2, <2>3, RestRefused
<1> QED
    BY <1>3, <1>4

LEMMA FoundSpacesStep ==
  ASSUME StartInv, FoundSpaces
  PROVE  StartInv'
<1>1. /\ pc = "spaces" /\ pc \in Rest /\ pc' = "between" /\ UNCHANGED <<bv, cfg, odd, spaces, made, table>>
    BY DEF FoundSpaces, Rest
<1>i. /\ bv \in SUBSET (0 .. 5) /\ Memory \in Mem /\ odd \subseteq Harmless /\ UndefinedOnlyIf
      /\ spaces \in Seq(SpaceType) /\ made \in 0 .. Len(spaces) /\ heap["tsd_endpoint"] = "live"
    BY <1>1, RestState
<1>p. "spaces" \in Pointers /\ {"p2pmd_endpoint", "predecessor", "successor_list", "tsd_endpoint"} \subseteq Pointers \ {"spaces"}
    BY DEF Pointers
<1>2. /\ Memory' \in Mem /\ misused' = misused /\ heap'["spaces"] = "live"
      /\ \A q \in Pointers \ {"spaces"} : heap'[q] = heap[q]
  <2> DEFINE h == Set(Memory, "spaces")
  <2>1. Becomes(h)
      BY DEF FoundSpaces
  <2>2. /\ h \in Mem /\ h.heap["spaces"] = "live"
        /\ \A q \in Pointers \ {"spaces"} : h.heap[q] = heap[q]
        /\ h.misused = misused
      BY <1>i, <1>p, SetFacts
  <2> HIDE DEF h
  <2> QED
      BY <2>1, <2>2 DEF Becomes, Memory, Mem
<1>3. UndefinedOnlyIf'
    BY <1>1, <1>i, <1>2, UndefinedKept
<1>4. SpacesInv' /\ TableInv'
    BY <1>1, SpacesKept
<1>5. bv = {}
    BY <1>1 DEF StartInv, RestInv
<1>6. /\ pc' \in Rest /\ pc' \notin {"tsd", "spaces"}
      /\ pc' \notin {"parsed", "config"} \cup Create
      /\ pc' \notin Create
    BY <1>1 DEF Rest, Spaces, Create
<1> QED
    BY <1>1, <1>i, <1>p, <1>2, <1>3, <1>4, <1>5, <1>6, RestStep

(* No section of spaces: nothing is freed, the bits are empty; the array is  *)
(* what was not allocated.                                                   *)
LEMMA MissingSpacesStep ==
  ASSUME StartInv, MissingSpaces
  PROVE  StartInv'
<1>1. /\ pc = "spaces" /\ pc \in Rest /\ UNCHANGED <<bv, cfg, spaces, made, table>>
      /\ odd' = odd \cup {"no_spaces"}
    BY DEF MissingSpaces, Rest
<1>i. /\ bv \in SUBSET (0 .. 5) /\ Memory \in Mem /\ odd \subseteq Harmless /\ UndefinedOnlyIf
      /\ spaces \in Seq(SpaceType) /\ made \in 0 .. Len(spaces) /\ heap["tsd_endpoint"] = "live"
      /\ cfg \in CfgType
    BY <1>1, RestState
<1>5. bv = {}
    BY <1>1 DEF StartInv, RestInv
<1>p. {"p2pmd_endpoint", "predecessor", "successor_list", "tsd_endpoint", "spaces"} \subseteq Pointers
    BY DEF Pointers
<1> DEFINE g == _handle_parse_failure(Memory, 0, bv)
<1>2. /\ g \in Mem /\ g.misused \subseteq misused
      /\ \A q \in Pointers : g.heap[q] = heap[q]
  <2>1. Freed(0, bv) = {} /\ 0 \in {0, 1}
      BY <1>5 DEF Freed
  <2>2. /\ g \in Mem
        /\ \A q \in g.misused : q \in Memory.misused \/ (q \in Freed(0, bv) /\ Memory.heap[q] # "live")
        /\ \A q \in Pointers \ Freed(0, bv) : g.heap[q] = Memory.heap[q]
      BY <1>i, <2>1, FailureFacts
  <2> HIDE DEF g
  <2> QED
      BY <2>1, <2>2 DEF Memory
<1>o. odd' \subseteq Harmless /\ "no_spaces" \in odd' /\ ("r_first" \in odd' => "r_first" \in odd)
  <2>1. odd' = odd \cup {"no_spaces"} /\ odd \subseteq Harmless
      BY <1>1, <1>i
  <2> QED
      BY <2>1 DEF Harmless
<1>3. CASE pc' = "parsed" /\ Becomes(g)
  <2> HIDE DEF g
  <2>1. Memory' \in Mem /\ misused' \subseteq misused /\ \A q \in Pointers : heap'[q] = heap[q]
      BY <1>2, <1>3 DEF Becomes, Memory, Mem
  <2>2. UndefinedOnlyIf'
      BY <1>1, <1>i, <2>1, UndefinedKept
  <2>3. SpacesInv' /\ TableInv'
      BY <1>1, <1>3, SpacesKept
  <2>4. pc' \in Rest /\ pc' \notin {"tsd", "spaces"} /\ pc' \notin Spaces /\ pc' \notin Create
      BY <1>3 DEF Rest, Spaces, Create
  <2> QED
      BY <1>1, <1>i, <1>o, <1>p, <2>1, <2>2, <2>3, <2>4, RestStep
<1>4. CASE pc' = "crashed" /\ Becomes(Use(g, "spaces"))
  <2> DEFINE u == Use(g, "spaces")
  <2>1. u \in Mem /\ u.misused \subseteq g.misused \cup {"spaces"}
    <3> HIDE DEF g
    <3>1. u \in Mem /\ u.misused = g.misused \cup {q \in {"spaces"} : g.heap[q] # "live"}
        BY <1>2, <1>p, UseFacts
    <3> QED
        BY <3>1
  <2>2. Becomes(u) /\ pc' = "crashed"
      BY <1>4
  <2> HIDE DEF g, u
  <2>3. Memory' \in Mem /\ misused' \subseteq misused \cup {"spaces"}
      BY <1>2, <2>1, <2>2 DEF Becomes, Memory, Mem
  <2>4. UndefinedOnlyIf'
      BY <1>1, <1>i, <1>o, <2>3 DEF UndefinedOnlyIf
  <2>5. OddInv' /\ pc' \in Ends
      BY <1>1, <2>2 DEF StartInv, OddInv, Ends
  <2> QED
      BY <1>1, <1>i, <2>3, <2>4, <2>5, Refused
<1> QED
    BY <1>3, <1>4 DEF MissingSpaces

(* A refusal among the spaces frees the endpoint and the spaces, which are   *)
(* live: the bits of a space do not reach the others.                        *)
LEMMA SpaceRefused ==
  ASSUME StartInv, pc \in Spaces, pc' \in {"failed", "exited"}, bv' = bv,
         Becomes(_handle_parse_failure(Memory, 1, bv)),
         UNCHANGED <<cfg, spaces, made>>, odd \subseteq odd', Faulty(odd')
  PROVE  StartInv'
<1>1. pc \in Rest
    BY DEF Rest
<1>i. bv \in SUBSET (0 .. 5) /\ Memory \in Mem /\ heap["p2pmd_endpoint"] = "live"
    BY <1>1, RestState
<1>2. bv \subseteq 0 .. 3 /\ heap["spaces"] = "live"
    BY <1>1 DEF StartInv, RestInv
<1> DEFINE g == _handle_parse_failure(Memory, 1, bv)
<1>3. /\ g \in Mem
      /\ \A q \in g.misused : q \in Memory.misused \/ (q \in Freed(1, bv) /\ Memory.heap[q] # "live")
  <2>1. 1 \in {0, 1}
      OBVIOUS
  <2> QED
      BY <1>i, <2>1, FailureFacts
<1> HIDE DEF g
<1>4. heap' = g.heap /\ misused' = g.misused
    BY DEF Becomes, g
<1>5. Memory' \in Mem
    BY <1>3, <1>4 DEF Memory, Mem
<1>6. \A q \in Freed(1, bv) : heap[q] = "live"
  <2>1. 4 \notin bv /\ 5 \notin bv
      BY <1>2
  <2> QED
      BY <1>i, <1>2, <2>1 DEF Freed
<1>7. misused' \subseteq misused
    BY <1>3, <1>4, <1>6 DEF Memory
<1>8. bv' \subseteq 0 .. 5
    BY <1>i
<1> QED
    BY <1>5, <1>7, <1>8, RestRefused

LEMMA SpacesState ==
  ASSUME StartInv, pc \in Spaces
  PROVE  /\ pc \in Rest /\ pc \notin Ends /\ made = 0
         /\ bv \subseteq 0 .. 3 /\ bv \subseteq 0 .. 5 /\ Memory \in Mem /\ odd \subseteq Harmless
         /\ spaces \in Seq(SpaceType) /\ UndefinedOnlyIf
         /\ heap["spaces"] = "live" /\ heap["tsd_endpoint"] = "live"
<1>1. pc \in Rest /\ pc \notin Ends /\ pc \notin {"making", "listening"} /\ pc # "tsd"
    BY DEF Rest, Spaces, Ends
<1>2. made = 0
    BY <1>1 DEF StartInv, TableInv
<1>3. bv \subseteq 0 .. 3 /\ heap["spaces"] = "live"
    BY <1>1 DEF StartInv, RestInv
<1> QED
    BY <1>1, <1>2, <1>3, RestState

(* Steps among the spaces leave the memory alone.                            *)
LEMMA SpaceStep ==
  ASSUME StartInv, pc \in Spaces, pc' \in Spaces, UNCHANGED <<heap, misused, cfg, made, table>>,
         odd \subseteq odd', odd' \subseteq odd \cup {"same_name"}, bv' \subseteq 0 .. 3,
         spaces' \in Seq(SpaceType), SpacesInv'
  PROVE  StartInv'
<1>1. /\ pc \in Rest /\ pc \notin Ends /\ made = 0
      /\ Memory \in Mem /\ odd \subseteq Harmless /\ UndefinedOnlyIf
      /\ heap["spaces"] = "live" /\ heap["tsd_endpoint"] = "live"
    BY SpacesState
<1>2. Memory' \in Mem /\ UndefinedOnlyIf'
    BY <1>1, UndefinedKept DEF Memory
<1>3. TableInv' /\ made' \in 0 .. Len(spaces')
    BY <1>1 DEF TableInv, Spaces
<1>4. bv' \subseteq 0 .. 5
    OBVIOUS
<1>5. odd' \subseteq Harmless /\ ("r_first" \in odd' => "r_first" \in odd)
    BY <1>1 DEF Harmless
<1>6. /\ pc' \in Rest /\ pc' \notin {"tsd", "spaces"}
      /\ pc' \notin {"parsed", "config"} \cup Create /\ pc' \notin Create
    BY DEF Rest, Spaces, Create
<1> QED
    BY <1>1, <1>2, <1>3, <1>4, <1>5, <1>6, RestStep

LEMMA NextSpaceStep ==
  ASSUME StartInv, NextSpace
  PROVE  StartInv'
<1>1. /\ pc = "between" /\ pc' = "space" /\ pc \in Spaces /\ pc' \in Spaces
      /\ bv' = {} /\ seen' = {} /\ spaces' = Append(spaces, NoSpace)
      /\ UNCHANGED <<heap, misused, cfg, odd, made, table>>
    BY DEF NextSpace, SpaceBits, Spaces
<1>2. spaces \in Seq(SpaceType) /\ pc \notin Ends
    BY <1>1, SpacesState
<1>3. NoSpace \in SpaceType
    BY DEF NoSpace, SpaceType
<1> DEFINE l == Len(spaces)
<1>4. /\ l \in Nat /\ spaces' \in Seq(SpaceType) /\ Len(spaces') = l + 1
      /\ spaces'[l + 1] = NoSpace
      /\ \A i \in 1 .. l : spaces'[i] = spaces[i]
    BY <1>1, <1>2, <1>3
<1>5. \A i \in 1 .. l :
         /\ None \notin {spaces[i].name, spaces[i].mode, spaces[i].tsd_mode}
         /\ \A j \in 1 .. i - 1 : spaces[i].name = spaces[j].name => "same_name" \in odd
    BY <1>1, <1>2 DEF StartInv, SpacesInv, Complete
<1> HIDE DEF l
<1>6. SpacesInv'
  <2>1. ASSUME NEW i \in 1 .. Len(spaces')
        PROVE  /\ i < Len(spaces') => Complete(i)'
               /\ \A j \in 1 .. i - 1 :
                     spaces'[i].name = spaces'[j].name => "same_name" \in odd'
    <3>1. CASE i = l + 1
      <4>1. ASSUME NEW j \in 1 .. i - 1 PROVE spaces'[i].name # spaces'[j].name
        <5>1. j \in 1 .. l
            BY <1>4, <3>1
        <5>2. spaces'[i].name = None /\ spaces'[j] = spaces[j]
            BY <1>4, <3>1, <5>1 DEF NoSpace
        <5>3. spaces[j].name # None
            BY <1>5, <5>1
        <5> QED
            BY <5>2, <5>3
      <4>2. ~(i < Len(spaces'))
          BY <1>4, <3>1
      <4> QED
          BY <4>1, <4>2
    <3>2. CASE i # l + 1
      <4>1. i \in 1 .. l
          BY <1>4, <2>1, <3>2
      <4>2. spaces'[i] = spaces[i] /\ \A j \in 1 .. i - 1 : spaces'[j] = spaces[j]
          BY <1>4, <4>1
      <4>3. Complete(i)'
          BY <1>5, <4>1, <4>2 DEF Complete
      <4>4. ASSUME NEW j \in 1 .. i - 1, spaces'[i].name = spaces'[j].name
            PROVE  "same_name" \in odd'
          BY <1>1, <1>5, <4>1, <4>2, <4>4
      <4> QED
          BY <4>3, <4>4
    <3> QED
        BY <3>1, <3>2
  <2>2. Len(spaces') > 0 /\ BitsOfSpace'
      BY <1>1, <1>4 DEF BitsOfSpace
  <2> QED
      BY <1>1, <2>1, <2>2 DEF SpacesInv
<1>7. bv' \subseteq 0 .. 3 /\ odd \subseteq odd' /\ odd' \subseteq odd \cup {"same_name"}
    BY <1>1
<1> QED
    BY <1>1, <1>4, <1>6, <1>7, SpaceStep

LEMMA NotADocumentStep ==
  ASSUME StartInv, NotADocument \/ ParseIllegalField
  PROVE  StartInv'
<1>1. /\ pc \in Spaces /\ pc' = "failed" /\ bv' = bv /\ UNCHANGED <<cfg, spaces, made>>
      /\ Becomes(_handle_parse_failure(Memory, 1, bv))
      /\ odd' = odd \cup {"wrong"}
    BY DEF NotADocument, ParseIllegalField, Refuse, Spaces
<1>2. odd \subseteq odd' /\ "wrong" \in odd'
    BY <1>1
<1>3. Faulty(odd')
    BY <1>2, FaultyIf
<1> QED
    BY <1>1, <1>2, <1>3, SpaceRefused

LEMMA EndSpacesStep ==
  ASSUME StartInv, EndSpaces
  PROVE  StartInv'
<1>1. /\ pc = "between" /\ pc \in Spaces /\ pc' = "parsed"
      /\ UNCHANGED <<bv, heap, misused, cfg, odd, spaces, made, table>>
    BY DEF EndSpaces, Spaces
<1>2. /\ pc \in Rest /\ Memory \in Mem /\ odd \subseteq Harmless /\ UndefinedOnlyIf
      /\ bv \subseteq 0 .. 5 /\ spaces \in Seq(SpaceType) /\ made = 0
      /\ heap["spaces"] = "live" /\ heap["tsd_endpoint"] = "live"
    BY <1>1, SpacesState
<1>3. SpacesInv' /\ TableInv'
    BY <1>1, <1>2, SpacesKept
<1>4. Memory' \in Mem /\ UndefinedOnlyIf' /\ made' \in 0 .. Len(spaces')
    BY <1>1, <1>2, UndefinedKept DEF Memory
<1>5. pc' \in Rest /\ pc' \notin {"tsd", "spaces"} /\ pc' \notin Spaces /\ pc' \notin Create
    BY <1>1 DEF Rest, Spaces, Create
<1> QED
    BY <1>1, <1>2, <1>3, <1>4, <1>5, RestStep

(* A space is complete when every bit is set.                                *)
LEMMA EndSpaceStep ==
  ASSUME StartInv, EndSpace
  PROVE  StartInv'
<1>1. pc = "space" /\ pc \in Spaces /\ UNCHANGED <<bv, cfg, seen, spaces, made, table>>
    BY DEF EndSpace, Spaces
<1>2. /\ pc \notin Ends /\ bv \subseteq 0 .. 3 /\ spaces \in Seq(SpaceType)
    BY <1>1, SpacesState
<1>3. CASE bv = magic1
  <2>1. pc' = "between" /\ pc' \in Spaces /\ UNCHANGED <<heap, misused, odd>>
      BY <1>3 DEF EndSpace, Spaces
  <2>2. 0 \in bv /\ 2 \in bv /\ 3 \in bv
      BY <1>3 DEF magic1
  <2>3. Complete(Len(spaces))
    <3>1. "name" \in seen /\ "mode" \in seen /\ "tsd_mode" \in seen
        BY <1>1, <2>2 DEF StartInv, SpacesInv, BitsOfSpace
    <3>2. /\ spaces[Len(spaces)].name # None
          /\ spaces[Len(spaces)].mode # None
          /\ spaces[Len(spaces)].tsd_mode # None
        BY <1>1, <3>1 DEF StartInv, SpacesInv
    <3> QED
        BY <3>2 DEF Complete
  <2>4. ASSUME NEW i \in 1 .. Len(spaces)
        PROVE  /\ Complete(i)
               /\ \A j \in 1 .. i - 1 : spaces[i].name = spaces[j].name => "same_name" \in odd
    <3>1. /\ i < Len(spaces) => Complete(i)
          /\ \A j \in 1 .. i - 1 : spaces[i].name = spaces[j].name => "same_name" \in odd
        BY <1>2 DEF StartInv, SpacesInv
    <3>2. i < Len(spaces) \/ i = Len(spaces)
        BY <1>2
    <3> QED
        BY <2>3, <3>1, <3>2
  <2>5. SpacesInv'
      BY <1>1, <2>1, <2>4 DEF SpacesInv, Complete
  <2>6. odd \subseteq odd' /\ odd' \subseteq odd \cup {"same_name"}
      BY <2>1
  <2> QED
      BY <1>1, <1>2, <2>1, <2>5, <2>6, SpaceStep
<1>4. CASE bv # magic1
  <2>1. /\ pc' = "exited" /\ Becomes(_handle_parse_failure(Memory, 1, bv))
        /\ odd' = odd \cup {"missing"}
      BY <1>4 DEF EndSpace
  <2>2. odd \subseteq odd' /\ "missing" \in odd'
      BY <2>1
  <2>3. Faulty(odd')
      BY <2>2, FaultyIf
  <2> QED
      BY <1>1, <2>1, <2>2, <2>3, SpaceRefused
<1> QED
    BY <1>3, <1>4

(* A field of a space.                                                       *)
LEMMA ParseSpaceFieldStep ==
  ASSUME StartInv, NEW field \in {"name", "id", "mode", "tsd_mode"},
         NEW value \in Values(field) \cup {None}
  PROVE  ParseSpaceField(field, value) => StartInv'
<1>a. SUFFICES ASSUME ParseSpaceField(field, value) PROVE StartInv'
    OBVIOUS
<1> DEFINE l == Len(spaces)
           same == field = "name" /\ \E i \in 1 .. l - 1 : spaces[i].name = value
           flaws == Flaws(field, value = None)
           bit == SpaceBit[field]
<1>1. /\ pc = "space" /\ pc \in Spaces /\ seen' = seen \cup {field} /\ UNCHANGED <<cfg, made, table>>
      /\ odd' = odd \cup flaws \cup (IF value # None /\ same THEN {"same_name"} ELSE {})
    BY <1>a DEF ParseSpaceField, Spaces
<1>2. /\ value = None => "wrong" \in flaws
      /\ field \in seen => "repeated" \in flaws
      /\ value # None /\ field \notin seen => flaws = {}
    BY DEF Flaws
<1>i. /\ pc \notin Ends /\ bv \subseteq 0 .. 3 /\ spaces \in Seq(SpaceType)
      /\ l \in Nat /\ l > 0 /\ BitsOfSpace
    BY <1>1, SpacesState DEF StartInv, SpacesInv
<1>b. /\ bit \in 0 .. 3
      /\ bit \in bv <=> field \in seen
    BY <1>i DEF SpaceBit, BitsOfSpace
<1> HIDE DEF flaws, bit
<1>3. CASE value # None /\ bit \notin bv
  <2>1. /\ bv' = bv \cup {bit} /\ UNCHANGED <<pc, heap, misused>>
        /\ spaces' = [spaces EXCEPT ![l] = [f \in DOMAIN @ |-> IF f = field THEN value ELSE @[f]]]
      BY <1>a, <1>3 DEF ParseSpaceField, bit
  <2>2. /\ same => "same_name" \in odd'
        /\ odd \subseteq odd' /\ odd' \subseteq odd \cup {"same_name"}
    <3>1. flaws = {}
        BY <1>2, <1>3, <1>b
    <3> HIDE DEF same
    <3> QED
        BY <1>1, <1>3, <3>1
  <2> DEFINE s == spaces[l]
             t == [f \in {"name", "mode", "tsd_mode"} |-> IF f = field THEN value ELSE s[f]]
  <2>3. s \in SpaceType /\ DOMAIN s = {"name", "mode", "tsd_mode"}
    <3>1. s \in SpaceType
        BY <1>i
    <3> HIDE DEF s
    <3> QED
        BY <3>1 DEF SpaceType
  <2>4. value \in (CASE field = "name" -> Names
                     [] field = "id" -> {0}
                     [] field = "mode" -> {"master", "worker", "p2p"}
                     [] field = "tsd_mode" -> {"token", "direct"})
      BY <1>3 DEF Values
  <2>5. /\ t.name = IF field = "name" THEN value ELSE s.name
        /\ t.mode = IF field = "mode" THEN value ELSE s.mode
        /\ t.tsd_mode = IF field = "tsd_mode" THEN value ELSE s.tsd_mode
      OBVIOUS
  <2>6. t \in SpaceType
    <3> HIDE DEF s
    <3>1. /\ t.name \in Names \cup {None}
          /\ t.mode \in {"master", "worker", "p2p"} \cup {None}
          /\ t.tsd_mode \in {"token", "direct"} \cup {None}
        BY <2>3, <2>4, <2>5 DEF SpaceType
    <3> QED
        BY <3>1 DEF SpaceType
  <2>7. spaces' = [spaces EXCEPT ![l] = t]
      BY <1>i, <2>1, <2>3
  <2> HIDE DEF t, s
  <2>8. /\ spaces' \in Seq(SpaceType) /\ Len(spaces') = l /\ spaces'[l] = t
        /\ \A i \in 1 .. l : i # l => spaces'[i] = spaces[i]
      BY <1>i, <2>6, <2>7
  <2>9. ASSUME NEW i \in 1 .. l
        PROVE  /\ i < l => Complete(i)
               /\ \A j \in 1 .. i - 1 : spaces[i].name = spaces[j].name => "same_name" \in odd
      BY <1>1, <1>i DEF StartInv, SpacesInv
  <2>n. /\ "name" \in seen => s.name # None
        /\ "mode" \in seen => s.mode # None
        /\ "tsd_mode" \in seen => s.tsd_mode # None
      BY <1>1 DEF StartInv, SpacesInv, s
  <2>10. SpacesInv'
    <3>1. ASSUME NEW i \in 1 .. l
          PROVE  /\ i < l => Complete(i)'
                 /\ \A j \in 1 .. i - 1 : spaces'[i].name = spaces'[j].name => "same_name" \in odd'
      <4>1. CASE i # l
        <5>1. spaces'[i] = spaces[i] /\ \A j \in 1 .. i - 1 : spaces'[j] = spaces[j]
            BY <1>i, <2>8, <4>1
        <5>2. i < l => Complete(i)'
            BY <2>9, <5>1 DEF Complete
        <5>3. ASSUME NEW j \in 1 .. i - 1, spaces'[i].name = spaces'[j].name PROVE "same_name" \in odd'
            BY <2>2, <2>9, <5>1, <5>3
        <5> QED
            BY <5>2, <5>3
      <4>2. CASE i = l
        <5>1. ASSUME NEW j \in 1 .. l - 1, t.name = spaces[j].name PROVE "same_name" \in odd'
          <6>1. CASE field = "name"
            <7>1. same
                BY <2>5, <5>1, <6>1 DEF s
            <7> QED
                BY <2>2, <7>1
          <6>2. CASE field # "name"
            <7>1. spaces[l].name = spaces[j].name
                BY <2>5, <5>1, <6>2 DEF s
            <7>2. l \in 1 .. l
                BY <1>i
            <7>3. "same_name" \in odd
                BY <2>9, <5>1, <7>1, <7>2
            <7> QED
                BY <2>2, <7>3
          <6> QED
              BY <6>1, <6>2
        <5>2. ASSUME NEW j \in 1 .. l - 1 PROVE spaces'[j] = spaces[j]
            BY <1>i, <2>8
        <5>3. ~(i < l)
            BY <1>i, <4>2
        <5> QED
            BY <2>8, <4>2, <5>1, <5>2, <5>3
      <4> QED
          BY <4>1, <4>2
    <3>2. /\ "name" \in seen' => t.name # None
          /\ "mode" \in seen' => t.mode # None
          /\ "tsd_mode" \in seen' => t.tsd_mode # None
        BY <1>1, <1>3, <2>5, <2>n
    <3>3. BitsOfSpace'
        BY <1>1, <1>i, <2>1 DEF BitsOfSpace, bit, SpaceBit
    <3>4. pc' = "space" /\ Len(spaces') = l /\ Len(spaces') > 0 /\ spaces'[l] = t
        BY <1>1, <1>i, <2>1, <2>8
    <3> HIDE DEF l
    <3> QED
        BY <3>1, <3>2, <3>3, <3>4 DEF SpacesInv
  <2>11. bv' \subseteq 0 .. 3 /\ pc' \in Spaces
      BY <1>1, <1>i, <1>b, <2>1
  <2> QED
      BY <1>1, <2>1, <2>2, <2>8, <2>10, <2>11, SpaceStep
<1>4. CASE ~(value # None /\ bit \notin bv)
  <2>1. Refuse(Memory, 1, bv) /\ spaces' = spaces
      BY <1>a, <1>4 DEF ParseSpaceField, bit
  <2>2. Becomes(_handle_parse_failure(Memory, 1, bv)) /\ pc' = "failed" /\ bv' = bv
      BY <2>1 DEF Refuse
  <2>3. "wrong" \in odd' \/ "repeated" \in odd'
    <3>1. "wrong" \in flaws \/ "repeated" \in flaws
        BY <1>2, <1>4, <1>b
    <3> HIDE DEF same
    <3> QED
        BY <1>1, <3>1
  <2>4. odd \subseteq odd'
    <3> HIDE DEF same
    <3> QED
        BY <1>1
  <2>5. Faulty(odd')
      BY <2>3, FaultyIf
  <2> HIDE DEF same
  <2> QED
      BY <1>1, <2>1, <2>2, <2>4, <2>5, SpaceRefused
<1> QED
    BY <1>3, <1>4

LEMMA ParseSpacesStep ==
  ASSUME StartInv, ParseSpaces
  PROVE  StartInv'
<1>1. DOMAIN SpaceBit = {"name", "id", "mode", "tsd_mode"}
    BY DEF SpaceBit
<1>2. CASE \E field \in DOMAIN SpaceBit : \E value \in Values(field) \cup {None} : ParseSpaceField(field, value)
    BY <1>1, <1>2, ParseSpaceFieldStep
<1> QED
    BY <1>2, FoundSpacesStep, MissingSpacesStep, NextSpaceStep, NotADocumentStep, EndSpacesStep,
       EndSpaceStep DEF ParseSpaces

-------------------------------------------------------------------------------
(* main *)

(* Before the file is read nothing has been touched.                         *)
LEMMA StartStep ==
  ASSUME StartInv, StartLog \/ sng_parse_config
  PROVE  StartInv'
<1>1. /\ pc \in {"log", "read"} /\ UNCHANGED <<bv, cfg, seen, spaces, heap, misused, made, table>>
      /\ \/ pc' \in {"read", "p2pmd"} /\ odd' = odd
         \/ pc' \in {"failed", "exited"} /\ (odd' = odd \cup {"os"} \/ odd' = odd \cup {"no_section"})
    BY DEF StartLog, sng_parse_config, Step, Fails
<1>2. /\ TypeInv /\ OddInv /\ P2pmdInv /\ UndefinedOnlyIf /\ pc \notin Ends /\ made = 0
      /\ Memory' = Memory /\ bv \subseteq 0 .. 5
    BY <1>1 DEF StartInv, TypeInv, TableInv, Ends, Memory
<1>3. CASE pc' \in {"read", "p2pmd"} /\ odd' = odd
  <2>1. pc' \notin Ends /\ pc' \notin Rest /\ pc' # "space"
      BY <1>3 DEF Ends, Rest, Spaces, Create
  <2>2. TypeInv' /\ UndefinedOnlyIf'
      BY <1>1, <1>2, <1>3 DEF TypeInv, UndefinedOnlyIf
  <2>3. OddInv'
      BY <1>1, <1>2, <1>3, <2>1 DEF OddInv
  <2>4. P2pmdInv'
    <3>1. BitsOfP2pmd /\ P2pmdHeap /\ misused = {} /\ P2pmdRoom /\ spaces = <<>>
        BY <1>1, <1>2 DEF P2pmdInv
    <3>2. BitsOfP2pmd' /\ P2pmdHeap' /\ P2pmdRoom'
        BY <1>1, <1>3, <3>1 DEF BitsOfP2pmd, P2pmdHeap, P2pmdRoom, Expected
    <3> QED
        BY <1>1, <3>1, <3>2 DEF P2pmdInv
  <2>5. spaces' = <<>> /\ Len(spaces') = 0 /\ made' = 0
      BY <1>1, <1>2 DEF P2pmdInv
  <2>6. RestInv' /\ SpacesInv' /\ TableInv'
      BY <2>1, <2>5 DEF RestInv, SpacesInv, TableInv, Spaces
  <2> QED
      BY <2>2, <2>3, <2>4, <2>6 DEF StartInv
<1>4. CASE pc' \in {"failed", "exited"} /\ (odd' = odd \cup {"os"} \/ odd' = odd \cup {"no_section"})
  <2>1. odd \subseteq odd' /\ ("os" \in odd' \/ "no_section" \in odd')
      BY <1>4
  <2>2. Faulty(odd') /\ Memory' \in Mem
      BY <1>2, <2>1, FaultyIf DEF TypeInv
  <2> QED
      BY <1>1, <1>2, <1>4, <2>1, <2>2, RestRefused
<1> QED
    BY <1>1, <1>3, <1>4

(* The first successor is read: there is no list only if r marked one.       *)
LEMMA EndParseStep ==
  ASSUME StartInv, EndParse
  PROVE  StartInv'
<1>1. /\ pc = "parsed" /\ pc' = "config" /\ pc \in Rest
      /\ UNCHANGED <<bv, cfg, spaces, odd, made, table>>
      /\ Becomes(Use(Memory, "successor_list"))
    BY DEF EndParse, Step, Rest
<1>i. /\ bv \in SUBSET (0 .. 5) /\ Memory \in Mem /\ odd \subseteq Harmless
      /\ spaces \in Seq(SpaceType) /\ made \in 0 .. Len(spaces)
      /\ heap["successor_list"] = "live" \/ "r_first" \in odd
      /\ UndefinedOnlyIf /\ heap["tsd_endpoint"] = "live"
    BY <1>1, RestState
<1> DEFINE u == Use(Memory, "successor_list")
<1>2. u \in Mem /\ u.heap = heap /\ u.misused = misused \cup {q \in {"successor_list"} : heap[q] # "live"}
  <2>1. "successor_list" \in Pointers /\ Memory.heap = heap /\ Memory.misused = misused
      BY DEF Pointers, Memory
  <2>2. u \in Mem /\ u.heap = Memory.heap
        /\ u.misused = Memory.misused \cup {q \in {"successor_list"} : Memory.heap[q] # "live"}
      BY <1>i, <2>1, UseFacts
  <2> HIDE DEF u
  <2> QED
      BY <2>1, <2>2
<1>3. Becomes(u)
    BY <1>1
<1> HIDE DEF u
<1>4. Memory' \in Mem /\ heap' = heap /\ misused' = misused \cup {q \in {"successor_list"} : heap[q] # "live"}
    BY <1>2, <1>3 DEF Becomes, Memory, Mem
<1>5. UndefinedOnlyIf'
    BY <1>1, <1>i, <1>4 DEF UndefinedOnlyIf
<1>6. SpacesInv' /\ TableInv'
    BY <1>1, SpacesKept
<1>7. heap["spaces"] = "live" \/ "no_spaces" \in odd
    BY <1>1 DEF StartInv, RestInv
<1>8. pc' \in Rest /\ pc' \notin {"tsd", "spaces"} /\ pc' \notin Spaces /\ pc' \notin Create
    BY <1>1 DEF Rest, Spaces, Create
<1> QED
    BY <1>1, <1>i, <1>4, <1>5, <1>6, <1>7, <1>8, RestStep

LEMMA p2pm_config_createStep ==
  ASSUME StartInv, p2pm_config_create
  PROVE  StartInv'
<1>1. /\ pc = "config" /\ pc' = "sockets" /\ pc \in Rest
      /\ UNCHANGED <<bv, cfg, spaces, odd, made, table>>
    BY DEF p2pm_config_create, Step, Rest
<1>i. /\ bv \in SUBSET (0 .. 5) /\ Memory \in Mem /\ odd \subseteq Harmless
      /\ spaces \in Seq(SpaceType) /\ made \in 0 .. Len(spaces)
      /\ UndefinedOnlyIf /\ heap["tsd_endpoint"] = "live"
      /\ ~cfg.ended => "edge" \in odd
    BY <1>1, RestState
<1>p. "join_address" \in Pointers
      /\ {"p2pmd_endpoint", "predecessor", "successor_list", "tsd_endpoint", "spaces"} \subseteq Pointers \ {"join_address"}
    BY DEF Pointers
<1>2. /\ Memory' \in Mem /\ misused' = misused
      /\ \A q \in Pointers \ {"join_address"} : heap'[q] = heap[q]
      /\ cfg.ended => heap'["join_address"] = "live"
  <2>1. CASE cfg.ended
    <3> DEFINE h == Set(Memory, "join_address")
    <3>1. Becomes(h)
        BY <2>1 DEF p2pm_config_create
    <3>2. /\ h \in Mem /\ h.heap["join_address"] = "live"
          /\ \A q \in Pointers \ {"join_address"} : h.heap[q] = heap[q]
          /\ h.misused = misused
        BY <1>i, <1>p, SetFacts
    <3> HIDE DEF h
    <3> QED
        BY <3>1, <3>2 DEF Becomes, Memory, Mem
  <2>2. CASE ~cfg.ended
      BY <1>i, <2>2 DEF p2pm_config_create, Memory
  <2> QED
      BY <2>1, <2>2
<1>3. UndefinedOnlyIf'
    BY <1>1, <1>i, <1>2, UndefinedKept
<1>4. SpacesInv' /\ TableInv'
    BY <1>1, SpacesKept
<1>5. heap["spaces"] = "live" \/ "no_spaces" \in odd
    BY <1>1 DEF StartInv, RestInv
<1>6. pc' \in Rest /\ pc' \notin {"tsd", "spaces"} /\ pc' \notin Spaces
    BY <1>1 DEF Rest, Spaces, Create
<1> QED
    BY <1>1, <1>i, <1>p, <1>2, <1>3, <1>4, <1>5, <1>6, RestStep

(* What the daemon has when it makes the spaces.                             *)
LEMMA CreateState ==
  ASSUME StartInv, pc \in Create
  PROVE  /\ pc \in Rest /\ pc \notin Ends /\ pc \notin Spaces
         /\ heap["spaces"] = "live" \/ "no_spaces" \in odd
         /\ heap["join_address"] = "live" \/ "edge" \in odd
         /\ heap["tsd_endpoint"] = "live"
         /\ \A i \in 1 .. Len(spaces) :
               /\ Complete(i)
               /\ \A j \in 1 .. i - 1 : spaces[i].name = spaces[j].name => "same_name" \in odd
<1>1. pc \in Rest /\ pc \notin Ends /\ pc \notin Spaces /\ pc # "space" /\ pc # "tsd"
    BY DEF Rest, Ends, Spaces, Create
<1>2. SpacesInv
    BY DEF StartInv
<1> QED
    BY <1>1, <1>2 DEF StartInv, RestInv, SpacesInv

(* The steps of tsd_create that succeed leave the memory alone.              *)
LEMMA CreateStep ==
  ASSUME StartInv, pc \in Create, pc' \in {"making", "listening"},
         UNCHANGED <<bv, cfg, seen, spaces, heap, misused, odd>>,
         made' \in 0 .. Len(spaces), TableInv'
  PROVE  StartInv'
<1>1. /\ pc \in Rest /\ pc \notin Ends
      /\ heap["spaces"] = "live" \/ "no_spaces" \in odd
      /\ heap["join_address"] = "live" \/ "edge" \in odd
      /\ heap["tsd_endpoint"] = "live"
      /\ \A i \in 1 .. Len(spaces) :
            /\ Complete(i)
            /\ \A j \in 1 .. i - 1 : spaces[i].name = spaces[j].name => "same_name" \in odd
    BY CreateState
<1>i. /\ bv \in SUBSET (0 .. 5) /\ Memory \in Mem /\ odd \subseteq Harmless
      /\ spaces \in Seq(SpaceType) /\ UndefinedOnlyIf
    BY <1>1, RestState
<1>2. Memory' \in Mem /\ UndefinedOnlyIf'
    BY <1>i, UndefinedKept DEF Memory
<1>3. SpacesInv'
    BY <1>1 DEF SpacesInv, Complete
<1>4. pc' \in Rest /\ pc' \notin {"tsd", "spaces"} /\ pc' \notin Spaces
    BY DEF Rest, Spaces, Create
<1> QED
    BY <1>1, <1>i, <1>2, <1>3, <1>4, RestStep

(* Everything is destroyed when tsd_create fails.                            *)
LEMMA CreateFailsStep ==
  ASSUME StartInv, pc \in Create, CreateFails(pc)
  PROVE  StartInv'
<1>1. /\ pc' = "failed" /\ odd' = odd \cup {"os"} /\ UNCHANGED <<bv, cfg, spaces, made>>
      /\ Becomes(sng_destroy_config(Free(Memory, "join_address")))
    BY DEF CreateFails, Step
<1>2. /\ pc \in Rest
      /\ heap["spaces"] = "live" \/ "no_spaces" \in odd
      /\ heap["join_address"] = "live" \/ "edge" \in odd
      /\ heap["tsd_endpoint"] = "live"
    BY CreateState
<1>i. /\ bv \in SUBSET (0 .. 5) /\ Memory \in Mem /\ odd \subseteq Harmless /\ UndefinedOnlyIf
      /\ cfg \in CfgType /\ spaces \in Seq(SpaceType) /\ made \in 0 .. Len(spaces)
      /\ heap["p2pmd_endpoint"] = "live" /\ heap["predecessor"] = "live"
      /\ heap["successor_list"] = "live" \/ "r_first" \in odd
    BY <1>2, RestState
<1>p. Pointers = {"p2pmd_endpoint", "predecessor", "successor_list", "spaces", "tsd_endpoint", "join_address"}
    BY DEF Pointers
<1> DEFINE h1 == Free(Memory, "join_address")
           h2 == Free(h1, "p2pmd_endpoint")
           h3 == Free(h2, "tsd_endpoint")
           h4 == Free(h3, "spaces")
           h5 == Free(h4, "predecessor")
           h6 == Free(h5, "successor_list")
<1>b. Becomes(h6)
    BY <1>1 DEF sng_destroy_config
<1>h1. /\ h1 \in Mem
       /\ \A q \in Pointers \ {"join_address"} : h1.heap[q] = heap[q]
       /\ h1.misused = misused \cup {q \in {"join_address"} : heap[q] # "live"}
  <2>1. "join_address" \in Pointers /\ Memory.heap = heap /\ Memory.misused = misused
      BY DEF Pointers, Memory
  <2>2. /\ h1 \in Mem
        /\ \A q \in Pointers \ {"join_address"} : h1.heap[q] = Memory.heap[q]
        /\ h1.misused = Memory.misused \cup {q \in {"join_address"} : Memory.heap[q] # "live"}
      BY <1>i, <2>1, FreeFacts
  <2> HIDE DEF h1
  <2> QED
      BY <2>1, <2>2
<1>h2. /\ h2 \in Mem
       /\ \A q \in Pointers \ {"p2pmd_endpoint"} : h2.heap[q] = h1.heap[q]
       /\ h2.misused = h1.misused \cup {q \in {"p2pmd_endpoint"} : h1.heap[q] # "live"}
    BY <1>h1, <1>p, FreeFacts
<1>h3. /\ h3 \in Mem
       /\ \A q \in Pointers \ {"tsd_endpoint"} : h3.heap[q] = h2.heap[q]
       /\ h3.misused = h2.misused \cup {q \in {"tsd_endpoint"} : h2.heap[q] # "live"}
    BY <1>h2, <1>p, FreeFacts
<1>h4. /\ h4 \in Mem
       /\ \A q \in Pointers \ {"spaces"} : h4.heap[q] = h3.heap[q]
       /\ h4.misused = h3.misused \cup {q \in {"spaces"} : h3.heap[q] # "live"}
    BY <1>h3, <1>p, FreeFacts
<1>h5. /\ h5 \in Mem
       /\ \A q \in Pointers \ {"predecessor"} : h5.heap[q] = h4.heap[q]
       /\ h5.misused = h4.misused \cup {q \in {"predecessor"} : h4.heap[q] # "live"}
    BY <1>h4, <1>p, FreeFacts
<1>h6. /\ h6 \in Mem
       /\ h6.misused = h5.misused \cup {q \in {"successor_list"} : h5.heap[q] # "live"}
    BY <1>h5, <1>p, FreeFacts
<1> HIDE DEF h1, h2, h3, h4, h5, h6
<1>3. /\ h1.heap["p2pmd_endpoint"] = "live"
      /\ h2.heap["tsd_endpoint"] = "live"
      /\ h3.heap["spaces"] = heap["spaces"]
      /\ h4.heap["predecessor"] = "live"
      /\ h5.heap["successor_list"] = heap["successor_list"]
    BY <1>2, <1>i, <1>p, <1>h1, <1>h2, <1>h3, <1>h4, <1>h5
<1>4. Memory' \in Mem /\ misused' = h6.misused
    BY <1>b, <1>h6 DEF Becomes, Memory, Mem
<1>5. \A q \in misused' :
         \/ q \in misused
         \/ q = "join_address" /\ "edge" \in odd
         \/ q = "spaces" /\ "no_spaces" \in odd
         \/ q = "successor_list" /\ "r_first" \in odd
    BY <1>2, <1>i, <1>3, <1>4, <1>h1, <1>h2, <1>h3, <1>h4, <1>h5, <1>h6
<1>6. UndefinedOnlyIf'
    BY <1>1, <1>i, <1>5 DEF UndefinedOnlyIf
<1>7. OddInv' /\ pc' \in Ends
  <2>1. "os" \in odd' /\ odd \subseteq odd'
      BY <1>1
  <2>2. Faulty(odd')
      BY <2>1, FaultyIf
  <2> QED
      BY <1>1, <2>1, <2>2 DEF StartInv, OddInv, Ends
<1> QED
    BY <1>1, <1>i, <1>4, <1>6, <1>7, Refused

LEMMA BindSocketsStep ==
  ASSUME StartInv, BindSockets
  PROVE  StartInv'
<1>1. pc = "sockets" /\ pc \in Create
    BY DEF BindSockets, CreateFails, Step, Create
<1>2. CASE Step("sockets", "making") /\ UNCHANGED <<heap, misused, odd, made, table>>
  <2>1. made = 0 /\ made' = 0 /\ pc' = "making"
    <3>1. pc \notin {"making", "listening"} \cup Ends
        BY <1>1 DEF Ends
    <3> QED
        BY <1>2, <3>1 DEF StartInv, TableInv, Step
  <2>2. TableInv' /\ made' \in 0 .. Len(spaces)
      BY <2>1 DEF TableInv, StartInv, TypeInv
  <2> QED
      BY <1>1, <1>2, <2>1, <2>2, CreateStep DEF Step
<1>3. CASE CreateFails("sockets")
    BY <1>1, <1>3, CreateFailsStep
<1> QED
    BY <1>2, <1>3 DEF BindSockets

(* A space takes its place in the table, and that of one of its name.        *)
LEMMA MakeSpaceStep ==
  ASSUME StartInv, MakeSpace
  PROVE  StartInv'
<1>1. pc = "making" /\ pc \in Create /\ made < Len(spaces)
    BY DEF MakeSpace, CreateFails, Step, Create
<1>2. CASE CreateFails("making")
    BY <1>1, <1>2, CreateFailsStep
<1>3. CASE ~CreateFails("making")
  <2> DEFINE k == made + 1
  <2>1. /\ pc' = "making" /\ made' = k /\ UNCHANGED <<bv, cfg, seen, spaces, heap, misused, odd>>
        /\ table' = [n \in DOMAIN table \cup {spaces[k].name} |->
                       IF n = spaces[k].name THEN k ELSE table[n]]
      BY <1>3 DEF MakeSpace, Step
  <2>2. made \in 0 .. Len(spaces) /\ spaces \in Seq(SpaceType)
      BY DEF StartInv, TypeInv
  <2>3. k \in 1 .. Len(spaces) /\ made' \in 0 .. Len(spaces)
      BY <1>1, <2>1, <2>2
  <2>4. \A i \in 1 .. Len(spaces) : \A j \in 1 .. i - 1 : spaces[i].name = spaces[j].name => "same_name" \in odd
      BY <1>1, CreateState
  <2>5. \A i \in 1 .. made :
           /\ spaces[i].name \in DOMAIN table
           /\ table[spaces[i].name] = i \/ "same_name" \in odd
      BY <1>1 DEF StartInv, TableInv, Ends
  <2>6. ASSUME NEW i \in 1 .. k
        PROVE  /\ spaces[i].name \in DOMAIN table'
               /\ table'[spaces[i].name] = i \/ "same_name" \in odd
    <3>1. CASE i = k
        BY <2>1, <3>1
    <3>2. CASE i # k
      <4>1. i \in 1 .. made /\ i \in 1 .. k - 1
          BY <2>2, <3>2
      <4>2. spaces[k].name = spaces[i].name => "same_name" \in odd
          BY <2>3, <2>4, <4>1
      <4> HIDE DEF k
      <4> QED
          BY <2>1, <2>5, <4>1, <4>2
    <3> QED
        BY <3>1, <3>2
  <2> HIDE DEF k
  <2>7. TableInv'
      BY <2>1, <2>6 DEF TableInv
  <2> QED
      BY <1>1, <2>1, <2>3, <2>7, CreateStep
<1> QED
    BY <1>2, <1>3

LEMMA tsd_listenStep ==
  ASSUME StartInv, tsd_listen
  PROVE  StartInv'
<1>1. /\ pc = "making" /\ pc \in Create /\ pc' = "listening"
      /\ UNCHANGED <<bv, cfg, seen, spaces, heap, misused, odd, made, table>>
    BY DEF tsd_listen, Step, Create
<1>2. TableInv'
    BY <1>1 DEF StartInv, TableInv, Ends, tsd_listen
<1>3. made' \in 0 .. Len(spaces)
    BY <1>1 DEF StartInv, TypeInv
<1> QED
    BY <1>1, <1>2, <1>3, CreateStep

LEMMA mainStep ==
  ASSUME StartInv, main
  PROVE  StartInv'
BY StartStep, EndParseStep, p2pm_config_createStep, BindSocketsStep, MakeSpaceStep, tsd_listenStep
   DEF main

-------------------------------------------------------------------------------
(* The theorems *)

LEMMA Stutter ==
  ASSUME StartInv, UNCHANGED vars
  PROVE  StartInv'
<1>1. /\ pc' = pc /\ bv' = bv /\ heap' = heap /\ misused' = misused /\ cfg' = cfg /\ seen' = seen
      /\ odd' = odd /\ spaces' = spaces /\ made' = made /\ table' = table
    BY DEF vars
<1>2. TypeInv' /\ OddInv' /\ UndefinedOnlyIf'
    BY <1>1 DEF StartInv, TypeInv, OddInv, UndefinedOnlyIf, Memory
<1>3. P2pmdInv'
    BY <1>1 DEF StartInv, P2pmdInv, BitsOfP2pmd, P2pmdHeap, P2pmdRoom, Expected
<1>4. RestInv'
    BY <1>1 DEF StartInv, RestInv
<1>5. SpacesInv' /\ TableInv'
    BY <1>1 DEF StartInv, SpacesInv, TableInv, Complete, BitsOfSpace
<1> QED
    BY <1>2, <1>3, <1>4, <1>5 DEF StartInv

(* The bits, the memory, the spaces and the table agree at every place of    *)
(* the start.                                                                *)
THEOREM StartInvariant == Spec => []StartInv
<1>1. Init => StartInv
    BY StartInit
<1>2. StartInv /\ [Next]_vars => StartInv'
  <2> SUFFICES ASSUME StartInv, [Next]_vars PROVE StartInv'
      OBVIOUS
  <2> QED
      BY mainStep, ParseP2pmdStep, ParseTsdStep, ParseSpacesStep, Stutter DEF Next
<1> QED
    BY <1>1, <1>2, PTL DEF Spec

(* Only a complete file, but for the exceptions the property names, gets as  *)
(* far as tsd_listen, whatever malloc left and however many spaces there     *)
(* are.                                                                      *)
THEOREM Listens == Spec => []ListeningIsComplete
<1>1. StartInv => ListeningIsComplete
  <2> SUFFICES ASSUME StartInv, pc = "listening" PROVE ListeningIsComplete
      BY DEF ListeningIsComplete
  <2>1. pc \in Create /\ pc \in Rest /\ pc \notin Ends
      BY DEF Create, Rest, Ends
  <2>2. odd \subseteq {"edge", "no_spaces", "same_name", "r_first"}
      BY <2>1, RestState DEF Harmless
  <2>3. /\ heap["p2pmd_endpoint"] = "live" /\ heap["predecessor"] = "live" /\ heap["tsd_endpoint"] = "live"
        /\ \/ heap["successor_list"] = "live" /\ cfg.r = cfg.room /\ "r_first" \notin odd
           \/ heap["successor_list"] = "unset" /\ "r_first" \in odd
      BY <2>1, RestState
  <2>4. made = Len(spaces)
      BY <2>1 DEF StartInv, TableInv
  <2>5. ASSUME NEW i \in 1 .. Len(spaces)
        PROVE  /\ None \notin {spaces[i].name, spaces[i].mode, spaces[i].tsd_mode}
               /\ spaces[i].name \in DOMAIN table
               /\ table[spaces[i].name] = i \/ "same_name" \in odd
    <3>1. Complete(i)
        BY <2>1, CreateState
    <3>2. spaces[i].name \in DOMAIN table /\ (table[spaces[i].name] = i \/ "same_name" \in odd)
        BY <2>1, <2>4 DEF StartInv, TableInv
    <3> QED
        BY <3>1, <3>2 DEF Complete
  <2>6. \A p \in {"p2pmd_endpoint", "predecessor", "tsd_endpoint"} : heap[p] = "live"
      BY <2>3
  <2> QED
      BY <2>2, <2>3, <2>5, <2>6 DEF ListeningIsComplete
<1> QED
    BY <1>1, StartInvariant, PTL

(* _handle_parse_failure and exit are reached only by a file at fault or by  *)
(* a failure outside.                                                        *)
THEOREM Refuses == Spec => []RefusesOnlyFaults
<1>1. StartInv => RefusesOnlyFaults
    BY DEF StartInv, OddInv, RefusesOnlyFaults, Faulty
<1> QED
    BY <1>1, StartInvariant, PTL

(* The frees by the bits of bv, in the section p2pmd and among the spaces,   *)
(* and those of sng_destroy_config reach only what is live, but for the      *)
(* three paths the property names.                                           *)
THEOREM Misuses == Spec => []UndefinedOnlyIf
<1>1. StartInv => UndefinedOnlyIf
    BY DEF StartInv
<1> QED
    BY <1>1, StartInvariant, PTL
===============================================================================
