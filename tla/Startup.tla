------------------------------- MODULE Startup -------------------------------
(***************************************************************************)
(* How a daemon comes up: main starts the log, sng_parse_config reads the  *)
(* configuration file, tsd_create binds the sockets, makes the shared      *)
(* memory of every space and enters it in the hash table, and starts the   *)
(* actor; then the daemon listens.                                         *)
(*                                                                         *)
(* The file is read field by field, whatever field stands next: a step     *)
(* chooses it.  A bit of bv says that a field was set, and it is by these  *)
(* bits that a refusal frees what was allocated.  Memory from malloc holds *)
(* anything: _r_list, num_spaces and pointers that were not set.           *)
(***************************************************************************)
EXTENDS Integers, Sequences, FiniteSets, Functions

CONSTANTS
    Lengths,      \* of successor lists, and what a file may give as r
    Names,        \* of spaces
    MaxSpaces,    \* bound: spaces in a file
    None

ASSUME StartupAssumption ==
    /\ Lengths \subseteq Nat \ {0} /\ Lengths # {}
    /\ Names # {} /\ None \notin Names /\ MaxSpaces \in Nat

Pointers == {"p2pmd_endpoint", "predecessor", "successor_list", "spaces",
             "tsd_endpoint", "join_address"}

(* The bits of bv: of the section p2pmd, and then of one space.              *)
Bit == [mode |-> 0, endpoint |-> 1, r |-> 2, r_max |-> 3, successor_list |-> 4, predecessor |-> 5]
SpaceBit == [name |-> 0, id |-> 1, mode |-> 2, tsd_mode |-> 3]
magic0 == 0 .. 5
magic1 == 0 .. 3

VARIABLES
    pc,        \* where the daemon is
    bv,        \* the bits that are set
    heap,      \* heap[p]: "unset", "live" or "freed"
    misused,   \* pointers that were used or freed when they were not live
    cfg,       \* [r, _r_list, room, ended]: room is the length of the list
               \* allocated, ended that the predecessor ends with a 0
    seen,      \* fields of the section read so far, for the properties
    odd,       \* what is unusual in the file or failed outside, for the properties
    spaces,    \* the spaces parsed
    made,      \* the spaces tsd_create has made
    table      \* space_table: the index of the space entered under a name

vars == <<pc, bv, heap, misused, cfg, seen, odd, spaces, made, table>>

NoSpace == [name |-> None, mode |-> None, tsd_mode |-> None]

Init ==
    /\ pc = "log" /\ bv = {} /\ misused = {} /\ odd = {}
    /\ heap = [p \in Pointers |-> "unset"]
    /\ cfg \in [r : {0}, _r_list : Lengths \cup {0}, room : {0}, ended : {TRUE}]
    /\ seen = {} /\ spaces = <<>> /\ made = 0 /\ table = [n \in {} |-> 0]

--------------------------------------------------------------------------------
(* Memory: h is [heap, misused].                                             *)

Memory == [heap |-> heap, misused |-> misused]
Set(h, p) == [h EXCEPT !.heap[p] = "live"]
Use(h, p) == IF h.heap[p] = "live" THEN h ELSE [h EXCEPT !.misused = @ \cup {p}]
Free(h, p) == [Use(h, p) EXCEPT !.heap[p] = IF @ = "live" THEN "freed" ELSE @]
FreeIf(h, c, p) == IF c THEN Free(h, p) ELSE h
Becomes(h) == heap' = h.heap /\ misused' = h.misused

(* Section 1 is that of a space, whose bits are read as if they were those   *)
(* of p2pmd.                                                                 *)
_handle_parse_failure(h, section, bits) ==
    LET h1 == FreeIf(h, section = 1, "spaces")
        h2 == FreeIf(h1, Bit.endpoint \in bits, "p2pmd_endpoint")
        h3 == FreeIf(h2, Bit.predecessor \in bits, "predecessor")
    IN  FreeIf(h3, Bit.successor_list \in bits, "successor_list")

Refuse(h, section, bits) ==
    Becomes(_handle_parse_failure(h, section, bits)) /\ pc' = "failed" /\ bv' = bits

--------------------------------------------------------------------------------
(* The section p2pmd.                                                        *)

Flaws(field, wrong) ==
    (IF wrong THEN {"wrong"} ELSE {})
    \cup (IF field \in seen THEN {"repeated"} ELSE {})
    \cup (IF field = "r" /\ "successor_list" \notin seen THEN {"r_first"} ELSE {})

Read(field, wrong) ==
    /\ pc = "p2pmd"
    /\ seen' = seen \cup {field} /\ odd' = odd \cup Flaws(field, wrong)
    /\ UNCHANGED <<spaces, made, table>>

(* The value is looked at, then the bit.  h is the memory with the value.    *)
Accept(field, h, ok) ==
    IF ok /\ Bit[field] \notin bv
    THEN Becomes(h) /\ bv' = bv \cup {Bit[field]} /\ pc' = pc
    ELSE Refuse(h, 0, bv)

ParseMode(value) ==
    /\ Read("mode", value = "other")
    /\ Accept("mode", Memory, value # "other")
    /\ UNCHANGED cfg

ParseEndpoint(value) ==
    /\ Read("endpoint", value = "number")
    /\ Accept("endpoint", IF value = "number" THEN Memory ELSE Set(Memory, "p2pmd_endpoint"),
              value # "number")
    /\ UNCHANGED cfg

(* Variant: r is not compared with the length of the list.                   *)
RUnchecked(n) == TRUE
RFits(n) == cfg._r_list = n

(* _bvset stands where _bvget is meant: the bit of the list is set, and the  *)
(* length is compared even if there has been no list.                        *)
ParseR(n) ==
    /\ Read("r", n = None \/ ("successor_list" \in seen /\ n # cfg._r_list))
    /\ IF n = None
       THEN Refuse(Memory, 0, bv) /\ UNCHANGED cfg
       ELSE LET bits == bv \cup {Bit.successor_list}
            IN  /\ cfg' = [cfg EXCEPT !.r = n]
                /\ IF ~RFits(n) \/ Bit.r \in bits
                   THEN Refuse(Memory, 0, bits)
                   ELSE UNCHANGED <<heap, misused, pc>> /\ bv' = bits \cup {Bit.r}

ParseRMax(value) ==
    /\ Read("r_max", value = "text")
    /\ Accept("r_max", Memory, value # "text")
    /\ UNCHANGED cfg

(* Variant: the bit is set before the elements are looked at.                *)
ListBitFirst(bits) == bits \cup {Bit.successor_list}
ListBits(bits) == bits

ListLengthFits(n) == Bit.r \notin bv \/ n = cfg.r

(* An element that is too long frees the list, and leaves it to              *)
(* _handle_parse_failure to free it again if the bit is set.                 *)
ParseSuccessorList(n, value) ==
    /\ Read("successor_list", value # "text" \/ ("r" \in seen /\ n # cfg.r))
    /\ IF value = "no_array"
       THEN Refuse(Memory, 0, bv) /\ UNCHANGED cfg
       ELSE IF ~ListLengthFits(n)
       THEN Refuse(Memory, 0, bv) /\ cfg' = [cfg EXCEPT !._r_list = n]
       ELSE /\ cfg' = [cfg EXCEPT !._r_list = n, !.room = n]
            /\ LET h == Set(Memory, "successor_list")
               IN  CASE value = "long" -> Refuse(Free(h, "successor_list"), 0, ListBits(bv))
                     [] value = "number" -> Refuse(h, 0, ListBits(bv))
                     [] value = "text" -> Accept("successor_list", h, TRUE)

(* A predecessor of just P2PM_MAX_ID_LEN characters, the edge, fits, without *)
(* its 0.                                                                    *)
ParsePredecessor(value) ==
    LET fits == value \in {"text", "edge"}
    IN  /\ pc = "p2pmd" /\ seen' = seen \cup {"predecessor"}
        /\ odd' = odd \cup Flaws("predecessor", ~fits) \cup ({value} \cap {"edge"})
        /\ Accept("predecessor", IF fits THEN Set(Memory, "predecessor") ELSE Memory, fits)
        /\ cfg' = [cfg EXCEPT !.ended = value # "edge"]
        /\ UNCHANGED <<spaces, made, table>>

(* Any other field: the process exits.                                       *)
ParseUnknown ==
    /\ Read("unknown", TRUE)
    /\ Becomes(_handle_parse_failure(Memory, 0, bv)) /\ pc' = "exited"
    /\ UNCHANGED <<bv, cfg>>

(* Fields missing: the process exits.                                        *)
EndP2pmd ==
    /\ pc = "p2pmd"
    /\ IF bv = magic0
       THEN pc' = "tsd" /\ bv' = {} /\ seen' = {} /\ UNCHANGED odd
       ELSE pc' = "exited" /\ odd' = odd \cup {"missing"} /\ UNCHANGED <<bv, seen>>
    /\ UNCHANGED <<heap, misused, cfg, spaces, made, table>>

ParseP2pmd ==
    \/ \E value \in {"member", "other"} : ParseMode(value)
    \/ \E value \in {"text", "number"} : ParseEndpoint(value) \/ ParseRMax(value)
    \/ \E n \in Lengths \cup {None} : ParseR(n)
    \/ \E n \in Lengths, value \in {"text", "number", "long", "no_array"} : ParseSuccessorList(n, value)
    \/ \E value \in {"text", "edge", "long", "number"} : ParsePredecessor(value)
    \/ ParseUnknown
    \/ EndP2pmd

--------------------------------------------------------------------------------
(* The section tsd: each field is looked for after the one before, and by    *)
(* now bv is empty: nothing is freed.                                        *)

TsdFields == <<"endpoint", "ipc", "replication_factor">>

ParseTsd(fields) ==
    /\ pc = "tsd"
    /\ IF "endpoint" \in Range(fields) THEN Becomes(Set(Memory, "tsd_endpoint"))
                                                       ELSE UNCHANGED <<heap, misused>>
    /\ IF fields = TsdFields THEN pc' = "spaces" /\ UNCHANGED odd
                             ELSE pc' = "failed" /\ odd' = odd \cup {"tsd"}
    /\ UNCHANGED <<bv, cfg, seen, spaces, made, table>>

--------------------------------------------------------------------------------
(* The spaces.                                                               *)

FoundSpaces ==
    /\ pc = "spaces" /\ pc' = "between" /\ Becomes(Set(Memory, "spaces"))
    /\ UNCHANGED <<bv, cfg, seen, odd, spaces, made, table>>

(* Without the section the reader goes on, and num_spaces is whatever malloc *)
(* left there.                                                               *)
MissingSpaces ==
    /\ pc = "spaces" /\ odd' = odd \cup {"no_spaces"}
    /\ \/ pc' = "parsed" /\ Becomes(_handle_parse_failure(Memory, 0, bv))
       \/ pc' = "crashed" /\ Becomes(Use(_handle_parse_failure(Memory, 0, bv), "spaces"))
    /\ UNCHANGED <<bv, cfg, seen, spaces, made, table>>

(* Variant: the bits of the space before are left.                           *)
SpaceBitsKept(bits) == bits
SpaceBits(bits) == {}

NextSpace ==
    /\ pc = "between" /\ Len(spaces) < MaxSpaces
    /\ pc' = "space" /\ bv' = SpaceBits(bv) /\ seen' = {} /\ spaces' = Append(spaces, NoSpace)
    /\ UNCHANGED <<heap, misused, cfg, odd, made, table>>

NotADocument ==
    /\ pc = "between" /\ Refuse(Memory, 1, bv) /\ odd' = odd \cup {"wrong"}
    /\ UNCHANGED <<cfg, seen, spaces, made, table>>

EndSpaces ==
    /\ pc = "between" /\ pc' = "parsed"
    /\ UNCHANGED <<bv, heap, misused, cfg, seen, odd, spaces, made, table>>

(* A field of the space being read, with its value or None for a value that  *)
(* is refused.                                                               *)
ParseSpaceField(field, value) ==
    LET same == field = "name" /\ \E i \in 1 .. Len(spaces) - 1 : spaces[i].name = value
    IN  /\ pc = "space" /\ seen' = seen \cup {field}
        /\ odd' = odd \cup Flaws(field, value = None)
                      \cup (IF value # None /\ same THEN {"same_name"} ELSE {})
        /\ IF value # None /\ SpaceBit[field] \notin bv
           THEN /\ bv' = bv \cup {SpaceBit[field]} /\ UNCHANGED <<pc, heap, misused>>
                /\ spaces' = [spaces EXCEPT ![Len(spaces)] = [f \in DOMAIN @ |-> IF f = field THEN value ELSE @[f]]]
           ELSE Refuse(Memory, 1, bv) /\ UNCHANGED spaces
        /\ UNCHANGED <<cfg, made, table>>

Values(field) == CASE field = "name" -> Names
                   [] field = "id" -> {0}
                   [] field = "mode" -> {"master", "worker", "p2p"}
                   [] field = "tsd_mode" -> {"token", "direct"}

ParseIllegalField ==
    /\ pc = "space" /\ Refuse(Memory, 1, bv) /\ odd' = odd \cup {"wrong"}
    /\ UNCHANGED <<cfg, seen, spaces, made, table>>

EndSpace ==
    /\ pc = "space"
    /\ IF bv = magic1
       THEN pc' = "between" /\ UNCHANGED <<heap, misused, odd>>
       ELSE /\ Becomes(_handle_parse_failure(Memory, 1, bv)) /\ pc' = "exited"
            /\ odd' = odd \cup {"missing"}
    /\ UNCHANGED <<bv, cfg, seen, spaces, made, table>>

ParseSpaces ==
    \/ FoundSpaces \/ MissingSpaces \/ NextSpace \/ NotADocument \/ EndSpaces
    \/ \E field \in DOMAIN SpaceBit : \E value \in Values(field) \cup {None} : ParseSpaceField(field, value)
    \/ ParseIllegalField
    \/ EndSpace

--------------------------------------------------------------------------------
(* main.                                                                     *)

Step(from, to) ==
    /\ pc = from /\ pc' = to
    /\ UNCHANGED <<bv, cfg, seen, spaces>>

(* Something outside fails, or the file has no document where it is wanted.  *)
Fails(from, to, why) ==
    Step(from, to) /\ odd' = odd \cup {why} /\ UNCHANGED <<heap, misused, made, table>>

StartLog ==
    \/ Step("log", "read") /\ UNCHANGED <<heap, misused, odd, made, table>>
    \/ Fails("log", "failed", "os")

sng_parse_config ==
    \/ Step("read", "p2pmd") /\ UNCHANGED <<heap, misused, odd, made, table>>
    \/ Fails("read", "exited", "os")
    \/ Fails("read", "failed", "no_section")

(* The first successor is copied out of the list.                            *)
EndParse ==
    /\ Step("parsed", "config") /\ Becomes(Use(Memory, "successor_list"))
    /\ UNCHANGED <<odd, made, table>>

(* An address that is not ended is too long, which main does not look at.    *)
p2pm_config_create ==
    /\ Step("config", "sockets")
    /\ IF cfg.ended THEN Becomes(Set(Memory, "join_address")) ELSE UNCHANGED <<heap, misused>>
    /\ UNCHANGED <<odd, made, table>>

sng_destroy_config(h) ==
    Free(Free(Free(Free(Free(h, "p2pmd_endpoint"), "tsd_endpoint"), "spaces"), "predecessor"), "successor_list")

CreateFails(from) ==
    /\ Step(from, "failed") /\ odd' = odd \cup {"os"}
    /\ Becomes(sng_destroy_config(Free(Memory, "join_address")))
    /\ UNCHANGED <<made, table>>

BindSockets ==
    \/ Step("sockets", "making") /\ UNCHANGED <<heap, misused, odd, made, table>>
    \/ CreateFails("sockets")

(* A second space of a name takes the place of the first.                    *)
MakeSpace ==
    /\ made < Len(spaces)
    /\ \/ /\ Step("making", "making") /\ made' = made + 1
          /\ table' = [n \in DOMAIN table \cup {spaces[made + 1].name} |->
                         IF n = spaces[made + 1].name THEN made + 1 ELSE table[n]]
          /\ UNCHANGED <<heap, misused, odd>>
       \/ CreateFails("making")

tsd_listen ==
    /\ made = Len(spaces) /\ Step("making", "listening")
    /\ UNCHANGED <<heap, misused, odd, made, table>>

main ==
    \/ StartLog \/ sng_parse_config \/ EndParse
    \/ p2pm_config_create \/ BindSockets \/ MakeSpace \/ tsd_listen

TsdSections == UNION {[1 .. k -> Range(TsdFields)] : k \in 0 .. 3}

Next ==
    \/ main
    \/ ParseP2pmd
    \/ \E fields \in {s \in TsdSections : IsInjective(s)} : ParseTsd(fields)
    \/ ParseSpaces

Spec == Init /\ [][Next]_vars

--------------------------------------------------------------------------------
(* Properties.                                                               *)

(* A daemon listens only when the file gave every field once and in a legal  *)
(* form: what the actor and the sockets use is live, the list has room for r *)
(* successors, and every space is in the hash table as it was described, of  *)
(* spaces of one name the last.  Only a file with r and no successor list    *)
(* may get through, when _r_list happens to hold r: _bvset marks the list as *)
(* given.                                                                    *)
ListeningIsComplete ==
    pc = "listening" =>
        /\ odd \subseteq {"edge", "no_spaces", "same_name", "r_first"}
        /\ \A p \in {"p2pmd_endpoint", "predecessor", "tsd_endpoint"} : heap[p] = "live"
        /\ \/ heap["successor_list"] = "live" /\ cfg.r = cfg.room /\ "r_first" \notin odd
           \/ heap["successor_list"] = "unset" /\ "r_first" \in odd
        /\ \A i \in 1 .. Len(spaces) :
               /\ None \notin {spaces[i].name, spaces[i].mode, spaces[i].tsd_mode}
               /\ spaces[i].name \in DOMAIN table
               /\ table[spaces[i].name] = i \/ "same_name" \in odd

(* A daemon gives up only when the file is at fault or something outside     *)
(* failed: a file with every field once, of legal values, r after the        *)
(* successor list, is never refused.  (With r before the list a right file   *)
(* is refused.)                                                              *)
RefusesOnlyFaults == pc \in {"failed", "exited"} => odd \ {"edge", "same_name"} # {}

(* No pointer is used or freed that is not live, except on these paths: the  *)
(* list, when r is read before it or it is given twice; the spaces, when     *)
(* their section is missing; the address to join at, when the predecessor is *)
(* of just the largest length and never ended.                               *)
UndefinedOnlyIf ==
    /\ "successor_list" \in misused => odd \cap {"r_first", "repeated"} # {}
    /\ "spaces" \in misused => "no_spaces" \in odd
    /\ "join_address" \in misused => "edge" \in odd
    /\ misused \subseteq {"successor_list", "spaces", "join_address"}
=============================================================================
