-------------------------- MODULE MCBrCacheReader --------------------------
EXTENDS ResultsCache

\* Every size up to well past the 20 threads.
MCSizes == 0..90

\* With one and two brs, which the main thread reads, and with five, which two
\* readers do, everything is interleaved.  In the other sizes the readers run
\* one after the other and only miss: these are for the segments.
MCInterleaved == {1, 2, 5}

MCSequential ==
  \/ \E r \in Readers : FindNone(r) /\ \A q \in 1..(r - 1) : ~Reading(q)
  \/ JoinReaders

MCOthers == {-1, -2}
MCIds == {"m1", "m2"}

\* Stores of others are about br 1; they differ from it in one respect each.
MCSame == [case |-> 1, path |-> "p1", type |-> "local", sum |-> "s1",
           specs |-> "x1", id |-> "m1", home |-> "h1", retval |-> 0]
MCOtherRuns ==
  {MCSame, [MCSame EXCEPT !.case = 4]} \cup
  {[MCSame EXCEPT !.retval = 1], [MCSame EXCEPT !.sum = "s2"],
   [MCSame EXCEPT !.specs = "x2"], [MCSame EXCEPT !.id = "m2"],
   [MCSame EXCEPT !.home = "h2"], [MCSame EXCEPT !.type = "official", !.path = "p2"],
   [MCSame EXCEPT !.type = "trybot"]}

MCPlain == [conds |-> {"checksums"}, type |-> "local", shared |-> {},
            missing |-> FALSE, telemetry |-> FALSE]
MCSettings ==
  {MCPlain, [MCPlain EXCEPT !.conds = @ \cup {"machines", "succeeded"}, !.shared = {"h2"}],
   [MCPlain EXCEPT !.conds = @ \cup {"same_machine"}],
   [MCPlain EXCEPT !.conds = @ \cup {"false"}],
   [MCPlain EXCEPT !.type = "official", !.shared = {"h2"}],
   [MCPlain EXCEPT !.type = "trybot"],
   [MCPlain EXCEPT !.shared = {"h2"}, !.missing = TRUE],
   [MCPlain EXCEPT !.telemetry = TRUE]}

\* With one br, two stores of others are like its own, or there is one, of any
\* kind if something can be read.  With two, only the first br and one other store.  With five
\* the two other stores are about brs of different readers.
MCInit ==
  /\ CacheInit
  /\ run[-1] = MCSame
  /\ run[-2].case = 4 <=> size # 1
  /\ size = 1 /\ run[-2] = MCSame => setting \in {MCPlain, [MCPlain EXCEPT !.conds = @ \cup {"false"}]}
  /\ size = 1 /\ (setting.missing \/ "false" \in setting.conds) => run[-2].home = "h2" \/ run[-2] = MCSame
  /\ size # 1 => setting = MCPlain \/ (size = 5 /\ setting.missing)

MCNext ==
  IF size \in MCInterleaved
  THEN \/ \E r \in Readers : ReadResult(r)
       \/ JoinReaders
       \/ \E w \in Writers : /\ size = 2 => w \in {1, -1}
                             /\ size = 1 /\ run[-2] # MCSame => w \in {1, -2}
                             /\ size = 5 => w \in Others
                             /\ StoreStep(w)
  ELSE MCSequential

MCSpec == MCInit /\ [][MCNext]_all_vars /\ WF_all_vars(MCNext)
=============================================================================
