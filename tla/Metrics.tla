------------------------------ MODULE Metrics ------------------------------
(***************************************************************************)
(* Metrics (common/metrics/ngx_wa_metrics.c, ngx_wa_histogram.c) and the   *)
(* host functions on them (common/proxy_wasm/ngx_proxy_wasm_host.c).       *)
(*                                                                         *)
(* A metric has one slot per worker process.  Workers update their own     *)
(* slots, and read all of them, without the lock of the zone: an update is *)
(* modelled by its loads and stores, and a read goes slot by slot.  On a   *)
(* reload the zone is kept, or a new one is made and the metrics are       *)
(* copied, while the workers of the old cycle go on until they exit.       *)
(*                                                                         *)
(* Slots and bins are numbered from 0 in the code and from 1 here.         *)
(***************************************************************************)
EXTENDS Integers, Sequences, FiniteSets, FiniteSetsExt, SequencesExt

CONSTANTS
    Names,              \* the metrics' names, prefixed, of a length allowed
    Definitions,        \* per name, what it may be defined as: [type, h_type, bins]
    Values,             \* values recorded in gauges and histograms
    Offsets,            \* values added to counters
    Confs,              \* configurations: [workers, slab_size]
    BINS_INIT, BINS_MAX, BINS_INCREMENT,
    Width,              \* the bits of an upper bound, 32 in the code
    MaxUpdates,         \* bound: updates of a behaviour
    MaxReaders,         \* bound: reads in progress at a time
    MaxMsec,            \* bound: the clock of a process
    MaxCycles           \* bound: cycles, the first one included

\* A custom histogram that is copied at a reload is written over one of
\* BINS_INIT bins: a larger one is written past its end (see the README).
ASSUME CustomFits ==
    \A n \in Names : \A d \in Definitions[n] : Len(d.bins) < BINS_INIT

VARIABLES
    cycles,     \* the cycles: [conf, zone]
    zones,      \* the zones: name -> metric
    live,       \* the worker processes, <<cycle, ngx_worker>>
    op,         \* what each of them is doing
    msec,       \* ngx_current_msec of each process
    master,     \* the master's copy of a zone in progress
    made,       \* history: per zone and name, the updates it stands for
    updates     \* history: updates begun

vars == <<cycles, zones, live, op, msec, master, made, updates>>

Workers == 1..Max({c.workers : c \in Confs})
Processes == (1..MaxCycles) \X Workers
Zone(p) == cycles[p[1]].zone

Undefined == [type |-> "none"]
Idle == [do |-> "idle"]
NoCopy == [zone |-> 0]
Ended == [zone |-> -1]
Copying(z) == z > 0

\* The slot a process writes: its worker's, and the first for the master.
FaultSlot(p) == 1
slot(p) == p[2]

----------------------------------------------------------------------------
\* Histograms.

MAX_UINT32 == 2^Width - 1
Powers == {2^k : k \in 0..(Width - 1)}
FaultUpperBound(n) ==
    IF n <= 1 THEN 1
    ELSE IF n > MAX_UINT32 \div 2 THEN MAX_UINT32
    ELSE Max({p \in Powers : p <= n})
bin_log2_upper_bound(n) ==
    IF n <= 1 THEN 1
    ELSE IF n > MAX_UINT32 \div 2 THEN MAX_UINT32
    ELSE Min({p \in Powers : p >= n})

Bin(ub, n) == [upper_bound |-> ub, count |-> n]
Zeros(n) == [i \in 1..n |-> Bin(0, 0)]

\* The bins in use are the ones up to the bin of the largest bound.
LastBin(bins) ==
    LET largest == {i \in DOMAIN bins : bins[i].upper_bound = MAX_UINT32}
    IN  IF largest = {} THEN Len(bins) ELSE Min(largest)
InUse(h) == SubSeq(h.bins, 1, LastBin(h.bins))

\* The bins of the larger copy of a histogram.
histogram_grow(bins) ==
    bins \o Zeros(Min({BINS_INCREMENT, BINS_MAX - Len(bins)}))

\* The first bin large enough.
histogram_custom_bin(h, n) ==
    LET enough == {i \in DOMAIN h.bins : h.bins[i].upper_bound >= n}
    IN  IF enough # {} THEN Min(enough) ELSE Len(h.bins)

\* The search of histogram_log2_bin(): the bin for n, or the place of a new
\* one.  The place is looked for from the second bin on: a bound below the
\* first bin's goes after it.
log2_search(bins, n) ==
    LET ub    == bin_log2_upper_bound(n)
        last  == LastBin(bins)
        same  == {i \in 1..last : bins[i].upper_bound = ub}
        above == {i \in 2..last : ub < bins[i].upper_bound}
        place == IF above = {} THEN 1 ELSE Min(above)
    IN  [found |-> same # {}, at |-> IF same # {} THEN Min(same) ELSE place,
         full |-> last = Len(bins), last |-> last]

\* The bins to move up to make room at a place, where they go, and the bins
\* with some of them stored there.  The ranges of the memcpy() overlap: it is
\* taken to load before it stores.
Moved(bins, to) == [i \in (to.at + 1)..(to.last + 1) |-> bins[i - 1]]
Stored(bins, moved, some) == [i \in DOMAIN bins |-> IF i \in some THEN moved[i] ELSE bins[i]]

\* histogram_log2_bin() on a histogram that no other process sees and that is
\* not to grow: the bin for n and the bins it is one of.
histogram_log2_bin(bins, n) ==
    LET to    == log2_search(bins, n)
        moved == Moved(bins, to)
    IN  IF to.found \/ to.full THEN [bins |-> bins, at |-> to.at]
        ELSE [bins |-> [Stored(bins, moved, DOMAIN moved) EXCEPT
                            ![to.at] = Bin(bin_log2_upper_bound(n), 0)],
              at   |-> to.at]

Counted(found, n) == [found.bins EXCEPT ![found.at].count = @ + n]

\* The histograms of a new metric: all slots alike.
histogram_add_locked(d) ==
    [h_type |-> d.h_type, sum |-> 0,
     bins |-> IF d.h_type = "custom"
              THEN [i \in 1..(Len(d.bins) + 1) |->
                       Bin(IF i <= Len(d.bins) THEN d.bins[i] ELSE MAX_UINT32, 0)]
              ELSE <<Bin(MAX_UINT32, 0)>> \o Zeros(BINS_INIT - 1)]

\* One slot, h, is merged into the histogram out.
histogram_get(h, out) ==
    LET bins == IF h.h_type = "log2"
                THEN FoldLeft(LAMBDA acc, b :
                                Counted(histogram_log2_bin(acc, b.upper_bound), b.count),
                              out.bins, InUse(h))
                ELSE [j \in DOMAIN out.bins |->
                         IF j <= LastBin(h.bins)
                         THEN Bin(h.bins[j].upper_bound, out.bins[j].count + h.bins[j].count)
                         ELSE out.bins[j]]
    IN  [out EXCEPT !.bins = bins, !.sum = @ + h.sum]

\* The buffer of a read.
histogram_set_buffer ==
    [h_type |-> "log2", sum |-> 0, bins |-> <<Bin(MAX_UINT32, 0)>> \o Zeros(BINS_MAX - 1)]

----------------------------------------------------------------------------
\* A metric in a zone.

Metric(d, workers) ==
    [type  |-> d.type,
     slots |-> [i \in 1..workers |->
                  CASE d.type = "counter"   -> 0
                    [] d.type = "gauge"     -> [value |-> 0, last_update |-> 0]
                    [] d.type = "histogram" -> histogram_add_locked(d)]]

\* Reading is a fold over the slots.  The gauge set last is the one whose
\* stamp is the largest, the first of them if there are several.
FaultGetCounter(acc, c) == Max({acc, c})
get_counter(acc, c) == acc + c
get_gauge(acc, g) == IF g.last_update > acc.last_update THEN g ELSE acc

\* What a read starts from and makes of a slot.
FirstRead(m) ==
    CASE m.type = "counter"   -> 0
      [] m.type = "gauge"     -> m.slots[1]
      [] m.type = "histogram" -> histogram_set_buffer
ReadSlot(m, acc, i) ==
    CASE m.type = "counter"   -> get_counter(acc, m.slots[i])
      [] m.type = "gauge"     -> get_gauge(acc, m.slots[i])
      [] m.type = "histogram" -> histogram_get(m.slots[i], acc)

\* What is known of a metric that has just been defined.
Nothing == [total |-> 0, sum |-> 0, values |-> [v \in Values |-> 0], set |-> {0},
            raced |-> FALSE, torn |-> FALSE]

\* A metric with the value of some slots of another in its first slot.  No
\* bins are passed on: a custom histogram is redefined as one of powers of two.
Redefined(m, from, workers, now) ==
    LET new == Metric([type |-> m.type, h_type |-> "log2", bins |-> <<>>], workers)
    IN  [new EXCEPT !.slots[1] =
            CASE m.type = "counter"   -> FoldLeft(get_counter, 0, from)
              [] m.type = "gauge"     ->
                     [value |-> FoldLeft(get_gauge, from[1], from).value, last_update |-> now]
              [] m.type = "histogram" ->
                     FoldLeft(LAMBDA acc, h : histogram_get(h, acc), new.slots[1], from)]

\* The slots copied are the ones of the workers there were.
FaultRealloc(m, old_workers, workers, now) ==
    Redefined(m, SubSeq(m.slots, 1, Min({old_workers, workers})), workers, now)
realloc_metrics(m, old_workers, workers, now) ==
    Redefined(m, SubSeq(m.slots, 1, old_workers), workers, now)

----------------------------------------------------------------------------
\* The workers.

\* The steps in which a new bin is being made, and the ones of any update.
IsInsertion(o) == o.do \in {"grown", "bound", "zero"}
IsUpdate(o) == o.do \in {"add", "stamp", "bin"} \/ IsInsertion(o)

\* A bin is being made in a slot of the metric.
Inserting(z, n) ==
    \E p \in live : IsInsertion(op[p]) /\ Zone(p) = z /\ op[p].name = n

\* Another process is in the middle of an update of the same metric for the
\* same worker: a new worker, and one of an old cycle in a zone they share.
Raced(p, n) ==
    \E q \in live \ {p} : /\ q[2] = p[2] /\ Zone(q) = Zone(p)
                          /\ IsUpdate(op[q]) /\ op[q].name = n

CanBegin(p) == p \in live /\ op[p] = Idle
CanUpdate(p, n, types) ==
    CanBegin(p) /\ zones[Zone(p)][n].type \in types /\ updates < MaxUpdates
Begin(p, n, what) ==
    /\ op' = [op EXCEPT ![p] = what]
    /\ updates' = updates + 1
    /\ UNCHANGED <<cycles, live, msec, master>>
End(p) ==
    /\ op' = [op EXCEPT ![p] = Idle]
    /\ UNCHANGED <<cycles, live, msec, master, updates>>

\* ngx_wa_metrics_define() under the lock.  A metric that is there is returned
\* whatever its type; one that is refused, or finds no memory, is not stored.
\* The master walks the tree without the lock: a definition that rotates it
\* under the master is left out (see the README).
define(p, n, d) ==
    /\ CanBegin(p)
    /\ zones[Zone(p)][n] = Undefined
    /\ ~Copying(master.zone)
    /\ zones' = [zones EXCEPT ![Zone(p)][n] = Metric(d, cycles[p[1]].conf.workers)]
    /\ made' = [made EXCEPT ![Zone(p)][n] = Nothing]
    /\ UNCHANGED <<cycles, live, op, msec, master, updates>>

\* ngx_wa_metrics_increment(): the slot is loaded, then stored.
increment(p, n, v) ==
    /\ CanUpdate(p, n, {"counter"})
    /\ Begin(p, n, [do |-> "add", name |-> n,
                    value |-> zones[Zone(p)][n].slots[slot(p)] + v, offset |-> v])
    /\ made' = [made EXCEPT ![Zone(p)][n].raced = @ \/ Raced(p, n)]
    /\ UNCHANGED zones

add(p) ==
    LET o == op[p] IN
    /\ p \in live /\ o.do = "add"
    /\ zones' = [zones EXCEPT ![Zone(p)][o.name].slots[slot(p)] = o.value]
    /\ made' = [made EXCEPT ![Zone(p)][o.name].total = @ + o.offset]
    /\ End(p)

\* ngx_wa_metrics_record(): a gauge is set and then stamped, a histogram has
\* its sum, and then a bin updated.
record_gauge(p, n, v) ==
    /\ CanUpdate(p, n, {"gauge"})
    /\ zones' = [zones EXCEPT ![Zone(p)][n].slots[slot(p)].value = v]
    /\ made' = [made EXCEPT ![Zone(p)][n].set = @ \cup {v}]
    /\ Begin(p, n, [do |-> "stamp", name |-> n])

\* The cached time of the worker may have moved on since it was last used.
stamp(p) ==
    /\ p \in live /\ op[p].do = "stamp"
    /\ \E now \in msec[p]..MaxMsec :
         /\ zones' = [zones EXCEPT ![Zone(p)][op[p].name].slots[slot(p)].last_update = now]
         /\ msec' = [msec EXCEPT ![p] = now]
    /\ op' = [op EXCEPT ![p] = Idle]
    /\ UNCHANGED <<cycles, live, master, made, updates>>

record_histogram(p, n, v) ==
    /\ CanUpdate(p, n, {"histogram"})
    /\ zones' = [zones EXCEPT ![Zone(p)][n].slots[slot(p)].sum = @ + v]
    /\ made' = [made EXCEPT ![Zone(p)][n].sum = @ + v,
                            ![Zone(p)][n].raced = @ \/ Raced(p, n)]
    /\ Begin(p, n, [do |-> "bin", name |-> n, value |-> v, at |-> 0, bins |-> <<>>])

\* ngx_wa_metrics_histogram_record() after the sum: the search is repeated
\* after each change of its own slot, and finds the place it had found.  In a
\* race the histogram held may be one the other process has freed.
Held(p) == zones[Zone(p)][op[p].name].slots[slot(p)]
Search(p) == log2_search(Held(p).bins, op[p].value)
SetBins(p, bins) == zones' = [zones EXCEPT ![Zone(p)][op[p].name].slots[slot(p)].bins = bins]

\* The bin is there, or there is no room for it and none to be had: a custom
\* histogram has its bins, and a growth may find no memory.
bin(p) ==
    LET o == op[p]
        h == Held(p)
    IN
    /\ p \in live /\ o.do = "bin"
    /\ \/ /\ h.h_type = "custom"
          /\ SetBins(p, Counted([bins |-> h.bins, at |-> histogram_custom_bin(h, o.value)], 1))
       \/ /\ h.h_type = "log2"
          /\ Search(p).found \/ Search(p).full
          /\ SetBins(p, Counted([bins |-> h.bins, at |-> Search(p).at], 1))
       \/ made[Zone(p)][o.name].raced /\ UNCHANGED zones
    /\ made' = [made EXCEPT ![Zone(p)][o.name].values[o.value] = @ + 1]
    /\ End(p)

\* The making of a bin begins; the reads of the metric overlap it.
Insert(p, do, at, bins) ==
    /\ op' = [q \in Processes |->
                 IF q = p THEN [op[p] EXCEPT !.do = do, !.at = at, !.bins = bins]
                 ELSE IF op[q].do = "get" /\ Zone(q) = Zone(p) /\ op[q].name = op[p].name
                      THEN [op[q] EXCEPT !.torn = TRUE] ELSE op[q]]
    /\ UNCHANGED <<cycles, live, msec, master, made, updates>>

\* histogram_grow(), under the lock of the zone: the bins are copied to a
\* larger histogram and the old one, which is still the slot's, is freed.
grow(p) ==
    /\ p \in live /\ op[p].do = "bin" /\ Held(p).h_type = "log2"
    /\ ~Search(p).found /\ Search(p).full /\ Len(Held(p).bins) # BINS_MAX
    /\ Insert(p, "grown", 0, histogram_grow(Held(p).bins))
    /\ UNCHANGED zones

\* One of the stores of an insertion; do is what comes next.
Store(p, do, bins) ==
    /\ SetBins(p, bins)
    /\ op' = [op EXCEPT ![p].do = do]
    /\ UNCHANGED <<cycles, live, msec, master, made, updates>>

\* The slot is given the larger histogram, which has room.
grown(p) == p \in live /\ op[p].do = "grown" /\ Store(p, "bin", op[p].bins)

\* The bins from the place on move up: some of them, or all, are seen to be
\* stored before the rest and the bound of the new bin, and then its count.
shift(p) ==
    /\ p \in live /\ op[p].do = "bin" /\ Held(p).h_type = "log2"
    /\ ~Search(p).found /\ ~Search(p).full
    /\ LET moved == Moved(Held(p).bins, Search(p)) IN
       /\ Insert(p, "bound", Search(p).at, moved)
       /\ \E some \in SUBSET DOMAIN moved \ {{}} :
            SetBins(p, Stored(Held(p).bins, moved, some))

upper_bound(p) ==
    /\ p \in live /\ op[p].do = "bound"
    /\ LET bins == Stored(Held(p).bins, op[p].bins, DOMAIN op[p].bins) IN
       Store(p, "zero", [bins EXCEPT ![op[p].at].upper_bound = bin_log2_upper_bound(op[p].value)])

no_count(p) ==
    /\ p \in live /\ op[p].do = "zero"
    /\ Store(p, "bin", [Held(p).bins EXCEPT ![op[p].at].count = 0])

\* ngx_wa_metrics_get(): the slots one by one, and the result.
get(p, n) ==
    LET m == zones[Zone(p)][n] IN
    /\ CanBegin(p) /\ m # Undefined
    /\ Cardinality({q \in live : op[q].do = "get"}) < MaxReaders
    /\ op' = [op EXCEPT ![p] = [do |-> "get", name |-> n, at |-> 2,
                                out |-> ReadSlot(m, FirstRead(m), 1),
                                low |-> made[Zone(p)][n],
                                torn |-> Inserting(Zone(p), n)]]
    /\ UNCHANGED <<cycles, zones, live, msec, master, made, updates>>

get_slot(p) ==
    LET o == op[p]
        m == zones[Zone(p)][o.name]
    IN
    /\ p \in live /\ o.do = "get" /\ o.at <= Len(m.slots)
    /\ op' = [op EXCEPT ![p].at = @ + 1, ![p].out = ReadSlot(m, @, o.at)]
    /\ UNCHANGED <<cycles, zones, live, msec, master, made, updates>>

HasRead(p) == op[p].do = "get" /\ op[p].at > Len(zones[Zone(p)][op[p].name].slots)
get_result(p) == p \in live /\ HasRead(p) /\ End(p) /\ UNCHANGED <<zones, made>>

\* A worker dies in an update; the one started in its place has its slot, as
\* the insertion that was cut off has left it.  There is none after the master.
\* To die at another time, or to exit for an old cycle, is to do nothing more.
crash(p) ==
    /\ p \in live /\ IsUpdate(op[p])
    /\ made' = [made EXCEPT ![Zone(p)][op[p].name].torn = @ \/ IsInsertion(op[p])]
    /\ live' = IF master = Ended THEN live \ {p} ELSE live
    /\ op' = [op EXCEPT ![p] = Idle]
    /\ UNCHANGED <<cycles, zones, msec, master, updates>>

----------------------------------------------------------------------------
\* The master, on a reload.

Current == cycles[Len(cycles)]

\* The time of the master is no earlier than that of a worker.
Now == Max({msec[p] : p \in live})

StartCycle(conf, zone) ==
    LET new == {<<Len(cycles) + 1, w>> : w \in 1..conf.workers}
    IN  /\ cycles' = Append(cycles, [conf |-> conf, zone |-> zone])
        /\ live' = live \cup new
        /\ msec' = [p \in Processes |-> IF p \in new THEN Now ELSE msec[p]]

\* ngx_wa_metrics_init_conf() and ngx_wa_metrics_shm_init(): the zone is kept
\* unless the number of workers or the size has changed.
init_conf(conf) == conf # Current.conf

reload(conf) ==
    /\ master = NoCopy /\ Len(cycles) < MaxCycles
    /\ ~init_conf(conf)
    /\ StartCycle(conf, Current.zone)
    /\ UNCHANGED <<zones, op, master, made, updates>>

reload_realloc(conf) ==
    /\ master = NoCopy /\ Len(cycles) < MaxCycles
    /\ init_conf(conf)
    /\ zones' = Append(zones, [n \in Names |-> Undefined])
    /\ made' = Append(made, [n \in Names |-> Nothing])
    /\ master' = [zone |-> Len(zones) + 1, conf |-> conf]
    /\ UNCHANGED <<cycles, live, op, msec, updates>>

ToCopy == {n \in Names : zones[Current.zone][n] # Undefined /\ zones[master.zone][n] = Undefined}

\* One metric is copied in one step: an update that comes in between is in the
\* copy or is lost to the new zone, as one that comes before it or after it.
realloc(n) ==
    LET m == zones[Current.zone][n] IN
    /\ Copying(master.zone) /\ n \in ToCopy
    /\ zones' = [zones EXCEPT ![master.zone][n] =
                    realloc_metrics(m, Current.conf.workers, master.conf.workers, Now)]
    /\ made' = [made EXCEPT ![master.zone][n] =
                   [made[Current.zone][n] EXCEPT !.torn = @ \/ Inserting(Current.zone, n)]]
    /\ UNCHANGED <<cycles, live, op, msec, master, updates>>

\* No memory in the new zone: the module is not initialised, and nginx's master
\* exits.  Its workers are left, and there is no other reload.
realloc_failed ==
    /\ Copying(master.zone) /\ ToCopy # {}
    /\ zones' = SubSeq(zones, 1, master.zone - 1)
    /\ made' = SubSeq(made, 1, master.zone - 1)
    /\ master' = Ended
    /\ UNCHANGED <<cycles, live, op, msec, updates>>

shm_init ==
    /\ Copying(master.zone) /\ ToCopy = {}
    /\ StartCycle(master.conf, master.zone)
    /\ master' = NoCopy
    /\ UNCHANGED <<zones, op, made, updates>>

----------------------------------------------------------------------------
Init ==
    \E conf \in Confs :
        /\ cycles = <<[conf |-> conf, zone |-> 1]>>
        /\ zones = <<[n \in Names |-> Undefined]>>
        /\ live = {<<1, w>> : w \in 1..conf.workers}
        /\ op = [p \in Processes |-> Idle]
        /\ msec = [p \in Processes |-> 0]
        /\ master = NoCopy
        /\ made = <<[n \in Names |-> Nothing]>>
        /\ updates = 0

Next ==
    \/ \E p \in Processes, n \in Names : \E d \in Definitions[n] : p \in live /\ define(p, n, d)
    \/ \E p \in Processes, n \in Names, v \in Offsets : p \in live /\ increment(p, n, v)
    \/ \E p \in Processes : add(p)
    \/ \E p \in Processes, n \in Names, v \in Values : p \in live /\ record_gauge(p, n, v)
    \/ \E p \in Processes : stamp(p)
    \/ \E p \in Processes, n \in Names, v \in Values : p \in live /\ record_histogram(p, n, v)
    \/ \E p \in Processes : bin(p)
    \/ \E p \in Processes : grow(p)
    \/ \E p \in Processes : grown(p)
    \/ \E p \in Processes : shift(p)
    \/ \E p \in Processes : upper_bound(p)
    \/ \E p \in Processes : no_count(p)
    \/ \E p \in Processes, n \in Names : p \in live /\ get(p, n)
    \/ \E p \in Processes : get_slot(p)
    \/ \E p \in Processes : get_result(p)
    \/ \E p \in Processes : crash(p)
    \/ \E conf \in Confs : reload(conf)
    \/ \E conf \in Confs : reload_realloc(conf)
    \/ \E n \in Names : realloc(n)
    \/ realloc_failed
    \/ shm_init

Spec == Init /\ [][Next]_vars

----------------------------------------------------------------------------
\* Properties.

Sum(f) == MapThenSumSet(LAMBDA i : f[i], DOMAIN f)
Count(bins, least) ==
    Sum([i \in DOMAIN bins |-> IF bins[i].upper_bound >= least THEN bins[i].count ELSE 0])
InAll(m, F(_)) == Sum([i \in DOMAIN m.slots |-> F(m.slots[i])])

\* The slots are not being, and have not been, written in a way that the code
\* does not guard against: two processes that update one slot at a time, and a
\* bin that was being made when its worker died or the zone was copied.
Sound(k) == ~k.raced /\ ~k.torn

\* No update is lost, and none is counted twice, by the slots the workers
\* write without a lock, a crash in the middle of an update, or the copy to
\* another zone: in every zone the slots of a counter add up to what was added
\* to it before it was copied or since, the sums of a histogram to the values
\* recorded, and its bins to their number whenever no bin is being made, also
\* after it has grown.  Two exceptions are the code's.  In a zone kept over a
\* reload an old and a new worker of the same number may update one slot at a
\* time.  And a new bin is made in place by several stores: a worker that dies
\* between them, or a copy made between them, leaves a bin twice or not at
\* all; then only the sums are right.
CountsKept ==
    \A z \in DOMAIN zones, n \in Names :
        LET m == zones[z][n]
            k == made[z][n]
        IN  ~k.raced =>
                /\ m.type = "counter" => Sum(m.slots) = k.total
                /\ m.type = "histogram" =>
                       /\ InAll(m, LAMBDA h : h.sum) = k.sum
                       /\ Sound(k) /\ ~Inserting(z, n) =>
                              InAll(m, LAMBDA h : Count(InUse(h), 0)) = Sum(k.values)

\* Every value recorded is counted in a bin whose upper bound is not below
\* it, also in a full histogram, after the growth of one and when the slots of
\* an old zone are merged into fewer bins: for every bound, the bins from it
\* on hold as many values as were recorded above the ones before.  The bins in
\* use have bounds of their own and end with the largest.  The exceptions are
\* those of CountsKept.
BinsCover ==
    \A z \in DOMAIN zones, n \in Names :
        LET m == zones[z][n]
            k == made[z][n]
        IN  m.type = "histogram" /\ Sound(k) /\ ~Inserting(z, n) =>
                /\ \A i \in DOMAIN m.slots :
                       LET bins == InUse(m.slots[i])
                       IN  /\ Last(bins).upper_bound = MAX_UINT32
                           /\ \A j, l \in DOMAIN bins :
                                  j # l => bins[j].upper_bound # bins[l].upper_bound
                           /\ Len(m.slots[i].bins) <= BINS_MAX
                /\ \A least \in Values :
                       InAll(m, LAMBDA h : Count(InUse(h), Min({least, MAX_UINT32})))
                           >= Sum([v \in Values |-> IF v >= least THEN k.values[v] ELSE 0])

\* A read, which takes no lock and goes through the slots while workers update
\* them, gives a value the metric had at some time between its start and its
\* end: no less than had been added or recorded when it began, no more than
\* has been by its end, and for a gauge a value that was set.  The exceptions
\* are those of CountsKept, and the read of a histogram during which a bin was
\* being made: it may count the values of another bin twice or miss them.
ReadsInWindow ==
    \A p \in live : HasRead(p) =>
        LET o == op[p]
            k == made[Zone(p)][o.name]
            m == zones[Zone(p)][o.name]
        IN  ~k.raced =>
                /\ m.type = "counter" => o.low.total <= o.out /\ o.out <= k.total
                /\ m.type = "gauge" => o.out.value \in k.set
                /\ m.type = "histogram" /\ Sound(k) /\ ~o.torn =>
                       /\ o.low.sum <= o.out.sum /\ o.out.sum <= k.sum
                       /\ Sum(o.low.values) <= Count(o.out.bins, 0)
                       /\ Count(o.out.bins, 0) <= Sum(k.values)

\* What a worker would read of a metric.
Reading(m) ==
    CASE m.type = "counter"   -> Sum(m.slots)
      [] m.type = "gauge"     ->
             LET newest == Max({m.slots[i].last_update : i \in DOMAIN m.slots})
             IN  m.slots[Min({i \in DOMAIN m.slots : m.slots[i].last_update = newest})].value
      [] m.type = "histogram" ->
             FoldLeft(LAMBDA acc, h : histogram_get(h, acc), histogram_set_buffer, m.slots)

\* What a read gives of a histogram, a, and of its copy, b: the same sum and
\* number of values, and the same bins where those of a fit in a histogram that
\* has not grown and have powers of two for bounds.  Otherwise values move to
\* bins of larger bounds, and only so.
CopyReads(a, b) ==
    LET Bounds == {x.upper_bound : x \in ToSet(InUse(a))}
    IN  /\ a.sum = b.sum
        /\ Count(InUse(a), 0) = Count(InUse(b), 0)
        /\ IF Len(InUse(a)) <= BINS_INIT /\ \A ub \in Bounds : bin_log2_upper_bound(ub) = ub
           THEN ToSet(InUse(a)) = ToSet(InUse(b))
           ELSE \A ub \in Bounds : Count(InUse(a), ub) <= Count(InUse(b), ub)

\* A metric reads the same before and after it is copied to the zone of a new
\* cycle with more or fewer workers, whatever updates of it are in progress,
\* but for the making of a bin.  A histogram that has grown is copied into one
\* that has not and does not: the smaller bins that do not fit are added to
\* larger ones.  The bounds of a custom one become powers of two.
ReloadKeepsReadings ==
    [][\A z \in DOMAIN zones, n \in Names :
           Copying(master.zone) /\ z = master.zone /\ z \in DOMAIN zones' =>
               (zones[z][n] = Undefined /\ zones'[z][n] # Undefined =>
                   \A a \in {Reading(zones[Current.zone][n])}, b \in {Reading(zones'[z][n])} :
                       IF zones'[z][n].type = "histogram"
                       THEN Sound(made'[z][n]) => CopyReads(a, b)
                       ELSE a = b)]_vars
=============================================================================
