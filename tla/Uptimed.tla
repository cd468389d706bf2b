------------------------------ MODULE Uptimed -------------------------------
(***************************************************************************)
(* uptimed.c: a daemon that reports the load of a Linux machine to statsd  *)
(* every minute, in one packet.  It is one process with one signal; what   *)
(* goes on around it are the counters of the kernel, of which it keeps the *)
(* lower bits in unsigned ints, and the table of network interfaces.       *)
(***************************************************************************)
EXTENDS StatsdClient, Integers, SequencesExt

CONSTANTS
    W,           \* 2^w, the width of an int
    Named,       \* the names of interfaces that hold the given one
    Tables,      \* contents of /proc/net/dev: sequences of rows
    BootTicks,   \* ticks the CPU may have counted before uptimed starts
    MinuteTicks, \* ticks it may count in a minute
    MaxTurns     \* bound: minutes

VARIABLES
    pc, running,
    ns, link, kept,      \* the namespace, the link, what statsd allocated
    pkt, wire,           \* the packet that is built, and the last one sent
    table, row, line,    \* /proc/net/dev, the rows read, the line buffer
    cpu,                 \* the kernel's counters of user, system and idle ticks
    old_total, old_busy,
    seen, span,          \* ghosts: cpu at the last report, ticks it spanned
    turns

linkvars == << ns, link, kept >>
netvars == << table, row, line >>
cpuvars == << old_total, old_busy, seen, span >>
vars == << pc, running, linkvars, pkt, wire, netvars, cpu, cpuvars, turns >>

ASSUME UptimedAssumption ==
    /\ W \in Nat /\ W > 1 /\ W % 2 = 0
    /\ Tables \subseteq Seq([name : STRING, bytes : Int \X Int])
    /\ BootTicks \subseteq Nat /\ MinuteTicks \subseteq Nat /\ MaxTurns \in Nat
    /\ StatsdFaults \subseteq AllStatsdFaults

Ended == pc \in {"exit", "dead"}

-----------------------------------------------------------------------------
(* Mistake: the ints are signed. *)
MinusSigned(a, b) == a - b

(* Unsigned ints; and atoi with its int. *)
Minus(a, b) == (a - b) % W
atoi(n) == ((n + W \div 2) % W) - W \div 2

Busy(c) == c.user + c.sys
Total(c) == c.user + c.sys + c.idle

-----------------------------------------------------------------------------
(* main up to its loop. *)
FindMac ==
    /\ pc = "mac"
    /\ pc' = "files"
    /\ ns' \in {"host.", "host.mac"}
    /\ UNCHANGED << running, link, kept, pkt, wire, netvars, cpu, cpuvars, turns >>

(* A namespace with its twelve digits takes 18 of the 16 bytes of ns. *)
FindMacOverflows ==
    /\ pc = "mac"
    /\ pc' = "dead"
    /\ UNCHANGED << running, linkvars, pkt, wire, netvars, cpu, cpuvars, turns >>

OpenFiles ==
    /\ pc = "files"
    /\ pc' \in {"connect", "exit"}
    /\ UNCHANGED << running, linkvars, pkt, wire, netvars, cpu, cpuvars, turns >>

(* Mistake: running is set here, behind the handler that resets it. *)
ConnectRuns ==
    /\ pc = "connect"
    /\ pc' = "turn" /\ running' = TRUE
    /\ \E r \in statsd_init_with_namespace(ns) : link' = r.link /\ kept' = r.kept
    /\ UNCHANGED << ns, pkt, wire, netvars, cpu, cpuvars, turns >>

Connect ==
    /\ pc = "connect"
    /\ pc' = "turn"
    /\ \E r \in statsd_init_with_namespace(ns) : link' = r.link /\ kept' = r.kept
    /\ UNCHANGED << running, ns, pkt, wire, netvars, cpu, cpuvars, turns >>

-----------------------------------------------------------------------------
(* A turn of the loop. *)
Prepares(stat, value, type) == statsd_prepare(link, stat, value, type, << >>)

(* The values sysinfo delivers are not told apart. *)
Gauges ==
    /\ pc = "turn" /\ running
    /\ pc' = "rows"
    /\ pkt' = Prepares("load", 0, "g") \o Prepares("freemem", 0, "g")
                \o Prepares("procs", 0, "g") \o Prepares("uptime", 0, "c")
    /\ table' \in Tables /\ row' = 0
    /\ UNCHANGED << running, linkvars, wire, line, cpu, cpuvars, turns >>

(* Mistake: strtok works on a copy. *)
Uncut(l) == l

(* strtok_r leaves the first word of the line; the bytes received and      *)
(* transmitted are the second and the tenth.                               *)
Cut(l) == [name |-> l.name, bytes |-> << >>]
Traffic(l) ==
    IF l.name \in Named /\ l.bytes # << >>
    THEN Prepares("if-rx", atoi(l.bytes[1]), "c")
           \o Prepares("if-tx", atoi(l.bytes[2]), "c")
    ELSE << >>

(* One turn of while(!feof(net)): after the last row fgets fails and       *)
(* leaves that row in the buffer, where it is looked at again.             *)
NetRow ==
    /\ pc = "rows"
    /\ LET read == IF row < Len(table) THEN table[row + 1] ELSE line
       IN  /\ pkt' = pkt \o Traffic(read)
           /\ line' = IF read.name \in Named THEN Cut(read) ELSE read
    /\ IF row < Len(table) THEN row' = row + 1 /\ pc' = pc
       ELSE pc' = "cpu" /\ UNCHANGED row
    /\ UNCHANGED << running, linkvars, wire, table, cpu, cpuvars, turns >>

(* What Reports leaves behind for the next turn; and the mistake of        *)
(* leaving the busy ticks of the first.                                    *)
KeepTotalOnly(c) == old_total' = Total(c) % W /\ UNCHANGED old_busy
Keep(c) == old_total' = Total(c) % W /\ old_busy' = Busy(c) % W

(* The CPU line and the packet.  nice is read and counted nowhere, as all  *)
(* the other kinds of ticks.                                               *)
Reports ==
    /\ pc = "cpu" /\ Minus(Total(cpu) % W, old_total) # 0
    /\ LET share == ((100 * Minus(Busy(cpu) % W, old_busy)) % W)
                       \div Minus(Total(cpu) % W, old_total)
       IN  wire' \in statsd_send(link, pkt \o Prepares("cpu", share, "g"))
    /\ Keep(cpu)
    /\ seen' = cpu
    /\ span' = [busy |-> Busy(cpu) - Busy(seen), total |-> Total(cpu) - Total(seen)]
    /\ pc' = "sleep"
    /\ UNCHANGED << running, linkvars, pkt, netvars, cpu, turns >>

(* A minute without a user, system or idle tick divides by zero; and       *)
(* without a link strcat appends whatever tmp holds.                       *)
Dies ==
    /\ \/ pc = "cpu" /\ Minus(Total(cpu) % W, old_total) = 0
       \/ pc = "cpu" /\ link = NoLink
       \/ pc = "turn" /\ running /\ link = NoLink
    /\ pc' = "dead"
    /\ UNCHANGED << running, linkvars, pkt, wire, netvars, cpu, cpuvars, turns >>

(* sleep(60), which a signal cuts short. *)
Sleep ==
    /\ pc = "sleep" /\ turns < MaxTurns
    /\ pc' = "turn"
    /\ \E u, s, i \in MinuteTicks :
         cpu' = [user |-> cpu.user + u, sys |-> cpu.sys + s, idle |-> cpu.idle + i]
    /\ turns' = turns + 1
    /\ UNCHANGED << running, linkvars, pkt, wire, netvars, cpuvars >>

Wake ==
    /\ pc = "sleep" /\ ~running
    /\ pc' = "turn"
    /\ UNCHANGED << running, linkvars, pkt, wire, netvars, cpu, cpuvars, turns >>

Finish ==
    /\ pc = "turn" /\ ~running
    /\ pc' = "exit"
    /\ kept' = statsd_finalize(link, kept)
    /\ UNCHANGED << running, ns, link, pkt, wire, netvars, cpu, cpuvars, turns >>

(* The signal arrives; before main has a handler for it, it kills. *)
sigterm ==
    /\ running /\ ~Ended
    /\ running' = FALSE
    /\ pc' = IF pc = "mac" THEN "dead" ELSE pc
    /\ UNCHANGED << linkvars, pkt, wire, netvars, cpu, cpuvars, turns >>

-----------------------------------------------------------------------------
Init ==
    /\ pc = "mac" /\ running = TRUE /\ turns = 0
    /\ ns = "host." /\ link = NoLink /\ kept = {}
    /\ pkt = << >> /\ wire = << >>
    /\ table = << >> /\ row = 0 /\ line = [name |-> "none", bytes |-> << >>]
    /\ cpu \in [{"user", "sys", "idle"} -> BootTicks]
    /\ old_total = 0 /\ old_busy = 0
    /\ seen = [user |-> 0, sys |-> 0, idle |-> 0] /\ span = [busy |-> 0, total |-> 0]

Process ==
    \/ FindMac \/ FindMacOverflows \/ OpenFiles \/ Connect
    \/ Gauges \/ NetRow \/ Reports \/ Dies \/ Sleep \/ Wake \/ Finish

Next == Process \/ sigterm

(* The process runs. *)
Spec == Init /\ [][Next]_vars /\ WF_vars(Process)

-----------------------------------------------------------------------------
(* The types of the variables. *)
TypeOK ==
    /\ pc \in {"mac", "files", "connect", "turn", "rows", "cpu", "sleep", "exit", "dead"}
    /\ running \in BOOLEAN /\ turns \in 0 .. MaxTurns
    /\ ns \in {"host.", "host.mac"} /\ kept \subseteq {"link", "socket", "ns"}
    /\ row \in 0 .. Len(table)
    /\ old_total \in 0 .. W - 1 /\ old_busy \in 0 .. W - 1
    /\ \A i \in DOMAIN pkt : pkt[i].stat # "cpu"
    /\ wire # << >> => Last(wire).value \in 0 .. W - 1

(* A packet holds every metric once, in order, under the namespace of the  *)
(* link, and the traffic once for each row that names the interface: the   *)
(* last row, which the loop sees twice because feof is true only after a   *)
(* read that failed, is not counted twice.                                 *)
Counted(t) ==
    [i \in DOMAIN t |-> IF t[i].name \in Named THEN << "if-rx", "if-tx" >> ELSE << >>]
Expected(t) ==
    << "load", "freemem", "procs", "uptime" >> \o FlattenSeq(Counted(t)) \o << "cpu" >>
PacketWhole ==
    wire # << >> /\ pc = "sleep" =>
        /\ [i \in DOMAIN wire |-> wire[i].stat] = Expected(table)
        /\ \A i \in DOMAIN wire : wire[i].ns = ns

(* The gauge is the share of busy ticks of the minute, across the wrap of  *)
(* the counters, as long as a hundred times the ticks fits an int; that    *)
(* bounds the first report too, which spans the time since boot.           *)
CpuRight ==
    wire # << >> /\ pc = "sleep" /\ 100 * span.busy < W /\ span.total < W
        => Last(wire).value = (100 * span.busy) \div span.total

(* SIGTERM ends the daemon wherever it finds it. *)
StopsOnTerm == ~running ~> Ended
=============================================================================
