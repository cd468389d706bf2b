---------------------------- MODULE StatsdClient ----------------------------
(***************************************************************************)
(* statsd-client.c, as uptimed uses it: what each function returns, and    *)
(* what it leaves allocated.  A message is a sequence of lines, each with  *)
(* the name, the value and the type of one metric.                         *)
(***************************************************************************)
EXTENDS Sequences

CONSTANTS
    NoLink,         \* NULL
    StatsdFaults    \* which calls can fail

AllStatsdFaults == {"calloc", "socket", "getaddrinfo", "malloc", "sendto"}

(* statsd_init_with_namespace: the link, with its namespace, and what the  *)
(* process has allocated by then.  Only the structure is freed when the    *)
(* name of the host is not resolved, and nothing when the namespace has no *)
(* room.                                                                   *)
statsd_init_with_namespace(ns) ==
    {[link |-> [ns |-> ns], kept |-> {"link", "socket", "ns"}]}
    \cup {[link |-> NoLink, kept |-> {}] : f \in {"calloc", "socket"} \cap StatsdFaults}
    \cup {[link |-> NoLink, kept |-> {"socket"}] : f \in {"getaddrinfo"} \cap StatsdFaults}
    \cup {[link |-> NoLink, kept |-> {"link", "socket"}] : f \in {"malloc"} \cap StatsdFaults}

(* statsd_prepare, with lf and with a sample rate of 1: without a link it  *)
(* does not touch the message.                                             *)
statsd_prepare(link, stat, value, type, message) ==
    IF link = NoLink THEN message
    ELSE << [ns |-> link.ns, stat |-> stat, value |-> value, type |-> type] >>

(* statsd_send: what may have come out on the wire. *)
statsd_send(link, message) ==
    IF link = NoLink THEN {<< >>}
    ELSE {message} \cup {<< >> : f \in {"sendto"} \cap StatsdFaults}

(* statsd_finalize: what is left of what was allocated. *)
statsd_finalize(link, kept) ==
    IF link = NoLink THEN kept ELSE kept \ {"link", "socket", "ns"}
=============================================================================
