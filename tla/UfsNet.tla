------------------------------- MODULE UfsNet -------------------------------
(***************************************************************************)
(* Clients of the file server over UDP (filesystem/mfs.c, run_udp of       *)
(* server.c).  Server_To_Client sends its request until a reply comes; it  *)
(* opens a socket for every call, so a reply to an earlier call finds no   *)
(* receiver.  Packets may be lost and repeated but do not overtake each    *)
(* other: requests carry no identifier by which the server could tell a    *)
(* late copy from a new request.                                           *)
(***************************************************************************)
EXTENDS Ufs, SequencesExt

CONSTANTS
  Client,
  Shared,     \* name of a file that exists from the start
  Old,        \* clients whose file exists from the start
  MaxCalls,   \* bound on the calls of all clients
  MaxPackets  \* packets the server's socket queues; more are dropped

ASSUME NetConstants ==
  /\ Shared \in Name /\ Client \subseteq Name \ {Shared} /\ Old \subseteq Client
  /\ MaxCalls \in Nat /\ MaxPackets \in Nat

VARIABLES
  fs,      \* the server, as in Ufs
  synced,  \* the image on stable storage
  call,    \* request each client is waiting for, None outside calls
  nth,     \* number of the client's call, which stands for its socket
  queue,   \* requests in the network
  reply,   \* replies in the network
  acked,   \* ghost: contents of the client's slot it has been told of
  exists,  \* ghost: whether the client's file exists, as it has been told
  over     \* ghost: clients whose entry the entry of another was written over

vars == <<fs, synced, call, nth, queue, reply, acked, exists, over>>

None == [op |-> "none"]

(* Every client has a name of its own in the root directory and a slot of its
   own in the shared file, whose inode number is 1. *)
SharedInum == 1
SlotOf == CHOOSE f \in [Client -> 0..(Cardinality(Client) - 1)] :
            \A x, y \in Client : f[x] = f[y] => x = y
Requests ==
  {[op |-> "creat"], [op |-> "unlink"]} \cup {[op |-> "write", val |-> d] : d \in Data}

\* The image with the shared file and the files of some clients.
InitialImage(old) ==
  LET g == CHOOSE g \in [Inum -> Garbage] : TRUE
      s == CreatFile(Mkfs(g), 0, "reg", Shared).fs
      t == WriteFile(s, SharedInum, [i \in 1..Cardinality(Client) |-> Zeroed], 0, "reg").fs
  IN FoldSet(LAMBDA c, u : CreatFile(u, 0, "reg", c).fs, t, old)

Init ==
  /\ fs = InitialImage(Old) /\ synced = InitialImage(Old)
  /\ exists = [c \in Client |-> c \in Old]
  /\ call = [c \in Client |-> None]
  /\ nth = [c \in Client |-> 0]
  /\ queue = <<>> /\ reply = {}
  /\ acked = [c \in Client |-> Zeroed]
  /\ over = {}

-----------------------------------------------------------------------------
(* Clients *)

Packet(c, n, r) == [from |-> c, call |-> n, req |-> r]

\* UDP_Write; a packet that finds the queue full is dropped.
Send(p) == queue' = IF Len(queue) < MaxPackets THEN Append(queue, p) ELSE queue

\* MFS_Creat, MFS_Unlink, MFS_Write: open a socket, send the request.
Call(c) ==
  /\ call[c] = None /\ FoldFunction(LAMBDA x, y : x + y, 0, nth) < MaxCalls
  /\ \E r \in Requests :
       /\ call' = [call EXCEPT ![c] = r]
       /\ nth' = [nth EXCEPT ![c] = @ + 1]
       /\ Send(Packet(c, nth[c] + 1, r))
  /\ UNCHANGED <<fs, synced, reply, acked, exists, over>>

\* Mutant: the client waits for ever for the reply to its first packet.
ResendNever(c) == FALSE /\ UNCHANGED vars

\* select() times out: the loop sends the request again.
Resend(c) ==
  /\ call[c] # None
  /\ Send(Packet(c, nth[c], call[c]))
  /\ UNCHANGED <<fs, synced, call, nth, reply, acked, exists, over>>

\* UDP_Read returns a reply, the socket is closed and the call returns.
Return(c) ==
  \E m \in reply :
    /\ m.to = c /\ m.call = nth[c] /\ call[c] # None
    /\ reply' = {x \in reply : x.to # c}
    /\ call' = [call EXCEPT ![c] = None]
    /\ acked' = IF call[c].op = "write" /\ m.rc = 0
                THEN [acked EXCEPT ![c] = Datum(call[c].val)] ELSE acked
    /\ exists' = CASE call[c].op = "creat" /\ m.rc = 0 -> [exists EXCEPT ![c] = TRUE]
                   [] call[c].op = "unlink" -> [exists EXCEPT ![c] = FALSE]
                   [] OTHER -> exists
    /\ UNCHANGED <<fs, synced, nth, queue, over>>

-----------------------------------------------------------------------------
(* The server and the network *)

\* What run_udp does with a request.
Handle(p) ==
  CASE p.req.op = "creat" -> CreatFile(fs, 0, "reg", p.from)
    [] p.req.op = "unlink" -> UnlinkFile(fs, 0, p.from)
    [] p.req.op = "write" ->
         WriteFile(fs, SharedInum, <<Datum(p.req.val)>>, SlotOf[p.from], "reg")

\* The entry of c is written where that of d was.  unlink_file sets the size of the
\* directory to the slot it cleared, in front of entries that are still valid, and
\* creat_file writes at the size.
WrittenOver(d, c) ==
  LookupFile(fs, 0, d) # <<>> /\ LookupFile(fs, 0, d) = LookupFile(fs', 0, c)

\* One iteration of run_udp.  A reply to a call that is over finds its socket
\* closed.
Serve(c) ==
  /\ queue # <<>> /\ Head(queue).from = c
  /\ queue' = Tail(queue)
  /\ \E p \in {Head(queue)} : \E r \in {Handle(p)} :
       /\ fs' = r.fs
       /\ reply' = IF p.call = nth[c] /\ call[c] # None
                   THEN reply \cup {[to |-> c, call |-> p.call, rc |-> r.rc]} ELSE reply
  /\ over' = over \cup {d \in Client \ {c} : WrittenOver(d, c)}
  /\ UNCHANGED <<synced, call, nth, acked, exists>>

\* The network loses a request or a reply.
Lose ==
  /\ \/ \E k \in 1..Len(queue) : queue' = RemoveAt(queue, k) /\ UNCHANGED reply
     \/ \E m \in reply : reply' = reply \ {m} /\ UNCHANGED queue
  /\ UNCHANGED <<fs, synced, call, nth, acked, exists, over>>

\* The machine of the server fails and the server is started again.  fsync is
\* called by end_serv only, so what the page cache held may be lost.
Crash ==
  /\ \E image \in {fs, synced} :
       fs' = [image EXCEPT !.hi = 0, !.hd = 0] /\ synced' = fs'
  /\ UNCHANGED <<call, nth, queue, reply, acked, exists, over>>

Next == (\E c \in Client : Call(c) \/ Resend(c) \/ Return(c) \/ Serve(c)) \/ Lose

Spec == Init /\ [][Next]_vars

\* Requests and replies get through in the end if they are sent again and again.
FairSpec ==
  /\ Spec
  /\ \A c \in Client : WF_queue(Resend(c)) /\ SF_queue(Serve(c)) /\ SF_call(Return(c))

CrashSpec == Init /\ [][Next \/ Crash]_vars

-----------------------------------------------------------------------------
(* Properties *)

(* What the server has acknowledged holds until the client's next call, however
   often requests were sent again: the slot has the contents last written, and
   the client's file exists if it was created and not removed since.  Only the
   entry of another client written over it takes a file away.  After MFS_Unlink
   the file is gone whatever it returned: unlink_file returns -1 for a name that
   is not there, so a request sent again reports a failure after a success.  *)
AckedHolds ==
  \A c \in Client : call[c] = None =>
    /\ ReadFile(fs, SharedInum, SlotOf[c], 1).buf = <<acked[c]>>
    /\ c \notin over => (exists[c] <=> LookupFile(fs, 0, c) # <<>>)

(* Every call returns although requests and replies get lost: Server_To_Client
   never waits for something that cannot come any more.  *)
CallsReturn == \A c \in Client : call[c] # None ~> call[c] = None
=============================================================================
