----------------------------- MODULE AudioQueue -----------------------------
(* What the host audio promises (audio.cpp): while a device is open, the sound    *)
(* the guest pushes becomes a stream of numbered frames at the device's rate, as  *)
(* many as the time it lasts takes, however it is cut into pushes; a frame lasts  *)
(* guest/host of a pushed one, give or take Rounding in Scale * host parts of it. *)
(* The frames are heard in order and once; a push loses only the newest frames,   *)
(* off its own end, and only when the queue has reached its limit; a change of    *)
(* the rate keeps the frames that wait, closing forgets them.                     *)
EXTENDS Integers, Sequences

CONSTANTS HostRates, GuestRates, Scale, Rounding, Limit(_)
VARIABLES queue,    \* numbers of the frames waiting
          made,     \* number of the next frame
          host,     \* rate of the open device, 0 if there is none
          guest,    \* rate of the sound pushed
          fed,      \* frames pushed since the rate was set
          since,    \* frames made of them
          out       \* what the last callback got: frames, then silence

Silence == -1
Numbers(from, n) == [k \in 1 .. n |-> from + k - 1]
\* n device frames are as many as the guest frames fill: not too few, and the last begins
\* before they end.
Fill(n, frames) == /\ n * (guest * Scale + Rounding) >= frames * host * Scale
                   /\ n > 0 => (n - 1) * (guest * Scale - Rounding) < frames * host * Scale

QueueInit ==
    queue = <<>> /\ made = 0 /\ host = 0 /\ guest \in GuestRates /\ fed = 0 /\ since = 0 /\ out = <<>>

Anew == fed' = 0 /\ since' = 0
Open == host = 0 /\ host' \in HostRates /\ guest' \in GuestRates /\ Anew /\ UNCHANGED <<queue, made, out>>
Close == host' = 0 /\ queue' = <<>> /\ Anew /\ UNCHANGED <<made, guest, out>>
Retune == guest' \in GuestRates \ {guest} /\ Anew /\ UNCHANGED <<queue, made, host, out>>
Push ==
    LET taken == Len(queue') - Len(queue)
    IN /\ host # 0
       /\ fed' > fed
       /\ made' - made = since' - since
       /\ Fill(since', fed')
       /\ taken \in 0 .. made' - made
       /\ queue' = queue \o Numbers(made, taken)
       /\ taken < made' - made => Len(queue') = Limit(host)
       /\ UNCHANGED <<host, guest, out>>
Callback ==
    LET asked == Len(out')
        heard == IF asked < Len(queue) THEN asked ELSE Len(queue)
    IN /\ host # 0
       /\ out' = SubSeq(queue, 1, heard) \o [k \in 1 .. asked - heard |-> Silence]
       /\ queue' = SubSeq(queue, heard + 1, Len(queue))
       /\ UNCHANGED <<made, host, guest, fed, since>>

QueueVars == <<queue, made, host, guest, fed, since, out>>
QueueNext == Open \/ Close \/ Retune \/ Push \/ Callback
QueueSpec == QueueInit /\ [][QueueNext]_QueueVars
=============================================================================
