----------------------------- MODULE AudioRing ------------------------------
(* Host audio (audio.cpp).  The emulation thread resamples what AI plays and      *)
(* writes it to a ring under the lock; the callback of the audio device           *)
(* (audio_sdl.cpp), on a thread of its own, reads the ring under the lock.        *)
(* A position between guest frames is a double; here it counts parts of a guest   *)
(* frame, Scale * host to a frame, and each addition to it may be off by Rounding *)
(* parts, the error of the double step and of the double sum together.            *)
EXTENDS Integers, Sequences

CONSTANTS HostRates, GuestRates, DefaultGuest, LeastGuest,
          RingFrames, FieldRate, LatencyFields, LeastQueued,
          PushSizes, PullSizes, Scale, Rounding, MaxMade

VARIABLES audio, ring,
          resampled,       \* the push between its two parts: guest frames taken, device frames made
          made, fed, since, out   \* history, as in AudioQueue

audioVars == <<audio, ring, resampled, made, fed, since, out>>

ASSUME AudioAssumption ==
    /\ HostRates \cup GuestRates \cup PushSizes \cup PullSizes \subseteq Nat \ {0}
    /\ {DefaultGuest, LeastGuest, RingFrames, FieldRate} \subseteq Nat \ {0}
    /\ {LatencyFields, LeastQueued, MaxMade} \subseteq Nat
    /\ Scale \in Nat \ {0} /\ Rounding \in 0 .. Scale - 1

Ceiling(a, b) == (a + b - 1) \div b
Smaller(a, b) == IF a < b THEN a ELSE b
Larger(a, b) == IF a < b THEN b ELSE a
MaxQueued(host) == Larger(Ceiling(host, FieldRate) * LatencyFields, LeastQueued)

EmptyRing == [data |-> [i \in 0 .. RingFrames - 1 |-> 0], read |-> 0, write |-> 0, avail |-> 0]
RingWrite(r, first, n) ==
    [r EXCEPT !.data = [i \in 0 .. RingFrames - 1 |->
                          LET k == (i - r.write) % RingFrames IN IF k < n THEN first + k ELSE r.data[i]],
              !.write = (@ + n) % RingFrames, !.avail = @ + n]
Oldest(r, n) == [k \in 1 .. n |-> r.data[(r.read + k - 1) % RingFrames]]
MutRingRead(r, n) == [r EXCEPT !.read = (@ + n) % RingFrames, !.avail = Larger(@ - n - 1, 0)]
RingRead(r, n) == [r EXCEPT !.read = (@ + n) % RingFrames, !.avail = @ - n]

Enabled == audio.enabled /\ audio.host > 0
NoPush == [taken |-> 0, count |-> 0]
Idle == resampled = NoPush    \* the emulation thread is not inside push_samples

\* open_device; the sink may find no device or no format it can use.
InitAudio(hz) ==
    /\ Idle /\ ~audio.enabled
    /\ audio' = [audio EXCEPT !.enabled = TRUE, !.guest = DefaultGuest, !.host = hz, !.pos = 0, !.paused = hz > 0]
    /\ ring' = EmptyRing /\ fed' = 0 /\ since' = 0
    /\ UNCHANGED <<resampled, made, out>>

\* The sink returns when its callback has; then the ring is cleared.
Shutdown ==
    /\ Idle /\ audio.enabled
    /\ audio' = [audio EXCEPT !.enabled = FALSE, !.host = 0, !.pos = 0, !.paused = FALSE]
    /\ ring' = [ring EXCEPT !.read = 0, !.write = 0, !.avail = 0] /\ fed' = 0 /\ since' = 0
    /\ UNCHANGED <<resampled, made, out>>

SetFrequency(asked) ==
    LET hz == IF asked < LeastGuest THEN DefaultGuest ELSE asked
    IN /\ Idle /\ audio.enabled /\ hz # audio.guest
       /\ audio' = [audio EXCEPT !.guest = hz, !.pos = 0] /\ fed' = 0 /\ since' = 0
       /\ UNCHANGED <<ring, resampled, made, out>>

\* Where count additions of 1/ratio may lead from the position p.
Steps(count) == count * (audio.guest * Scale - Rounding) .. count * (audio.guest * Scale + Rounding)
After(p, count) == {p + d : d \in Steps(count)}

\* Outside the lock: one frame and one addition each while the input lasts.
Resample(frames, count) ==
    LET length == frames * audio.host * Scale
        last == {p \in After(audio.pos, count - 1) : p < length}    \* where the last frame is made
        ends == IF count = 0 THEN {audio.pos} ELSE UNION {After(p, 1) : p \in last}
    IN /\ Idle /\ Enabled /\ made + count <= MaxMade
       /\ \E end \in ends :
             /\ end >= length
             /\ audio' = [audio EXCEPT !.paused = FALSE, !.pos = end - length]
       /\ resampled' = [taken |-> frames, count |-> count]
       /\ UNCHANGED <<ring, made, fed, since, out>>

\* Under the lock: as much as the latency limit and the ring leave room for.
PushFrames ==
    LET limit == MaxQueued(audio.host)
        room == Smaller(RingFrames - ring.avail, limit - ring.avail)
    IN /\ ~Idle
       /\ ring' = IF ring.avail >= limit THEN ring ELSE RingWrite(ring, made, Smaller(resampled.count, room))
       /\ resampled' = NoPush
       /\ made' = made + resampled.count /\ fed' = fed + resampled.taken
       /\ since' = since + resampled.count
       /\ UNCHANGED <<audio, out>>

\* The callback's thread, whenever the device is open and not paused.
PullFrames(frames) ==
    LET n == Smaller(frames, ring.avail)
    IN /\ audio.host > 0 /\ ~audio.paused
       /\ out' = Oldest(ring, n) \o [k \in 1 .. frames - n |-> -1]
       /\ ring' = RingRead(ring, n)
       /\ UNCHANGED <<audio, resampled, made, fed, since>>

AudioInit ==
    /\ audio = [enabled |-> FALSE, host |-> 0, guest |-> DefaultGuest, pos |-> 0, paused |-> FALSE]
    /\ ring = EmptyRing /\ resampled = NoPush /\ made = 0 /\ fed = 0 /\ since = 0 /\ out = <<>>

AudioNext ==
    \/ \E hz \in HostRates \cup {0} : InitAudio(hz)
    \/ Shutdown
    \/ \E hz \in GuestRates \cup {0} : SetFrequency(hz)
    \/ \E n \in PushSizes, count \in 0 .. MaxMade : Resample(n, count)
    \/ PushFrames
    \/ \E n \in PullSizes : PullFrames(n)

AudioSpec == AudioInit /\ [][AudioNext]_audioVars

-----------------------------------------------------------------------------
LimitOf(hz) == Smaller(RingFrames, MaxQueued(hz))
Promised == INSTANCE AudioQueue WITH queue <- Oldest(ring, ring.avail), host <- audio.host,
                                     guest <- audio.guest, Limit <- LimitOf,
                                     GuestRates <- GuestRates \cup {DefaultGuest}
\* The ring, its two positions and its count are the queue of AudioQueue, whatever
\* the callback does between the two halves of push_samples (audio.cpp:57-77,
\* 198-250): frames are heard in order and once, a push drops only its newest frames
\* and only past the limit, a frame lasts as long as the two rates say up to the
\* rounding of one addition however the sound is cut into pushes, and nothing of a
\* closed device is heard after it.
ImplementsAudioQueue == Promised!QueueSpec
=============================================================================
