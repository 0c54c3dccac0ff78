--------------------------- MODULE MandelbrotProofs ---------------------------
(***************************************************************************)
(* Proofs about the display and the mandelbrot page for every set of       *)
(* views, every number of SPEs, every I/O offset, and however far the RSX  *)
(* falls behind the main thread.                                           *)
(***************************************************************************)
EXTENDS Mandelbrot, SequenceTheorems, FiniteSetTheorems, TLAPS

Commands == [op : DrawingOps \cup {"flip", "waitflip"}, buf : Buffers, src : Offsets \cup {0}]

Drawing(c) == c.op \in DrawingOps

(* Neighbours in the queue: the drawing of a frame stays in its buffer; a  *)
(* flip comes with a wait behind it, and behind that wait the drawing for  *)
(* the other buffer; a wait behind drawing announces the flip.             *)
Window(q) ==
  /\ \A n \in 1 .. Len(q) : n + 1 <= Len(q) =>
       /\ Drawing(q[n]) => q[n + 1].buf = q[n].buf
       /\ q[n].op = "flip" => q[n + 1].op = "waitflip" /\ q[n + 1].buf = q[n].buf
  /\ \A n \in 1 .. Len(q) : n + 2 <= Len(q) =>
       /\ Drawing(q[n]) /\ q[n + 1].op = "waitflip" =>
            q[n + 2].op = "flip" /\ q[n + 2].buf = q[n].buf
       /\ q[n].op = "flip" => Drawing(q[n + 2]) /\ q[n + 2].buf = 1 - q[n].buf

(* The head of the queue against the screen: a buffer is drawn into, and   *)
(* flipped to, while it is neither shown nor about to be.  A wait at the   *)
(* head is the one before a flip, or the one behind it.                    *)
Leading(q) ==
  /\ flipping = -1 /\ scan # q[1].buf
  /\ Len(q) > 1 /\ q[2].op = "flip" /\ q[2].buf = q[1].buf

Trailing(q) ==
  /\ flipping = q[1].buf \/ (flipping = -1 /\ scan = q[1].buf)
  /\ Len(q) > 1 => Drawing(q[2]) /\ q[2].buf = 1 - q[1].buf

Ahead(q) ==
  q # <<>> =>
    /\ Drawing(q[1]) \/ q[1].op = "flip" => flipping = -1 /\ scan # q[1].buf
    /\ q[1].op = "waitflip" => Leading(q) \/ Trailing(q)

(* The end of the queue against the main thread: it is within the drawing  *)
(* of frame_index, or behind the flip to the other buffer.                 *)
InFrame == pc \in {"text", "drawn"}

Ends(q) ==
  /\ q = <<>> => flipping = -1 /\ scan # frame_index
  /\ q # <<>> /\ InFrame => Drawing(q[Len(q)]) /\ q[Len(q)].buf = frame_index
  /\ q # <<>> /\ ~InFrame =>
       /\ q[Len(q)].op = "waitflip" /\ q[Len(q)].buf = 1 - frame_index
       /\ Len(q) > 1 => q[Len(q) - 1].op = "flip"

QueueInv == fifo \in Seq(Commands) /\ Window(fifo) /\ Ahead(fifo) /\ Ends(fifo)

(* The picture against the cache, the page and its buffer.                 *)
PictureInv ==
  /\ picture \in [Slices -> Views \cup {Blank}]
  /\ pc # "join" => writing = {}
  /\ pc = "join" => /\ page = "mandelbrot" /\ ~disabled
                    /\ \A s \in Slices \ writing : picture[s] = view
  /\ (~disabled /\ cached # NoView /\ pc # "join") => picture = PictureOf(cached)
  /\ (page = "mandelbrot" /\ ~disabled /\ pc \in {"render", "text", "drawn"}) => cached = view
  /\ (page = "mandelbrot" /\ ~disabled /\ pc # "exited") => frame # 0
  /\ frame # 0 => page = "mandelbrot"
  /\ frame \in mapped \cup {0}

(* If the library waits for the frame's own drawing, a blit is outstanding *)
(* only until the text of its frame has been drawn.                        *)
BlitInv ==
  sync = "after" =>
    \A n \in DOMAIN fifo : fifo[n].op = "blit" =>
      /\ InFrame /\ Blits /\ fifo[n].src = frame
      /\ pc = "drawn" => \E m \in DOMAIN fifo : m > n /\ fifo[m].op = "text"

IInv == TypeOK /\ sync \in {"before", "after"} /\ QueueInv /\ PictureInv /\ BlitInv
-----------------------------------------------------------------------------
(* Queues.                                                                 *)

(* What Tail leaves, index by index.                                       *)
LEMMA TailIs ==
  ASSUME NEW S, NEW q \in Seq(S), q # <<>>
  PROVE  /\ Tail(q) \in Seq(S) /\ Len(q) \in Nat /\ Len(q) >= 1
         /\ Len(Tail(q)) = Len(q) - 1
         /\ \A n \in 1 .. Len(q) - 1 : Tail(q)[n] = q[n + 1]
         /\ Head(q) = q[1]
  OBVIOUS

(* What Append leaves, index by index.                                     *)
LEMMA AppendIs ==
  ASSUME NEW S, NEW q \in Seq(S), NEW c \in S
  PROVE  /\ Append(q, c) \in Seq(S) /\ Len(q) \in Nat
         /\ Len(Append(q, c)) = Len(q) + 1
         /\ \A n \in 1 .. Len(q) : Append(q, c)[n] = q[n]
         /\ Append(q, c)[Len(q) + 1] = c
         /\ Append(q, c) # <<>>
  OBVIOUS

(* Commands queued together are queued one after the other.                *)
LEMMA QueuedTogether ==
  ASSUME NEW S, NEW q \in Seq(S), NEW a \in S, NEW b \in S, NEW c \in S
  PROVE  /\ q \o <<a>> = Append(q, a)
         /\ q \o (<<a>> \o <<>>) = Append(q, a)
         /\ q \o (<<a>> \o <<b>>) = Append(Append(q, a), b)
         /\ q \o (<<>> \o <<a, b>>) = Append(Append(q, a), b)
         /\ q \o (<<a>> \o <<b, c>>) = Append(Append(Append(q, a), b), c)
  <1>1. /\ <<a>> \in Seq(S) /\ <<b>> \in Seq(S) /\ <<a, b>> \in Seq(S) /\ <<b, c>> \in Seq(S)
        /\ Append(q, a) \in Seq(S)
    OBVIOUS
  <1>2. q \o <<a>> = Append(q, a) /\ Append(q, a) \o <<b>> = Append(Append(q, a), b)
    OBVIOUS
  <1>3. q \o <<a, b>> = Append(Append(q, a), b)
    OBVIOUS
  <1>4. Append(q, a) \o <<b, c>> = Append(Append(Append(q, a), b), c)
    OBVIOUS
  <1>5. <<a>> \o <<>> = <<a>> /\ <<>> \o <<a, b>> = <<a, b>>
    BY <1>1, ConcatEmptySeq
  <1>6. q \o (<<a>> \o <<b>>) = (q \o <<a>>) \o <<b>>
    BY <1>1, ConcatAssociative
  <1>7. q \o (<<a>> \o <<b, c>>) = (q \o <<a>>) \o <<b, c>>
    BY <1>1, ConcatAssociative
  <1> QED
    BY <1>2, <1>3, <1>4, <1>5, <1>6, <1>7

(* What may follow the end of a queue.                                     *)
Fits(q, c) ==
  /\ q # <<>> =>
       /\ Drawing(q[Len(q)]) => c.buf = q[Len(q)].buf
       /\ q[Len(q)].op = "flip" => c.op = "waitflip" /\ c.buf = q[Len(q)].buf
  /\ Len(q) > 1 =>
       /\ Drawing(q[Len(q) - 1]) /\ q[Len(q)].op = "waitflip" =>
            c.op = "flip" /\ c.buf = q[Len(q) - 1].buf
       /\ q[Len(q) - 1].op = "flip" => Drawing(c) /\ c.buf = 1 - q[Len(q) - 1].buf

LEMMA WindowAppend ==
  ASSUME NEW q \in Seq(Commands), NEW c \in Commands, Window(q), Fits(q, c)
  PROVE  Window(Append(q, c))
  <1> DEFINE r == Append(q, c)
             k == Len(q)
  <1>1. /\ k \in Nat /\ Len(r) = k + 1
        /\ \A n \in 1 .. k : r[n] = q[n]
        /\ r[k + 1] = c
    BY AppendIs
  <1> HIDE DEF r
  <1>2. ASSUME NEW n \in 1 .. Len(r), n + 1 <= Len(r)
        PROVE  /\ Drawing(r[n]) => r[n + 1].buf = r[n].buf
               /\ r[n].op = "flip" => r[n + 1].op = "waitflip" /\ r[n + 1].buf = r[n].buf
    <2>1. CASE n + 1 <= k
      <3>1. r[n] = q[n] /\ r[n + 1] = q[n + 1] /\ n \in 1 .. k
        BY <1>1, <2>1
      <3> QED
        BY <2>1, <3>1 DEF Window
    <2>2. CASE n = k
      <3>1. r[n] = q[k] /\ r[n + 1] = c /\ q # <<>>
        BY <1>1, <2>2
      <3> QED
        BY <3>1 DEF Fits
    <2> QED
      BY <1>1, <1>2, <2>1, <2>2
  <1>3. ASSUME NEW n \in 1 .. Len(r), n + 2 <= Len(r)
        PROVE  /\ Drawing(r[n]) /\ r[n + 1].op = "waitflip" =>
                    r[n + 2].op = "flip" /\ r[n + 2].buf = r[n].buf
               /\ r[n].op = "flip" => Drawing(r[n + 2]) /\ r[n + 2].buf = 1 - r[n].buf
    <2>1. CASE n + 2 <= k
      <3>1. r[n] = q[n] /\ r[n + 1] = q[n + 1] /\ r[n + 2] = q[n + 2] /\ n \in 1 .. k
        BY <1>1, <2>1
      <3> QED
        BY <2>1, <3>1 DEF Window
    <2>2. CASE n = k - 1
      <3>1. r[n] = q[k - 1] /\ r[n + 1] = q[k] /\ r[n + 2] = c /\ k > 1
        BY <1>1, <2>2
      <3> QED
        BY <3>1 DEF Fits
    <2> QED
      BY <1>1, <1>3, <2>1, <2>2
  <1> QED
    BY <1>2, <1>3 DEF Window, r

LEMMA WindowTail ==
  ASSUME NEW q \in Seq(Commands), q # <<>>, Window(q)
  PROVE  Window(Tail(q))
  <1> DEFINE r == Tail(q)
             k == Len(q)
  <1>1. /\ k \in Nat /\ k >= 1 /\ Len(r) = k - 1
        /\ \A n \in 1 .. k - 1 : r[n] = q[n + 1]
    BY TailIs
  <1> HIDE DEF r
  <1>2. ASSUME NEW n \in 1 .. Len(r), n + 1 <= Len(r)
        PROVE  /\ Drawing(r[n]) => r[n + 1].buf = r[n].buf
               /\ r[n].op = "flip" => r[n + 1].op = "waitflip" /\ r[n + 1].buf = r[n].buf
    <2>1. r[n] = q[n + 1] /\ r[n + 1] = q[(n + 1) + 1] /\ n + 1 \in 1 .. k /\ (n + 1) + 1 <= k
      BY <1>1, <1>2
    <2> QED
      BY <2>1 DEF Window
  <1>3. ASSUME NEW n \in 1 .. Len(r), n + 2 <= Len(r)
        PROVE  /\ Drawing(r[n]) /\ r[n + 1].op = "waitflip" =>
                    r[n + 2].op = "flip" /\ r[n + 2].buf = r[n].buf
               /\ r[n].op = "flip" => Drawing(r[n + 2]) /\ r[n + 2].buf = 1 - r[n].buf
    <2>1. /\ r[n] = q[n + 1] /\ r[n + 1] = q[(n + 1) + 1] /\ r[n + 2] = q[(n + 1) + 2]
          /\ n + 1 \in 1 .. k /\ (n + 1) + 2 <= k
      BY <1>1, <1>3
    <2> QED
      BY <2>1 DEF Window
  <1> QED
    BY <1>2, <1>3 DEF Window, r

(* A command behind a queue that is not empty: only a wait that was alone  *)
(* has a new neighbour.                                                    *)
LEMMA AheadAppend ==
  ASSUME NEW q \in Seq(Commands), NEW c \in Commands, q # <<>>, Ahead(q),
         Len(q) = 1 /\ q[1].op = "waitflip" => Drawing(c) /\ c.buf = 1 - q[1].buf
  PROVE  Ahead(Append(q, c))
  <1> DEFINE r == Append(q, c)
             k == Len(q)
  <1>1. /\ k \in Nat /\ k >= 1 /\ Len(r) = k + 1 /\ r # <<>>
        /\ \A n \in 1 .. k : r[n] = q[n]
        /\ r[k + 1] = c
    <2>1. k \in Nat /\ k >= 1
      BY TailIs
    <2> QED
      BY <2>1, AppendIs
  <1> HIDE DEF r, k
  <1>2. CASE k = 1
    <2>1. r[1] = q[1] /\ r[2] = c /\ Len(r) = 2
      BY <1>1, <1>2
    <2>2. ~Leading(q)
      BY <1>2 DEF Leading, k
    <2>3. CASE q[1].op = "waitflip"
      <3>1. Trailing(q)
        BY <2>2, <2>3 DEF Ahead
      <3>2. Trailing(r)
        BY <1>2, <2>1, <2>3, <3>1 DEF Trailing, k
      <3>3. ~Drawing(r[1]) /\ r[1].op # "flip"
        BY <2>1, <2>3 DEF Drawing, DrawingOps
      <3> QED
        BY <3>2, <3>3 DEF Ahead, r
    <2>4. CASE q[1].op # "waitflip"
      BY <2>1, <2>4 DEF Ahead
    <2> QED
      BY <2>3, <2>4
  <1>3. CASE k > 1
    <2>1. r[1] = q[1] /\ r[2] = q[2] /\ Len(r) > 1
      BY <1>1, <1>3
    <2> QED
      BY <1>3, <2>1 DEF Ahead, Leading, Trailing, k
  <1>4. k = 1 \/ k > 1
    BY <1>1
  <1> QED
    BY <1>2, <1>3, <1>4 DEF r

-----------------------------------------------------------------------------
(* The main thread's commands.                                             *)

(* A command of the frame that is being drawn.                             *)
LEMMA DrawStep ==
  ASSUME NEW q \in Seq(Commands), Window(q), Ahead(q),
         NEW c \in Commands, Drawing(c), c.buf = frame_index, frame_index \in Buffers,
         q = <<>> => flipping = -1 /\ scan # frame_index,
         q # <<>> => \/ Drawing(q[Len(q)]) /\ q[Len(q)].buf = frame_index
                     \/ /\ q[Len(q)].op = "waitflip" /\ q[Len(q)].buf = 1 - frame_index
                        /\ Len(q) > 1 => q[Len(q) - 1].op = "flip"
  PROVE  /\ Append(q, c) \in Seq(Commands) /\ Append(q, c) # <<>>
         /\ Window(Append(q, c)) /\ Ahead(Append(q, c))
         /\ Append(q, c)[Len(Append(q, c))] = c
  <1> DEFINE r == Append(q, c)
             k == Len(q)
  <1>1. /\ r \in Seq(Commands) /\ k \in Nat /\ Len(r) = k + 1
        /\ \A n \in 1 .. k : r[n] = q[n]
        /\ r[k + 1] = c /\ r # <<>>
    BY AppendIs
  <1>0. frame_index \in {0, 1} /\ \A n \in 1 .. k : q[n] \in Commands /\ q[n].buf \in {0, 1}
    <2>1. Buffers = {0, 1}
      BY DEF Buffers, FRAME_COUNT
    <2>2. \A n \in 1 .. k : q[n] \in Commands
      OBVIOUS
    <2> QED
      BY <2>1, <2>2 DEF Commands
  <1>e. q # <<>> <=> k >= 1
    BY <1>1
  <1>2. Fits(q, c)
    <2>1. ASSUME q # <<>>
          PROVE  /\ Drawing(q[k]) => c.buf = q[k].buf
                 /\ q[k].op # "flip"
      BY <2>1 DEF Drawing, DrawingOps
    <2>2. ASSUME k > 1
          PROVE  /\ ~(Drawing(q[k - 1]) /\ q[k].op = "waitflip")
                 /\ q[k - 1].op = "flip" => c.buf = 1 - q[k - 1].buf
      <3>0. q # <<>> /\ k - 1 \in 1 .. k /\ k - 1 + 1 = k
        BY <1>1, <2>2
      <3>1. CASE Drawing(q[k])
        <4>1. q[k].op # "waitflip"
          BY <3>1 DEF Drawing, DrawingOps
        <4>2. q[k - 1].op # "flip"
          BY <3>0, <4>1 DEF Window
        <4> QED
          BY <4>1, <4>2
      <3>2. CASE q[k].op = "waitflip" /\ q[k].buf = 1 - frame_index /\ q[k - 1].op = "flip"
        <4>1. q[k].buf = q[k - 1].buf
          BY <3>0, <3>2 DEF Window
        <4>2. ~Drawing(q[k - 1])
          BY <3>2 DEF Drawing, DrawingOps
        <4> QED
          BY <1>0, <3>2, <4>1, <4>2
      <3> QED
        BY <2>2, <3>0, <3>1, <3>2
    <2> QED
      BY <2>1, <2>2 DEF Fits
  <1>3. Window(r)
    BY <1>2, WindowAppend
  <1>4. Ahead(r)
    <2>1. CASE q = <<>>
      <3>1. r[1] = c
        BY <1>1, <2>1
      <3>2. c.op # "waitflip"
        BY DEF Drawing, DrawingOps
      <3> QED
        BY <2>1, <3>1, <3>2 DEF Ahead
    <2>2. CASE q # <<>>
      <3>1. ASSUME k = 1, q[1].op = "waitflip"
            PROVE  c.buf = 1 - q[1].buf
        <4>1. ~Drawing(q[1])
          BY <3>1 DEF Drawing, DrawingOps
        <4>2. q[1].buf = 1 - frame_index
          BY <2>2, <3>1, <4>1
        <4> QED
          BY <1>0, <4>2
      <3> QED
        BY <2>2, <3>1, AheadAppend
    <2> QED
      BY <2>1, <2>2
  <1> QED
    BY <1>1, <1>3, <1>4 DEF r

(* The flip of a frame, behind its drawing or in an empty queue.           *)
LEMMA FlipStep ==
  ASSUME NEW q \in Seq(Commands), Window(q), Ahead(q),
         NEW w \in Commands, w.op = "waitflip", w.buf = frame_index,
         NEW f \in Commands, f.op = "flip", f.buf = frame_index,
         q = <<>> => flipping = -1 /\ scan # frame_index,
         q # <<>> => Drawing(q[Len(q)]) /\ q[Len(q)].buf = frame_index,
         NEW s, \/ s = Append(Append(q, f), w)
                \/ s = Append(Append(Append(q, w), f), w)
  PROVE  /\ s \in Seq(Commands) /\ Window(s) /\ Ahead(s)
         /\ Len(s) > 1 /\ s[Len(s)] = w /\ s[Len(s) - 1] = f
  <1>d. ~Drawing(w) /\ ~Drawing(f)
    BY DEF Drawing, DrawingOps
  <1>k. Len(q) \in Nat /\ (q # <<>> => Len(q) >= 1)
    BY TailIs
  <1>1. ASSUME NEW c \in Commands, c.buf = frame_index
        PROVE  Fits(q, c)
    <2>1. ASSUME q # <<>>
          PROVE  q[Len(q)].op \notin {"flip", "waitflip"}
      BY <2>1 DEF Drawing, DrawingOps
    <2>2. ASSUME Len(q) > 1
          PROVE  q[Len(q) - 1].op # "flip"
      <3>1. q # <<>> /\ Len(q) - 1 \in 1 .. Len(q) /\ Len(q) - 1 + 1 = Len(q)
        BY <1>k, <2>2
      <3> QED
        BY <2>1, <3>1 DEF Window
    <2>3. Len(q) > 1 => q # <<>>
      BY <1>k
    <2> QED
      BY <1>1, <2>1, <2>2, <2>3 DEF Fits
  (* Two commands more: the flip and the wait behind it.                   *)
  <1>2. ASSUME NEW p \in Seq(Commands), Window(p), Fits(p, f),
               p # <<>> => p[Len(p)].op \notin {"flip"}
        PROVE  LET r == Append(Append(p, f), w)
               IN  /\ r \in Seq(Commands) /\ Window(r) /\ Len(r) = Len(p) + 2
                   /\ r[Len(p) + 1] = f /\ r[Len(p) + 2] = w
                   /\ \A n \in 1 .. Len(p) : r[n] = p[n]
    <2> DEFINE g == Append(p, f)
               r == Append(g, w)
               k == Len(p)
    <2>1. /\ g \in Seq(Commands) /\ k \in Nat /\ Len(g) = k + 1 /\ g # <<>>
          /\ \A n \in 1 .. k : g[n] = p[n]
          /\ g[k + 1] = f
      BY AppendIs
    <2>2. Window(g)
      BY <1>2, WindowAppend
    <2> HIDE DEF g
    <2>3. /\ r \in Seq(Commands) /\ Len(r) = Len(g) + 1
          /\ \A n \in 1 .. Len(g) : r[n] = g[n]
          /\ r[Len(g) + 1] = w
      BY <2>1, AppendIs
    <2>4. Fits(g, w)
      <3>1. g[Len(g)] = f
        BY <2>1
      <3>2. ASSUME Len(g) > 1
            PROVE  g[Len(g) - 1] = p[k] /\ p # <<>>
        BY <2>1, <3>2
      <3> QED
        BY <1>2, <1>d, <3>1, <3>2 DEF Fits
    <2>5. Window(r)
      BY <2>1, <2>2, <2>4, WindowAppend
    <2> HIDE DEF r
    <2>6. /\ Len(r) = k + 2 /\ r[k + 1] = f /\ r[k + 2] = w
          /\ \A n \in 1 .. k : r[n] = p[n]
      <3> HIDE DEF k
      <3> QED
        BY <2>1, <2>3
    <2> QED
      BY <2>3, <2>5, <2>6 DEF r, g
  <1>3. ASSUME NEW r, r = Append(Append(q, f), w)
        PROVE  /\ r \in Seq(Commands) /\ Window(r) /\ Ahead(r)
               /\ Len(r) > 1 /\ r[Len(r)] = w /\ r[Len(r) - 1] = f
    <2>1. q # <<>> => q[Len(q)].op \notin {"flip"}
      BY DEF Drawing, DrawingOps
    <2>2. /\ r \in Seq(Commands) /\ Window(r) /\ Len(r) = Len(q) + 2
          /\ r[Len(q) + 1] = f /\ r[Len(q) + 2] = w
          /\ \A n \in 1 .. Len(q) : r[n] = q[n]
      BY <1>1, <1>2, <1>3, <2>1
    <2>3. Len(r) > 1 /\ r[Len(r)] = w /\ r[Len(r) - 1] = f
      <3>1. Len(r) - 1 = Len(q) + 1
        BY <1>k, <2>2
      <3> QED
        BY <1>k, <2>2, <3>1
    <2>4. CASE q = <<>>
      <3>1. r[1] = f
        BY <2>2, <2>4
      <3> QED
        BY <2>2, <2>3, <2>4, <3>1 DEF Ahead
    <2>5. CASE q # <<>>
      <3>1. Append(q, f) \in Seq(Commands) /\ Append(q, f) # <<>> /\ Len(Append(q, f)) # 1
        BY <1>k, <2>5, AppendIs
      <3>2. Ahead(Append(q, f))
        <4>1. Len(q) = 1 => q[1].op # "waitflip"
          BY <2>5 DEF Drawing, DrawingOps
        <4> QED
          BY <2>5, <4>1, AheadAppend
      <3>3. Ahead(r)
        BY <1>3, <3>1, <3>2, AheadAppend
      <3> QED
        BY <2>2, <2>3, <3>3
    <2> QED
      BY <2>4, <2>5
  <1>4. ASSUME NEW r, r = Append(Append(Append(q, w), f), w)
        PROVE  /\ r \in Seq(Commands) /\ Window(r) /\ Ahead(r)
               /\ Len(r) > 1 /\ r[Len(r)] = w /\ r[Len(r) - 1] = f
    <2> DEFINE p == Append(q, w)
    <2>1. /\ p \in Seq(Commands) /\ Len(p) = Len(q) + 1 /\ p # <<>>
          /\ \A n \in 1 .. Len(q) : p[n] = q[n]
          /\ p[Len(q) + 1] = w
      BY AppendIs
    <2>2. Window(p)
      BY <1>1, WindowAppend
    <2> HIDE DEF p
    <2>3. Fits(p, f)
      <3>1. p[Len(p)] = w
        BY <2>1
      <3>2. ASSUME Len(p) > 1
            PROVE  p[Len(p) - 1] = q[Len(q)] /\ q # <<>>
        BY <1>k, <2>1, <3>2
      <3>3. q # <<>> => q[Len(q)].op # "flip"
        BY DEF Drawing, DrawingOps
      <3> QED
        BY <1>d, <3>1, <3>2, <3>3 DEF Fits
    <2>4. /\ r \in Seq(Commands) /\ Window(r) /\ Len(r) = Len(p) + 2
          /\ r[Len(p) + 1] = f /\ r[Len(p) + 2] = w
          /\ \A n \in 1 .. Len(p) : r[n] = p[n]
      <3>1. p[Len(p)].op \notin {"flip"}
        BY <2>1
      <3>2. r = Append(Append(p, f), w)
        BY <1>4 DEF p
      <3> QED
        BY <1>2, <2>1, <2>2, <2>3, <3>1, <3>2
    <2>5. Len(r) > 1 /\ r[Len(r)] = w /\ r[Len(r) - 1] = f
      <3>1. Len(r) - 1 = Len(p) + 1 /\ Len(r) > 1
        BY <1>k, <2>1, <2>4
      <3> QED
        BY <2>4, <3>1
    <2>6. CASE q = <<>>
      <3>1. Len(q) = 0
        BY <2>6
      <3>2. r[1] = w /\ r[2] = f
        BY <2>1, <2>4, <3>1
      <3>3. Leading(r)
        BY <2>5, <2>6, <3>2 DEF Leading
      <3> QED
        BY <1>d, <2>4, <2>5, <3>2, <3>3 DEF Ahead
    <2>7. CASE q # <<>>
      <3>1. Ahead(p)
        <4>1. Len(q) = 1 => q[1].op # "waitflip"
          BY <2>7 DEF Drawing, DrawingOps
        <4> QED
          BY <2>7, <4>1, AheadAppend DEF p
      <3>2. Len(p) # 1
        BY <1>k, <2>1, <2>7
      <3>3. Append(p, f) \in Seq(Commands) /\ Append(p, f) # <<>> /\ Len(Append(p, f)) # 1
        BY <1>k, <2>1, AppendIs
      <3>4. Ahead(Append(p, f))
        BY <2>1, <3>1, <3>2, AheadAppend
      <3>5. Ahead(Append(Append(p, f), w))
        BY <3>3, <3>4, AheadAppend
      <3> QED
        BY <1>4, <2>4, <2>5, <3>5 DEF p
    <2> QED
      BY <2>6, <2>7
  <1> QED
    BY <1>3, <1>4

-----------------------------------------------------------------------------
(* The RSX and the vertical blank.                                         *)

LEMMA BufferValues == Buffers = {0, 1}
  BY DEF Buffers, FRAME_COUNT

LEMMA CommandValues ==
  ASSUME NEW c \in Commands
  PROVE  /\ c.buf \in {0, 1} /\ c.src \in Offsets \cup {0}
         /\ Drawing(c) \/ c.op = "flip" \/ c.op = "waitflip"
  BY BufferValues DEF Commands, Drawing

(* The screen stays ahead of the queue when the RSX takes the head.        *)
LEMMA PopAhead ==
  ASSUME NEW q \in Seq(Commands), q # <<>>, Window(q), Ahead(q), Ends(q), Tail(q) # <<>>,
         q[1].op = "waitflip" => flipping = -1,
         flipping' = IF q[1].op = "flip" THEN q[1].buf ELSE flipping,
         scan' = scan
  PROVE  Ahead(Tail(q))'
  <1> DEFINE r == Tail(q)
             k == Len(q)
  <1>1. /\ k \in Nat /\ k > 1 /\ Len(r) = k - 1
        /\ \A n \in 1 .. k - 1 : r[n] = q[n + 1]
    BY TailIs
  <1>2. r[1] = q[2] /\ (Len(r) > 1 => k > 2 /\ r[2] = q[3])
    BY <1>1
  <1>3. q[1] \in Commands /\ q[2] \in Commands
    BY <1>1
  <1>4. q[1].buf \in {0, 1} /\ q[2].buf \in {0, 1}
    BY <1>3, CommandValues
  <1>5. /\ Drawing(q[1]) => q[2].buf = q[1].buf
        /\ q[1].op = "flip" => q[2].op = "waitflip" /\ q[2].buf = q[1].buf
    BY <1>1 DEF Window
  <1>6. k > 2 => /\ Drawing(q[1]) /\ q[2].op = "waitflip" => q[3].op = "flip" /\ q[3].buf = q[1].buf
                 /\ q[1].op = "flip" => Drawing(q[3]) /\ q[3].buf = 1 - q[1].buf
    BY <1>1 DEF Window
  <1>7. \A c \in Commands : ~(c.op = "waitflip" /\ (Drawing(c) \/ c.op = "flip"))
    BY DEF Drawing, DrawingOps
  <1> SUFFICES /\ Drawing(r[1]) \/ r[1].op = "flip" => flipping' = -1 /\ scan' # r[1].buf
               /\ r[1].op = "waitflip" => Leading(r)' \/ Trailing(r)'
    BY DEF Ahead
  <1> HIDE DEF r, k
  <1>8. CASE Drawing(q[1])
    <2>1. q[1].op \notin {"flip", "waitflip"}
      BY <1>8 DEF Drawing, DrawingOps
    <2>2. flipping' = -1 /\ scan' # q[2].buf
      BY <1>5, <1>8, <2>1 DEF Ahead
    <2>3. ASSUME q[2].op = "waitflip"
          PROVE  Leading(r)'
      <3>1. k > 2
        <4>1. ASSUME k = 2
              PROVE  FALSE
          <5>1. ~Drawing(q[2])
            BY <1>3, <1>7, <2>3
          <5>2. q[2 - 1].op = "flip"
            BY <1>1, <4>1, <5>1 DEF Ends, k
          <5> QED
            BY <2>1, <5>2
        <4> QED
          BY <1>1, <4>1
      <3>2. q[3].op = "flip" /\ q[3].buf = q[2].buf
        BY <1>5, <1>6, <1>8, <2>3, <3>1
      <3>3. Len(r) > 1
        BY <1>1, <3>1
      <3> QED
        BY <1>2, <2>2, <3>2, <3>3 DEF Leading
    <2> QED
      BY <1>2, <2>2, <2>3
  <1>9. CASE q[1].op = "flip"
    <2>1. flipping' = r[1].buf /\ r[1].op = "waitflip"
      BY <1>2, <1>5, <1>9
    <2>2. Len(r) > 1 => Drawing(r[2]) /\ r[2].buf = 1 - r[1].buf
      BY <1>2, <1>5, <1>6, <1>9
    <2>3. Trailing(r)'
      BY <2>1, <2>2 DEF Trailing, Drawing
    <2>4. ~(Drawing(r[1]) \/ r[1].op = "flip")
      BY <1>2, <1>3, <1>7, <2>1
    <2> QED
      BY <2>1, <2>3, <2>4
  <1>10. CASE q[1].op = "waitflip"
    <2>0. flipping = -1 /\ flipping' = -1
      BY <1>10
    <2>1. CASE Leading(q)
      <3>1. q[2].op = "flip" /\ scan # q[2].buf
        BY <1>1, <2>1 DEF Leading
      <3> QED
        BY <1>2, <2>0, <3>1
    <2>2. CASE Trailing(q)
      <3>1. Drawing(q[2]) /\ q[2].buf = 1 - q[1].buf
        BY <1>1, <2>2 DEF Trailing, k
      <3>2. scan = q[1].buf
        BY <1>4, <2>0, <2>2 DEF Trailing
      <3>3. q[2].op # "waitflip"
        BY <1>3, <1>7, <3>1
      <3>4. scan' # q[2].buf
        BY <1>4, <3>1, <3>2
      <3> QED
        BY <1>2, <2>0, <3>3, <3>4
    <2> QED
      BY <1>10, <2>1, <2>2 DEF Ahead
  <1>11. Drawing(q[1]) \/ q[1].op = "flip" \/ q[1].op = "waitflip"
    BY <1>3, CommandValues
  <1> QED
    BY <1>8, <1>9, <1>10, <1>11

(* The end of the queue stays with the main thread.                        *)
LEMMA PopEnds ==
  ASSUME NEW q \in Seq(Commands), q # <<>>, Ahead(q), Ends(q), frame_index \in Buffers,
         q[1].op = "waitflip" => flipping = -1,
         flipping' = IF q[1].op = "flip" THEN q[1].buf ELSE flipping,
         scan' = scan, frame_index' = frame_index, pc' = pc
  PROVE  Ends(Tail(q))'
  <1> DEFINE r == Tail(q)
             k == Len(q)
  <1>1. /\ k \in Nat /\ k >= 1 /\ Len(r) = k - 1
        /\ \A n \in 1 .. k - 1 : r[n] = q[n + 1]
        /\ (r = <<>> <=> k = 1)
    <2>1. /\ k \in Nat /\ k >= 1 /\ Len(r) = k - 1 /\ r \in Seq(Commands)
          /\ \A n \in 1 .. k - 1 : r[n] = q[n + 1]
      BY TailIs
    <2>2. r = <<>> <=> Len(r) = 0
      <3> HIDE DEF r
      <3> QED
        BY <2>1
    <2>3. r = <<>> <=> k = 1
      <3> HIDE DEF r, k
      <3> QED
        BY <2>1, <2>2
    <2> QED
      BY <2>1, <2>3
  <1>2. InFrame' = InFrame
    BY DEF InFrame
  <1>3. ASSUME k = 1
        PROVE  flipping' = -1 /\ scan' # frame_index'
    <2>1. CASE InFrame
      <3>1. Drawing(q[1]) /\ q[1].buf = frame_index
        BY <1>3, <2>1 DEF Ends
      <3>2. q[1].op # "flip"
        BY <3>1 DEF Drawing, DrawingOps
      <3> QED
        BY <3>1, <3>2 DEF Ahead
    <2>2. CASE ~InFrame
      <3>1. q[1].op = "waitflip" /\ q[1].buf = 1 - frame_index
        BY <1>3, <2>2 DEF Ends
      <3>2. Trailing(q)
        BY <1>3, <3>1 DEF Ahead, Leading
      <3>3. flipping = -1 /\ flipping' = -1 /\ frame_index \in {0, 1}
        BY <3>1, BufferValues
      <3>4. scan = 1 - frame_index
        BY <3>1, <3>2, <3>3 DEF Trailing
      <3> QED
        BY <3>3, <3>4
    <2> QED
      BY <2>1, <2>2
  <1>4. ASSUME k > 1
        PROVE  r[Len(r)] = q[k] /\ (Len(r) > 1 => r[Len(r) - 1] = q[k - 1] /\ k > 1)
    BY <1>1, <1>4
  <1>5. /\ q # <<>> /\ InFrame => Drawing(q[k]) /\ q[k].buf = frame_index
        /\ q # <<>> /\ ~InFrame =>
             /\ q[k].op = "waitflip" /\ q[k].buf = 1 - frame_index
             /\ k > 1 => q[k - 1].op = "flip"
    BY DEF Ends
  <1> HIDE DEF r, k
  <1>6. CASE k = 1
    <2>1. r = <<>> /\ flipping' = -1 /\ scan' # frame_index'
      BY <1>1, <1>3, <1>6
    <2> QED
      BY <2>1 DEF Ends, r
  <1>7. CASE k > 1
    <2>1. r # <<>>
      BY <1>1, <1>7
    <2>2. r[Len(r)] = q[k] /\ (Len(r) > 1 => r[Len(r) - 1] = q[k - 1])
      BY <1>4, <1>7
    <2>3. InFrame => Drawing(r[Len(r)]) /\ r[Len(r)].buf = frame_index'
      BY <1>5, <2>2
    <2>4. ~InFrame => /\ r[Len(r)].op = "waitflip" /\ r[Len(r)].buf = 1 - frame_index'
                      /\ Len(r) > 1 => r[Len(r) - 1].op = "flip"
      BY <1>5, <1>7, <2>2
    <2> QED
      BY <1>2, <2>1, <2>3, <2>4 DEF Ends, r, Drawing
  <1>8. k = 1 \/ k > 1
    BY <1>1
  <1> QED
    BY <1>6, <1>7, <1>8

-----------------------------------------------------------------------------
(* Every step keeps the queue's part of the invariant.                     *)

LEMMA QueueKept ==
  ASSUME QueueInv, UNCHANGED <<fifo, flipping, scan, frame_index>>, InFrame' = InFrame
  PROVE  QueueInv'
  <1>1. Ahead(fifo)' /\ Window(fifo)'
    BY DEF QueueInv, Ahead, Window, Leading, Trailing, Drawing
  <1>2. Ends(fifo)'
    BY DEF QueueInv, Ends, Drawing
  <1>3. fifo' \in Seq(Commands)
    BY DEF QueueInv
  <1> QED
    BY <1>1, <1>2, <1>3 DEF QueueInv

LEMMA QueueRsx ==
  ASSUME QueueInv, frame_index \in Buffers, Rsx
  PROVE  QueueInv'
  <1>1. /\ fifo \in Seq(Commands) /\ Window(fifo) /\ Ahead(fifo) /\ Ends(fifo)
    BY DEF QueueInv
  <1>2. /\ fifo # <<>> /\ fifo' = Tail(fifo)
        /\ Head(fifo).op = "waitflip" => flipping = -1
        /\ flipping' = IF Head(fifo).op = "flip" THEN Head(fifo).buf ELSE flipping
        /\ scan' = scan /\ frame_index' = frame_index /\ pc' = pc
    BY DEF Rsx, RsxStep
  <1>3. Head(fifo) = fifo[1] /\ Tail(fifo) \in Seq(Commands)
    BY <1>1, <1>2, TailIs
  <1>4. Window(Tail(fifo))
    BY <1>1, <1>2, WindowTail
  <1>5. ASSUME NEW q, q = fifo
        PROVE  Ends(Tail(q))' /\ (Tail(q) # <<>> => Ahead(Tail(q))')
    <2>1. /\ q \in Seq(Commands) /\ Window(q) /\ Ahead(q) /\ Ends(q) /\ q # <<>>
      BY <1>1, <1>2, <1>5
    <2>2. /\ q[1].op = "waitflip" => flipping = -1
          /\ flipping' = IF q[1].op = "flip" THEN q[1].buf ELSE flipping
      BY <1>2, <1>3, <1>5
    <2>3. Ends(Tail(q))'
      BY <1>2, <2>1, <2>2, PopEnds
    <2>4. Tail(q) # <<>> => Ahead(Tail(q))'
      BY <1>2, <2>1, <2>2, PopAhead
    <2> QED
      BY <2>3, <2>4
  <1>6. Ends(fifo)'
    BY <1>2, <1>5 DEF Ends, Drawing
  <1>7. Ahead(fifo)'
    BY <1>2, <1>5 DEF Ahead, Leading, Trailing, Drawing
  <1>8. Window(fifo)'
    BY <1>2, <1>4 DEF Window, Drawing
  <1> QED
    BY <1>2, <1>3, <1>6, <1>7, <1>8 DEF QueueInv

LEMMA QueueVBlank ==
  ASSUME QueueInv, Vertical
  PROVE  QueueInv'
  <1>1. /\ fifo \in Seq(Commands) /\ Window(fifo) /\ Ahead(fifo) /\ Ends(fifo)
    BY DEF QueueInv
  <1>2. /\ flipping # -1 /\ scan' = flipping /\ flipping' = -1
        /\ fifo' = fifo /\ frame_index' = frame_index /\ pc' = pc
    BY DEF Vertical, VBlank
  <1>3. fifo # <<>>
    BY <1>1, <1>2 DEF Ends
  <1>4. fifo[1].op = "waitflip" /\ ~Drawing(fifo[1])
    <2>1. fifo[1] \in Commands
      BY <1>1, <1>3, TailIs
    <2>2. ~(Drawing(fifo[1]) \/ fifo[1].op = "flip")
      BY <1>1, <1>2, <1>3 DEF Ahead
    <2> QED
      BY <2>1, <2>2, CommandValues
  <1>5. /\ flipping = fifo[1].buf
        /\ Len(fifo) > 1 => Drawing(fifo[2]) /\ fifo[2].buf = 1 - fifo[1].buf
    BY <1>1, <1>2, <1>3, <1>4 DEF Ahead, Leading, Trailing
  <1>6. Trailing(fifo)'
    BY <1>2, <1>5 DEF Trailing, Drawing
  <1>7. Ahead(fifo)'
    BY <1>2, <1>4, <1>6 DEF Ahead, Drawing
  <1>8. Ends(fifo)'
    BY <1>1, <1>2, <1>3 DEF Ends, InFrame, Drawing
  <1>9. Window(fifo)'
    BY <1>1, <1>2 DEF Window, Drawing
  <1> QED
    BY <1>1, <1>2, <1>7, <1>8, <1>9 DEF QueueInv

(* A step of the main loop that queues commands.                           *)
LEMMA Queued ==
  ASSUME NEW r \in Seq(Commands), r # <<>>, Window(r), Ahead(r),
         InFrame' => Drawing(r[Len(r)]) /\ r[Len(r)].buf = frame_index',
         ~InFrame' => /\ r[Len(r)].op = "waitflip" /\ r[Len(r)].buf = 1 - frame_index'
                      /\ Len(r) > 1 => r[Len(r) - 1].op = "flip",
         fifo' = r, UNCHANGED <<flipping, scan>>
  PROVE  QueueInv'
  <1>1. Ahead(r)'
    BY DEF Ahead, Leading, Trailing, Drawing
  <1>2. Ends(r)'
    BY DEF Ends, Drawing
  <1>3. Ahead(fifo)'
    BY <1>1 DEF Ahead, Leading, Trailing, Drawing
  <1>4. Ends(fifo)'
    BY <1>2 DEF Ends, Drawing
  <1>5. Window(fifo)' /\ fifo' \in Seq(Commands)
    BY DEF Window, Drawing
  <1> QED
    BY <1>3, <1>4, <1>5 DEF QueueInv

(* What the end of the queue must be for the next drawing.                 *)
LEMMA EndsForDrawing ==
  ASSUME QueueInv
  PROVE  /\ fifo \in Seq(Commands) /\ Window(fifo) /\ Ahead(fifo)
         /\ fifo = <<>> => flipping = -1 /\ scan # frame_index
         /\ fifo # <<>> =>
              \/ Drawing(fifo[Len(fifo)]) /\ fifo[Len(fifo)].buf = frame_index
              \/ /\ fifo[Len(fifo)].op = "waitflip" /\ fifo[Len(fifo)].buf = 1 - frame_index
                 /\ Len(fifo) > 1 => fifo[Len(fifo) - 1].op = "flip"
  BY DEF QueueInv, Ends

LEMMA DrawingCommands ==
  ASSUME frame_index \in Buffers, frame \in Offsets \cup {0}
  PROVE  /\ \A c \in {Clear, Text, Blit(frame)} :
              c \in Commands /\ Drawing(c) /\ c.buf = frame_index
         /\ WaitFlip \in Commands /\ WaitFlip.op = "waitflip" /\ WaitFlip.buf = frame_index
         /\ LET f == Cmd("flip", frame_index, 0)
            IN  f \in Commands /\ f.op = "flip" /\ f.buf = frame_index
  BY DEF Clear, Text, Blit, WaitFlip, Cmd, Commands, Drawing, DrawingOps

LEMMA QueueRender ==
  ASSUME QueueInv, frame_index \in Buffers, frame \in Offsets \cup {0}, Render
  PROVE  QueueInv'
  <1>1. /\ pc' = "text" /\ UNCHANGED <<flipping, scan, frame_index>>
        /\ fifo' = fifo \o (<<Clear>> \o (IF Blits THEN <<Blit(frame)>> ELSE <<>>))
    BY DEF Render, Queue
  <1> DEFINE p == Append(fifo, Clear)
             r == Append(p, Blit(frame))
  <1>c. /\ Clear \in Commands /\ Drawing(Clear) /\ Clear.buf = frame_index
        /\ Blit(frame) \in Commands /\ Drawing(Blit(frame)) /\ Blit(frame).buf = frame_index
    BY DrawingCommands
  <1>2. p \in Seq(Commands) /\ p # <<>> /\ Window(p) /\ Ahead(p) /\ p[Len(p)] = Clear
    BY <1>c, EndsForDrawing, DrawStep
  <1> HIDE DEF p
  <1>3. r \in Seq(Commands) /\ r # <<>> /\ Window(r) /\ Ahead(r) /\ r[Len(r)] = Blit(frame)
    BY <1>c, <1>2, DrawStep
  <1>4. fifo' = IF Blits THEN r ELSE p
    <2> HIDE DEF Blits
    <2>1. fifo \in Seq(Commands)
      BY EndsForDrawing
    <2>2. /\ fifo \o (<<Clear>> \o <<>>) = p
          /\ fifo \o (<<Clear>> \o <<Blit(frame)>>) = r
      BY <1>c, <2>1, QueuedTogether DEF p
    <2> HIDE DEF r
    <2> QED
      BY <1>1, <2>2
  <1> HIDE DEF r
  <1>5. InFrame'
    BY <1>1 DEF InFrame
  <1> QED
    BY <1>1, <1>c, <1>2, <1>3, <1>4, <1>5, Queued

LEMMA QueueText ==
  ASSUME QueueInv, frame_index \in Buffers, frame \in Offsets \cup {0}, DrawText
  PROVE  QueueInv'
  <1>1. /\ pc' = "drawn" /\ UNCHANGED <<flipping, scan, frame_index>>
        /\ fifo' = fifo \o <<Text>>
    BY DEF DrawText, Queue
  <1> DEFINE r == Append(fifo, Text)
  <1>c. Text \in Commands /\ Drawing(Text) /\ Text.buf = frame_index
    BY DrawingCommands
  <1>2. r \in Seq(Commands) /\ r # <<>> /\ Window(r) /\ Ahead(r) /\ r[Len(r)] = Text
    BY <1>c, EndsForDrawing, DrawStep
  <1>3. fifo' = r
    BY <1>c, <1>1, EndsForDrawing, QueuedTogether
  <1> HIDE DEF r
  <1>4. InFrame'
    BY <1>1 DEF InFrame
  <1> QED
    BY <1>1, <1>c, <1>2, <1>3, <1>4, Queued

LEMMA QueueFlip ==
  ASSUME QueueInv, frame_index \in Buffers, frame \in Offsets \cup {0}, Flip
  PROVE  QueueInv'
  <1> DEFINE f == Cmd("flip", frame_index, 0)
             w == WaitFlip
             r == Append(Append(fifo, f), w)
             s == Append(Append(Append(fifo, w), f), w)
  <1>1. /\ pc = "drawn" /\ pc' \in {"input", "shutdown"} /\ UNCHANGED <<flipping, scan>>
        /\ frame_index' = 1 - frame_index
        /\ fifo' = fifo \o ((IF first_flip THEN <<>> ELSE <<w>>) \o <<f, w>>)
    BY DEF Flip, flip_frame, Queue, FlipCommands
  <1>c. /\ w \in Commands /\ w.op = "waitflip" /\ w.buf = frame_index
        /\ f \in Commands /\ f.op = "flip" /\ f.buf = frame_index
    BY DrawingCommands
  <1> HIDE DEF f, w
  <1>2. /\ fifo \in Seq(Commands) /\ Window(fifo) /\ Ahead(fifo)
        /\ fifo = <<>> => flipping = -1 /\ scan # frame_index
        /\ fifo # <<>> => Drawing(fifo[Len(fifo)]) /\ fifo[Len(fifo)].buf = frame_index
    BY <1>1 DEF QueueInv, Ends, InFrame
  <1>3. ASSUME NEW x \in {r, s}
        PROVE  /\ x \in Seq(Commands) /\ Window(x) /\ Ahead(x)
               /\ Len(x) > 1 /\ x[Len(x)] = w /\ x[Len(x) - 1] = f
    <2> DEFINE q == fifo
    <2>1. /\ q \in Seq(Commands) /\ Window(q) /\ Ahead(q)
          /\ q = <<>> => flipping = -1 /\ scan # frame_index
          /\ q # <<>> => Drawing(q[Len(q)]) /\ q[Len(q)].buf = frame_index
      BY <1>2
    <2> HIDE DEF q
    <2>2. \/ x = Append(Append(q, f), w)
          \/ x = Append(Append(Append(q, w), f), w)
      BY <1>3 DEF q
    <2> QED
      BY <1>c, <2>1, <2>2, FlipStep
  <1>4. fifo' \in {r, s}
    <2>1. fifo \o (<<>> \o <<f, w>>) = r /\ fifo \o (<<w>> \o <<f, w>>) = s
      BY <1>c, <1>2, QueuedTogether
    <2> HIDE DEF r, s
    <2> QED
      BY <1>1, <2>1
  <1> HIDE DEF r, s
  <1>5. PICK x \in {r, s} : fifo' = x
    BY <1>4
  <1>6. x # <<>>
    BY <1>3
  <1>7. ~InFrame' /\ frame_index = 1 - frame_index'
    BY <1>1, BufferValues DEF InFrame
  <1> QED
    BY <1>1, <1>c, <1>3, <1>5, <1>6, <1>7, Queued

LEMMA QueueStep ==
  ASSUME QueueInv, frame_index \in Buffers, frame \in Offsets \cup {0}, [Next]_vars
  PROVE  QueueInv'
  <1>1. ASSUME Input \/ TickIdle \/ TickStatic \/ TickFails \/ TickStart \/ TickJoin \/ Shutdown
        PROVE  QueueInv'
    <2>1. UNCHANGED <<fifo, flipping, scan, frame_index>>
      BY <1>1 DEF Input, TickIdle, TickStatic, TickFails, TickStart, TickJoin, Shutdown, display
    <2>2. InFrame' = InFrame
      BY <1>1 DEF Input, TickIdle, TickStatic, TickFails, TickStart, TickJoin, Shutdown, InFrame
    <2> QED
      BY <2>1, <2>2, QueueKept
  <1>2. ASSUME NEW x \in Slices, SliceDone(x)
        PROVE  QueueInv'
    <2>1. UNCHANGED <<fifo, flipping, scan, frame_index>> /\ InFrame' = InFrame
      BY <1>2 DEF SliceDone, display, InFrame
    <2> QED
      BY <2>1, QueueKept
  <1>3. ASSUME Exited \/ UNCHANGED vars
        PROVE  QueueInv'
    <2>1. UNCHANGED <<fifo, flipping, scan, frame_index>> /\ InFrame' = InFrame
      BY <1>3 DEF Exited, vars, display, InFrame
    <2> QED
      BY <2>1, QueueKept
  <1> QED
    BY <1>1, <1>2, <1>3, QueueRender, QueueText, QueueFlip, QueueRsx, QueueVBlank
       DEF Next, MainLoop

-----------------------------------------------------------------------------
(* The page: types, and the picture against the cache.                     *)

LEMMA ViewTypes ==
  ASSUME NEW v \in Views
  PROVE  /\ ResetView(v) \in Views
         /\ \A p \in Palettes, n \in Iters : [v EXCEPT !.palette = p, !.iter = n] \in Views
         /\ \A a \in Areas, p \in Palettes : [v EXCEPT !.area = a, !.palette = p] \in Views
  BY ViewAssumption DEF Views, ResetView

(* What the hooks and the controls do to the page.                         *)
LEMMA StartKeeps ==
  ASSUME TypeOK, PictureInv, mandelbrot_start, frame = 0, pc = "input"
  PROVE  /\ view' \in Views /\ cached' \in Views \cup {NoView} /\ disabled' \in BOOLEAN
         /\ frame' \in Offsets \cup {0} /\ mapped' \subseteq Offsets
         /\ picture' \in [Slices -> Views \cup {Blank}] /\ writing' = {}
         /\ ~disabled' => cached' = NoView /\ frame' # 0
         /\ frame' \in mapped' \cup {0}
  <1>1. CASE Allocated
    BY <1>1, ViewTypes, OffsetAssumption
       DEF mandelbrot_start, Allocated, TypeOK, PictureInv, Zeroed
  <1>2. CASE AllocationFailed
    BY <1>2 DEF mandelbrot_start, AllocationFailed, TypeOK, PictureInv
  <1> QED
    BY <1>1, <1>2 DEF mandelbrot_start

LEMMA ReleaseKeeps ==
  ASSUME TypeOK, PictureInv, release_frame_buffer, pc # "join"
  PROVE  /\ view' \in Views /\ cached' = NoView /\ disabled' \in BOOLEAN
         /\ frame' = 0 /\ mapped' \subseteq Offsets
         /\ picture' \in [Slices -> Views \cup {Blank}] /\ writing' = {}
  BY DEF release_frame_buffer, TypeOK, PictureInv, Zeroed

LEMMA InputKeeps ==
  ASSUME TypeOK, PictureInv, mandelbrot_input, pc = "input"
  PROVE  /\ view' \in Views /\ cached' \in {cached, NoView}
         /\ UNCHANGED <<disabled, frame, mapped, picture, writing>>
  <1>1. view \in Views
    BY DEF TypeOK
  <1>2. CASE \E p \in Palettes, n \in Iters :
               view' = [view EXCEPT !.palette = p, !.iter = n] /\ UNCHANGED cached
    <2>1. PICK p \in Palettes, n \in Iters :
            view' = [view EXCEPT !.palette = p, !.iter = n] /\ UNCHANGED cached
      BY <1>2
    <2>2. [view EXCEPT !.palette = p, !.iter = n] \in Views
      BY <1>1, ViewTypes
    <2> QED
      BY <2>1, <2>2 DEF mandelbrot_input
  <1>3. CASE view' = ResetView(view) /\ cached' = NoView
    BY <1>1, <1>3, ViewTypes DEF mandelbrot_input
  <1> QED
    BY <1>2, <1>3 DEF mandelbrot_input

LEMMA HeldPadKeeps ==
  ASSUME TypeOK, HeldPad
  PROVE  view' \in Views
  <1>1. view \in Views
    BY DEF TypeOK
  <1>2. PICK a \in Areas, p \in Palettes : view' = [view EXCEPT !.area = a, !.palette = p]
    BY DEF HeldPad
  <1>3. [view EXCEPT !.area = a, !.palette = p] \in Views
    BY <1>1, ViewTypes
  <1> QED
    BY <1>2, <1>3

LEMMA PageStep ==
  ASSUME TypeOK, PictureInv, [Next]_vars
  PROVE  /\ PictureInv'
         /\ pc' \in {"input", "tick", "join", "render", "text", "drawn", "shutdown", "exited"}
         /\ running' \in BOOLEAN /\ page' \in {"mandelbrot", "other"}
         /\ view' \in Views /\ cached' \in Views \cup {NoView}
         /\ disabled' \in BOOLEAN
         /\ frame' \in Offsets \cup {0} /\ mapped' \subseteq Offsets
         /\ writing' \subseteq Slices
  <1> DEFINE Goal ==
         /\ PictureInv'
         /\ pc' \in {"input", "tick", "join", "render", "text", "drawn", "shutdown", "exited"}
         /\ running' \in BOOLEAN /\ page' \in {"mandelbrot", "other"}
         /\ view' \in Views /\ cached' \in Views \cup {NoView}
         /\ disabled' \in BOOLEAN
         /\ frame' \in Offsets \cup {0} /\ mapped' \subseteq Offsets
         /\ writing' \subseteq Slices
  <1>1. CASE Input
    <2>0. pc = "input" /\ pc' = "tick" /\ running' \in BOOLEAN /\ writing = {}
      BY <1>1 DEF Input, PictureInv
    <2>1. CASE UNCHANGED <<page, mandel>>
      BY <2>0, <2>1 DEF mandel, TypeOK, PictureInv
    <2>2. CASE page = "other" /\ page' = "mandelbrot" /\ mandelbrot_start
      <3>1. frame = 0
        BY <2>2 DEF PictureInv
      <3> QED
        BY <2>0, <2>2, <3>1, StartKeeps DEF PictureInv
    <2>3. CASE page = "mandelbrot" /\ page' = "other" /\ release_frame_buffer
      BY <2>0, <2>3, ReleaseKeeps DEF PictureInv
    <2>4. CASE page = "mandelbrot" /\ mandelbrot_input /\ UNCHANGED page
      <3>1. /\ view' \in Views /\ cached' \in {cached, NoView}
            /\ UNCHANGED <<disabled, frame, mapped, picture, writing>>
        BY <2>0, <2>4, InputKeeps
      <3> QED
        BY <2>0, <2>4, <3>1 DEF TypeOK, PictureInv, PictureOf
    <2> QED
      BY <1>1, <2>1, <2>2, <2>3, <2>4 DEF Input
  <1>2. CASE TickIdle
    BY <1>2 DEF TickIdle, mandel, TypeOK, PictureInv, PictureOf
  <1>3. CASE TickStatic
    <2>1. view' \in Views
      BY <1>3, HeldPadKeeps DEF TickStatic
    <2> QED
      BY <1>3, <2>1 DEF TickStatic, view_changed, TypeOK, PictureInv, PictureOf
  <1>4. CASE TickFails
    <2>1. view' \in Views
      BY <1>4, HeldPadKeeps DEF TickFails
    <2> QED
      BY <1>4, <2>1 DEF TickFails, TypeOK, PictureInv
  <1>5. CASE TickStart
    <2>1. view' \in Views
      BY <1>5, HeldPadKeeps DEF TickStart
    <2> QED
      BY <1>5, <2>1 DEF TickStart, TypeOK, PictureInv
  <1>6. CASE TickJoin
    <2>1. page = "mandelbrot" /\ ~disabled /\ \A s \in Slices : picture[s] = view
      BY <1>6 DEF TickJoin, PictureInv
    <2>2. picture = PictureOf(view)
      BY <2>1 DEF PictureInv, PictureOf
    <2> QED
      BY <1>6, <2>1, <2>2 DEF TickJoin, TypeOK, PictureInv
  <1>7. CASE Render
    BY <1>7 DEF Render, mandel, TypeOK, PictureInv, PictureOf
  <1>8. CASE DrawText
    BY <1>8 DEF DrawText, mandel, TypeOK, PictureInv, PictureOf
  <1>9. CASE Flip
    BY <1>9 DEF Flip, mandel, TypeOK, PictureInv, PictureOf
  <1>10. CASE Shutdown
    <2>1. pc = "shutdown" /\ pc' = "exited" /\ running' = running /\ page' = page
      BY <1>10 DEF Shutdown
    <2>2. release_frame_buffer
      BY <1>10 DEF Shutdown
    <2>3. /\ view' \in Views /\ cached' = NoView /\ disabled' \in BOOLEAN
          /\ frame' = 0 /\ mapped' \subseteq Offsets
          /\ picture' \in [Slices -> Views \cup {Blank}] /\ writing' = {}
      BY <2>1, <2>2, ReleaseKeeps
    <2> QED
      BY <2>1, <2>3 DEF TypeOK, PictureInv
  <1>11. ASSUME NEW s \in Slices, SliceDone(s)
         PROVE  Goal
    <2>1. pc = "join" /\ s \in writing
      BY <1>11 DEF SliceDone, PictureInv
    <2>2. /\ picture' = [picture EXCEPT ![s] = view] /\ writing' = writing \ {s}
          /\ UNCHANGED <<pc, running, page, view, cached, disabled, frame, mapped>>
      BY <1>11 DEF SliceDone
    <2>3. picture' \in [Slices -> Views \cup {Blank}]
      BY <2>2 DEF PictureInv, TypeOK
    <2>4. \A x \in Slices \ writing' : picture'[x] = view
      BY <2>1, <2>2 DEF PictureInv
    <2> QED
      BY <2>1, <2>2, <2>3, <2>4 DEF PictureInv, TypeOK
  <1>12. CASE Rsx \/ Vertical \/ Exited \/ UNCHANGED vars
    <2>1. UNCHANGED <<pc, running, page, mandel>>
      BY <1>12 DEF Rsx, Vertical, Exited, vars
    <2> QED
      BY <2>1 DEF mandel, TypeOK, PictureInv, PictureOf
  <1> QED
    BY <1>1, <1>2, <1>3, <1>4, <1>5, <1>6, <1>7, <1>8, <1>9, <1>10, <1>11, <1>12
       DEF Next, MainLoop

-----------------------------------------------------------------------------
(* Blits that are outstanding.                                             *)

LEMMA BlitStep ==
  ASSUME TypeOK, QueueInv, PictureInv, BlitInv, [Next]_vars
  PROVE  BlitInv'
  <1> SUFFICES ASSUME sync' = "after", NEW n \in DOMAIN fifo', fifo'[n].op = "blit"
               PROVE  /\ InFrame' /\ Blits' /\ fifo'[n].src = frame'
                      /\ pc' = "drawn" => \E m \in DOMAIN fifo' : m > n /\ fifo'[m].op = "text"
    BY DEF BlitInv
  <1>s. sync = "after"
    BY DEF Next, MainLoop, Input, TickIdle, TickStatic, TickFails, TickStart, TickJoin, Render,
           DrawText, Flip, flip_frame, Shutdown, SliceDone, Rsx, RsxStep, Vertical, VBlank,
           Exited, vars, display
  <1>q. fifo \in Seq(Commands) /\ Len(fifo) \in Nat /\ DOMAIN fifo = 1 .. Len(fifo)
    BY DEF QueueInv
  <1>b. \A x \in DOMAIN fifo : fifo[x].op = "blit" => InFrame /\ Blits /\ fifo[x].src = frame
    BY <1>s DEF BlitInv
  (* The queue is as it was, outside the frame: it holds no blit.          *)
  <1>1. ASSUME ~InFrame, fifo' = fifo
        PROVE  FALSE
    BY <1>1, <1>b
  <1>2. ASSUME Input \/ TickIdle \/ TickStatic \/ TickFails \/ TickStart \/ TickJoin \/ Shutdown
        PROVE  FALSE
    <2>1. fifo' = fifo /\ ~InFrame
      BY <1>2 DEF Input, TickIdle, TickStatic, TickFails, TickStart, TickJoin, Shutdown,
                  display, InFrame
    <2> QED
      BY <1>1, <2>1
  <1>3. ASSUME NEW s \in Slices, SliceDone(s)
        PROVE  FALSE
    <2>1. fifo' = fifo /\ ~InFrame
      BY <1>3 DEF SliceDone, PictureInv, display, InFrame
    <2> QED
      BY <1>1, <2>1
  <1>4. ASSUME Render
        PROVE  n = Len(fifo) + 2 /\ Blits /\ fifo'[n] = Blit(frame)
    <2>1. /\ fifo' = fifo \o (<<Clear>> \o (IF Blits THEN <<Blit(frame)>> ELSE <<>>))
          /\ ~InFrame
      BY <1>4 DEF Render, Queue, InFrame
    <2> DEFINE p == Append(fifo, Clear)
               r == Append(p, Blit(frame))
    <2>c. Clear \in Commands /\ Blit(frame) \in Commands /\ Clear.op = "clear"
      BY DrawingCommands DEF TypeOK, Clear, Cmd
    <2>2. /\ p \in Seq(Commands) /\ Len(p) = Len(fifo) + 1
          /\ \A x \in 1 .. Len(fifo) : p[x] = fifo[x]
          /\ p[Len(fifo) + 1] = Clear
      BY <1>q, <2>c, AppendIs
    <2>3. /\ fifo \o (<<Clear>> \o <<>>) = p
          /\ fifo \o (<<Clear>> \o <<Blit(frame)>>) = r
      BY <1>q, <2>c, QueuedTogether
    <2> HIDE DEF p
    <2>4. /\ r \in Seq(Commands) /\ Len(r) = Len(p) + 1
          /\ \A x \in 1 .. Len(p) : r[x] = p[x]
          /\ r[Len(p) + 1] = Blit(frame)
      BY <2>2, <2>c, AppendIs
    <2> HIDE DEF r
    <2>5. fifo' = IF Blits THEN r ELSE p
      BY <2>1, <2>3
    <2>6. ASSUME NEW x \in 1 .. Len(fifo) + 1
          PROVE  p[x].op # "blit"
      <3>1. \A y \in 1 .. Len(fifo) : fifo[y].op # "blit"
        BY <1>b, <1>q, <2>1
      <3>2. x \in 1 .. Len(fifo) \/ x = Len(fifo) + 1
        BY <1>q
      <3> QED
        BY <2>2, <2>c, <3>1, <3>2
    <2>7. CASE ~Blits
      <3>1. fifo' = p /\ DOMAIN p = 1 .. Len(fifo) + 1
        BY <2>2, <2>5, <2>7
      <3> QED
        BY <2>6, <3>1
    <2>8. CASE Blits
      <3>1. fifo' = r /\ DOMAIN r = 1 .. Len(fifo) + 2
        BY <1>q, <2>2, <2>4, <2>5, <2>8
      <3>2. \A x \in 1 .. Len(fifo) + 1 : r[x] = p[x]
        BY <2>2, <2>4
      <3>3. n \notin 1 .. Len(fifo) + 1
        BY <2>6, <3>1, <3>2
      <3>4. n = Len(fifo) + 2
        BY <1>q, <3>1, <3>3
      <3>5. Len(p) + 1 = Len(fifo) + 2
        BY <1>q, <2>2
      <3> QED
        BY <2>4, <2>8, <3>1, <3>4, <3>5
    <2> QED
      BY <2>7, <2>8
  <1>5. CASE Render
    <2>1. /\ pc' = "text" /\ UNCHANGED <<page, disabled, frame>> /\ Blit(frame).src = frame
      BY <1>5 DEF Render, mandel, Blit, Cmd
    <2> QED
      BY <1>4, <1>5, <2>1 DEF InFrame, Blits
  <1>6. CASE DrawText
    <2>1. /\ pc = "text" /\ pc' = "drawn" /\ UNCHANGED <<page, disabled, frame>>
          /\ fifo' = fifo \o <<Text>> /\ Text.op = "text"
      BY <1>6 DEF DrawText, Queue, mandel, Text, Cmd
    <2>2. Text \in Commands
      BY DrawingCommands DEF TypeOK
    <2>3. fifo' = Append(fifo, Text)
      BY <1>q, <2>1, <2>2, QueuedTogether
    <2>4. /\ DOMAIN fifo' = 1 .. Len(fifo) + 1
          /\ \A x \in 1 .. Len(fifo) : fifo'[x] = fifo[x]
          /\ fifo'[Len(fifo) + 1] = Text
      BY <1>q, <2>2, <2>3, AppendIs
    <2>5. n \in 1 .. Len(fifo) /\ fifo'[n] = fifo[n]
      BY <1>q, <2>1, <2>4
    <2>6. Len(fifo) + 1 \in DOMAIN fifo' /\ Len(fifo) + 1 > n
      BY <1>q, <2>4, <2>5
    <2>7. Blits /\ fifo[n].src = frame
      BY <1>b, <1>q, <2>5
    <2> QED
      BY <2>1, <2>4, <2>5, <2>6, <2>7 DEF InFrame, Blits
  <1>7. ASSUME Flip
        PROVE  FALSE
    <2>1. \A x \in DOMAIN fifo : fifo[x].op # "blit"
      <3>1. pc = "drawn" /\ \A x \in DOMAIN fifo : fifo[x].op # "text"
        BY <1>7, <1>s DEF Flip, TextDrawn
      <3> QED
        BY <1>s, <3>1 DEF BlitInv
    <2> DEFINE f == Cmd("flip", frame_index, 0)
               w == WaitFlip
               cmds == IF first_flip THEN <<f, w>> ELSE <<w, f, w>>
    <2>2. fifo' = fifo \o ((IF first_flip THEN <<>> ELSE <<w>>) \o <<f, w>>)
      BY <1>7 DEF Flip, flip_frame, Queue, FlipCommands
    <2>c. w \in Commands /\ f \in Commands /\ w.op = "waitflip" /\ f.op = "flip"
      BY DrawingCommands DEF TypeOK
    <2> HIDE DEF f, w
    <2> DEFINE a == Append(fifo, f)
               d == Append(fifo, w)
               e == Append(d, f)
    <2>3. /\ fifo \o (<<>> \o <<f, w>>) = Append(a, w)
          /\ fifo \o (<<w>> \o <<f, w>>) = Append(e, w)
      BY <1>q, <2>c, QueuedTogether
    <2>4. ASSUME NEW q \in Seq(Commands), NEW c \in Commands, c.op # "blit",
                 \A x \in DOMAIN q : q[x].op # "blit"
          PROVE  /\ Append(q, c) \in Seq(Commands)
                 /\ \A x \in DOMAIN Append(q, c) : Append(q, c)[x].op # "blit"
      BY <2>4, AppendIs
    <2>5. a \in Seq(Commands) /\ \A x \in DOMAIN a : a[x].op # "blit"
      BY <1>q, <2>1, <2>4, <2>c
    <2>6. d \in Seq(Commands) /\ \A x \in DOMAIN d : d[x].op # "blit"
      BY <1>q, <2>1, <2>4, <2>c
    <2> HIDE DEF a, d
    <2>7. e \in Seq(Commands) /\ \A x \in DOMAIN e : e[x].op # "blit"
      BY <2>4, <2>6, <2>c
    <2> HIDE DEF e
    <2>8. /\ \A x \in DOMAIN Append(a, w) : Append(a, w)[x].op # "blit"
          /\ \A x \in DOMAIN Append(e, w) : Append(e, w)[x].op # "blit"
      BY <2>4, <2>5, <2>7, <2>c
    <2>9. fifo' = Append(a, w) \/ fifo' = Append(e, w)
      BY <2>2, <2>3
    <2> QED
      BY <2>8, <2>9
  (* The head leaves; a text behind the blit is still behind it.           *)
  <1>8. CASE Rsx
    <2>1. /\ fifo # <<>> /\ fifo' = Tail(fifo)
          /\ UNCHANGED <<pc, page, disabled, frame>>
      BY <1>8 DEF Rsx, RsxStep, mandel
    <2>2. /\ DOMAIN fifo' = 1 .. Len(fifo) - 1
          /\ \A x \in 1 .. Len(fifo) - 1 : fifo'[x] = fifo[x + 1]
      BY <1>q, <2>1, TailIs
    <2>3. n + 1 \in DOMAIN fifo /\ fifo[n + 1] = fifo'[n]
      BY <1>q, <2>2
    <2>4. /\ InFrame /\ Blits /\ fifo[n + 1].src = frame
          /\ pc = "drawn" => \E m \in DOMAIN fifo : m > n + 1 /\ fifo[m].op = "text"
      BY <1>s, <2>3 DEF BlitInv
    <2>5. ASSUME NEW m \in DOMAIN fifo, m > n + 1, fifo[m].op = "text"
          PROVE  m - 1 \in DOMAIN fifo' /\ m - 1 > n /\ fifo'[m - 1].op = "text"
      <3>1. m - 1 \in 1 .. Len(fifo) - 1 /\ (m - 1) + 1 = m /\ m - 1 > n
        BY <1>q, <2>2, <2>5
      <3> QED
        BY <2>2, <2>5, <3>1
    <2> QED
      BY <2>1, <2>3, <2>4, <2>5 DEF InFrame, Blits
  <1>9. CASE Vertical \/ Exited \/ UNCHANGED vars
    <2>1. UNCHANGED <<fifo, pc, page, disabled, frame>>
      BY <1>9 DEF Vertical, VBlank, Exited, vars, display, mandel
    <2> QED
      BY <1>s, <2>1 DEF BlitInv, InFrame, Blits
  <1> QED
    BY <1>2, <1>3, <1>5, <1>6, <1>7, <1>8, <1>9 DEF Next, MainLoop

-----------------------------------------------------------------------------
(* The invariant.                                                          *)

LEMMA Initially == Init => IInv
  <1> SUFFICES ASSUME Init
               PROVE  IInv
    OBVIOUS
  <1>1. /\ pc = "input" /\ running = TRUE /\ page = "other" /\ view \in Views
        /\ cached = NoView /\ disabled = FALSE /\ frame = 0 /\ mapped = {}
        /\ picture = Zeroed /\ writing = {}
    BY DEF Init
  <1>2. /\ frame_index = 0 /\ first_flip = TRUE /\ fifo = <<>>
        /\ scan = -1 /\ flipping = -1 /\ sync \in {"before", "after"}
    BY DEF Init, DisplayInit
  <1>3. picture \in [Slices -> Views \cup {Blank}]
    BY <1>1 DEF Zeroed
  <1>4. TypeOK
    <2>1. /\ frame_index \in Buffers /\ first_flip \in BOOLEAN
          /\ scan \in Buffers \cup {-1} /\ flipping \in Buffers \cup {-1}
      BY <1>2, BufferValues
    <2>2. DOMAIN fifo = {}
      BY <1>2
    <2>3. \A s \in Slices : picture[s] \in Views \cup {Blank}
      BY <1>3
    <2> QED
      BY <1>1, <2>1, <2>2, <2>3 DEF TypeOK
  <1>5. QueueInv
    BY <1>1, <1>2 DEF QueueInv, Window, Ahead, Ends, InFrame
  <1>6. PictureInv
    BY <1>1, <1>3 DEF PictureInv
  <1>7. BlitInv
    BY <1>2 DEF BlitInv
  <1> QED
    BY <1>2, <1>4, <1>5, <1>6, <1>7 DEF IInv

LEMMA DisplayTypes ==
  ASSUME TypeOK, sync \in {"before", "after"}, QueueInv, [Next]_vars
  PROVE  /\ frame_index' \in Buffers /\ first_flip' \in BOOLEAN
         /\ scan' \in Buffers \cup {-1} /\ flipping' \in Buffers \cup {-1}
         /\ sync' \in {"before", "after"}
  <1>1. CASE UNCHANGED <<frame_index, first_flip, scan, flipping, sync>>
    BY <1>1 DEF TypeOK
  <1>2. CASE Flip
    <2>1. frame_index' = 1 - frame_index /\ frame_index \in {0, 1}
      BY <1>2, BufferValues DEF Flip, flip_frame, TypeOK
    <2>2. first_flip' = FALSE /\ UNCHANGED <<scan, flipping, sync>>
      BY <1>2 DEF Flip, flip_frame
    <2>3. frame_index' \in Buffers
      BY <2>1, BufferValues
    <2>4. scan' \in Buffers \cup {-1} /\ flipping' \in Buffers \cup {-1}
      BY <2>2 DEF TypeOK
    <2> QED
      BY <2>2, <2>3, <2>4
  <1>3. CASE Rsx
    <2>1. Head(fifo).buf \in Buffers
      <3>1. fifo # <<>> /\ fifo \in Seq(Commands)
        BY <1>3 DEF Rsx, RsxStep, QueueInv
      <3>2. Head(fifo) \in Commands
        BY <3>1, HeadTailProperties
      <3> QED
        BY <3>2 DEF Commands
    <2> QED
      BY <1>3, <2>1 DEF Rsx, RsxStep, TypeOK
  <1>4. CASE Vertical
    BY <1>4 DEF Vertical, VBlank, TypeOK
  <1> QED
    BY <1>1, <1>2, <1>3, <1>4
       DEF Next, MainLoop, Input, TickIdle, TickStatic, TickFails, TickStart, TickJoin, Render,
           DrawText, Shutdown, SliceDone, Exited, vars, display

LEMMA Inductive ==
  ASSUME IInv, [Next]_vars
  PROVE  IInv'
  <1>1. TypeOK /\ sync \in {"before", "after"} /\ QueueInv /\ PictureInv /\ BlitInv
    BY DEF IInv
  <1>2. PictureInv'
    BY <1>1, PageStep
  <1>3. QueueInv'
    BY <1>1, QueueStep DEF TypeOK
  <1>4. BlitInv'
    BY <1>1, BlitStep
  <1>5. /\ frame_index' \in Buffers /\ first_flip' \in BOOLEAN
        /\ scan' \in Buffers \cup {-1} /\ flipping' \in Buffers \cup {-1}
        /\ sync' \in {"before", "after"}
    BY <1>1, DisplayTypes
  <1>6. \A n \in DOMAIN fifo' : /\ fifo'[n].op \in DrawingOps \cup {"flip", "waitflip"}
                               /\ fifo'[n].buf \in Buffers
    <2>1. ASSUME NEW n \in DOMAIN fifo'
          PROVE  fifo'[n] \in Commands
      BY <1>3 DEF QueueInv
    <2> QED
      BY <2>1 DEF Commands
  <1>7. \A s \in Slices : picture'[s] \in Views \cup {Blank}
    BY <1>2 DEF PictureInv
  <1>8. TypeOK'
    BY <1>1, <1>5, <1>6, <1>7, PageStep DEF TypeOK
  <1> QED
    BY <1>2, <1>3, <1>4, <1>5, <1>8 DEF IInv

LEMMA Invariance == Spec => []IInv
  <1>1. IInv /\ UNCHANGED vars => IInv'
    BY Inductive
  <1>2. IInv /\ Next => IInv'
    BY Inductive
  <1> QED
    BY Initially, <1>1, <1>2, PTL DEF Spec

(* Every variable of the page and of the display stays in its type.        *)
THEOREM TypeCorrect == Spec => []TypeOK
  <1>1. IInv => TypeOK
    BY DEF IInv
  <1> QED
    BY <1>1, Invariance, PTL

(* Two colour buffers are enough whatever the distance between flip_frame  *)
(* and the RSX: the command it is about to perform never draws into the    *)
(* buffer on the screen or into the one that comes next.                   *)
THEOREM NoTornFrame == Spec => []OnlyWholeFramesShown
  <1>1. IInv => OnlyWholeFramesShown
    <2> SUFFICES ASSUME IInv, fifo # <<>>, Head(fifo).op \in DrawingOps
                 PROVE  Head(fifo).buf \notin {scan, flipping}
      BY DEF OnlyWholeFramesShown
    <2>1. fifo \in Seq(Commands) /\ Ahead(fifo)
      BY DEF IInv, QueueInv
    <2>2. Head(fifo) = fifo[1] /\ fifo[1] \in Commands
      BY <2>1, TailIs
    <2>3. flipping = -1 /\ scan # fifo[1].buf
      BY <2>1, <2>2 DEF Ahead, Drawing
    <2> QED
      BY <2>2, <2>3, CommandValues
  <1> QED
    BY <1>1, Invariance, PTL

(* mandelbrot_tick joins its group before it returns, so the input and the *)
(* stop hook that release the frame buffer never run under the SPEs.       *)
THEOREM BufferOwnership == Spec => []BufferOwned
  <1>1. IInv => BufferOwned
    <2> SUFFICES ASSUME IInv
                 PROVE  BufferOwned
      OBVIOUS
    <2>1. /\ frame # 0 => page = "mandelbrot"
          /\ frame \in mapped \cup {0}
      BY DEF IInv, PictureInv
    <2>2. writing # {} => pc = "join" /\ frame # 0
      BY DEF IInv, PictureInv
    <2> QED
      BY <2>1, <2>2 DEF BufferOwned
  <1> QED
    BY <1>1, Invariance, PTL

(* If the library waits for the drawing of its own frame, the RSX blits    *)
(* nothing but the picture of the current view, however late it is.        *)
THEOREM BlitsReadCurrentPicture == Spec => []BlitReadsCurrentPicture
  <1>1. IInv => BlitReadsCurrentPicture
    <2> SUFFICES ASSUME IInv, sync = "after", NEW n \in DOMAIN fifo, fifo[n].op = "blit"
                 PROVE  fifo[n].src = frame /\ frame \in mapped /\ picture = PictureOf(view)
      BY DEF BlitReadsCurrentPicture
    <2>1. InFrame /\ Blits /\ fifo[n].src = frame
      BY DEF IInv, BlitInv
    <2>2. frame \in mapped
      BY <2>1 DEF IInv, PictureInv, Blits
    <2>3. cached = view /\ picture = PictureOf(cached)
      <3>1. pc \in {"render", "text", "drawn"} /\ pc # "join" /\ page = "mandelbrot" /\ ~disabled
        BY <2>1 DEF InFrame, Blits
      <3>2. view # NoView
        BY ViewAssumption DEF IInv, TypeOK
      <3> QED
        BY <3>1, <3>2 DEF IInv, PictureInv
    <2> QED
      BY <2>1, <2>2, <2>3
  <1> QED
    BY <1>1, Invariance, PTL

-----------------------------------------------------------------------------
(* The frames the viewer sees.                                             *)

(* The buffer of the next command, b if the main thread has yet to queue   *)
(* it.                                                                     *)
FirstBuffer(q, b) == IF q = <<>> THEN b ELSE q[1].buf

(* The colour buffers hold pictures; the one that waits for the vertical   *)
(* blank is the other one, and the first to be shown is buffer 0.          *)
ScreenInv ==
  /\ color \in [Buffers -> Views \cup {Blank}]
  /\ flipping # -1 => scan # flipping
  /\ scan = -1 /\ flipping # -1 => flipping = 0
  /\ scan = -1 /\ flipping = -1 => FirstBuffer(fifo, frame_index) = 0

LEMMA FlipsFinite ==
  ASSUME NEW q \in Seq(Commands)
  PROVE  /\ IsFiniteSet(Flips(q)) /\ Cardinality(Flips(q)) \in Nat
         /\ Flips(q) \subseteq 1 .. Len(q)
  <1>1. Len(q) \in Nat /\ Flips(q) \in SUBSET (1 .. Len(q))
    BY DEF Flips
  <1>2. IsFiniteSet(1 .. Len(q))
    BY <1>1, FS_Interval
  <1>3. IsFiniteSet(Flips(q))
    BY <1>1, <1>2, FS_Subset
  <1> QED
    BY <1>1, <1>3, FS_CardinalityType

(* Queueing a command: one flip more if it is one, the same head unless    *)
(* the queue was empty.                                                    *)
LEMMA FlipsAppend ==
  ASSUME NEW q \in Seq(Commands), NEW c \in Commands, NEW b
  PROVE  /\ Append(q, c) \in Seq(Commands)
         /\ Cardinality(Flips(Append(q, c))) =
              Cardinality(Flips(q)) + (IF c.op = "flip" THEN 1 ELSE 0)
         /\ FirstBuffer(Append(q, c), b) = FirstBuffer(q, c.buf)
  <1> DEFINE r == Append(q, c)
             k == Len(q)
  <1>1. /\ r \in Seq(Commands) /\ k \in Nat /\ Len(r) = k + 1
        /\ \A n \in 1 .. k : r[n] = q[n]
        /\ r[k + 1] = c /\ r # <<>>
    BY AppendIs
  <1>2. /\ IsFiniteSet(Flips(q)) /\ Flips(q) \subseteq 1 .. k /\ Cardinality(Flips(q)) \in Nat
    BY FlipsFinite
  <1>e. (q = <<>>) <=> (k = 0)
    OBVIOUS
  <1>d. DOMAIN q = 1 .. k
    OBVIOUS
  <1> HIDE DEF r, k
  <1>3. DOMAIN r = 1 .. k + 1
    BY <1>1
  <1>4. Flips(r) = Flips(q) \cup (IF c.op = "flip" THEN {k + 1} ELSE {})
    <2>1. ASSUME NEW n \in 1 .. k + 1
          PROVE  r[n].op = "flip" <=> \/ n \in 1 .. k /\ q[n].op = "flip"
                                      \/ n = k + 1 /\ c.op = "flip"
      <3>1. n \in 1 .. k \/ n = k + 1
        BY <1>1
      <3>2. k + 1 \notin 1 .. k
        BY <1>1
      <3> QED
        BY <1>1, <3>1, <3>2
    <2>2. 1 .. k \subseteq 1 .. k + 1 /\ k + 1 \in 1 .. k + 1
      BY <1>1
    <2> QED
      BY <1>d, <1>3, <2>1, <2>2 DEF Flips
  <1>5. k + 1 \notin Flips(q)
    BY <1>1, <1>2
  <1>6. Cardinality(Flips(r)) = Cardinality(Flips(q)) + (IF c.op = "flip" THEN 1 ELSE 0)
    <2>1. CASE c.op = "flip"
      <3>1. Cardinality(Flips(q) \cup {k + 1}) = Cardinality(Flips(q)) + 1
        BY <1>2, <1>5, FS_AddElement
      <3> QED
        BY <1>4, <2>1, <3>1
    <2>2. CASE c.op # "flip"
      <3>1. Flips(r) = Flips(q)
        BY <1>4, <2>2
      <3> QED
        BY <1>2, <2>2, <3>1
    <2> QED
      BY <2>1, <2>2
  <1>7. FirstBuffer(r, b) = FirstBuffer(q, c.buf)
    <2>1. CASE k = 0
      BY <1>1, <1>e, <2>1 DEF FirstBuffer
    <2>2. CASE k # 0
      <3>1. 1 \in 1 .. k
        BY <1>1, <2>2
      <3> QED
        BY <1>1, <1>e, <2>2, <3>1 DEF FirstBuffer
    <2> QED
      BY <2>1, <2>2
  <1> QED
    BY <1>1, <1>6, <1>7 DEF r

(* Performing the head: one flip less if it is one.                        *)
LEMMA FlipsTail ==
  ASSUME NEW q \in Seq(Commands), q # <<>>
  PROVE  Cardinality(Flips(q)) =
           Cardinality(Flips(Tail(q))) + (IF q[1].op = "flip" THEN 1 ELSE 0)
  <1> DEFINE r == Tail(q)
             k == Len(q)
             up == [n \in Flips(r) |-> n + 1]
  <1>1. /\ r \in Seq(Commands) /\ k \in Nat /\ k >= 1 /\ Len(r) = k - 1
        /\ \A n \in 1 .. k - 1 : r[n] = q[n + 1]
    BY TailIs
  <1>d. DOMAIN q = 1 .. k
    OBVIOUS
  <1>2. /\ IsFiniteSet(Flips(q)) /\ Cardinality(Flips(q)) \in Nat
    BY FlipsFinite
  <1> HIDE DEF r, k
  <1>3. /\ IsFiniteSet(Flips(r)) /\ Cardinality(Flips(r)) \in Nat
        /\ DOMAIN r = 1 .. k - 1
    BY <1>1, FlipsFinite
  <1>4. ASSUME NEW n \in Flips(r)
        PROVE  n \in Nat /\ n + 1 \in Flips(q) \ {1}
    <2>1. n \in 1 .. k - 1 /\ r[n].op = "flip"
      BY <1>3 DEF Flips
    <2>2. n \in Nat /\ n + 1 \in 1 .. k /\ n + 1 # 1 /\ q[n + 1] = r[n]
      BY <1>1, <2>1
    <2> QED
      BY <1>d, <2>1, <2>2 DEF Flips
  <1>5. ASSUME NEW m \in Flips(q) \ {1}
        PROVE  m - 1 \in Flips(r) /\ (m - 1) + 1 = m
    <2>1. m \in 1 .. k /\ m # 1 /\ q[m].op = "flip"
      BY <1>d DEF Flips
    <2>2. m - 1 \in 1 .. k - 1 /\ (m - 1) + 1 = m
      BY <1>1, <2>1
    <2> QED
      BY <1>1, <1>3, <2>1, <2>2 DEF Flips
  <1>6. up \in Bijection(Flips(r), Flips(q) \ {1})
    <2>1. up \in [Flips(r) -> Flips(q) \ {1}]
      BY <1>4
    <2>2. \A a, b \in Flips(r) : up[a] = up[b] => a = b
      BY <1>4
    <2>3. \A m \in Flips(q) \ {1} : \E n \in Flips(r) : up[n] = m
      BY <1>5
    <2> QED
      BY <2>1, <2>2, <2>3 DEF Bijection, Injection, Surjection, IsInjective
  <1>7. Cardinality(Flips(q) \ {1}) = Cardinality(Flips(r))
    BY <1>3, <1>6, FS_Bijection DEF ExistsBijection
  <1>8. 1 \in Flips(q) <=> q[1].op = "flip"
    <2>1. 1 \in 1 .. k
      BY <1>1
    <2> QED
      BY <1>d, <2>1 DEF Flips
  <1>9. Cardinality(Flips(q) \ {1}) =
          IF 1 \in Flips(q) THEN Cardinality(Flips(q)) - 1 ELSE Cardinality(Flips(q))
    BY <1>2, FS_RemoveElement
  <1> QED
    BY <1>2, <1>3, <1>7, <1>8, <1>9 DEF r

(* The drawing of a frame asks for nothing; its flip asks for the frame.   *)
LEMMA DrawingAsksNothing ==
  ASSUME QueueInv, frame_index \in Buffers, frame \in Offsets \cup {0}, Render \/ DrawText
  PROVE  /\ Cardinality(Flips(fifo')) = Cardinality(Flips(fifo))
         /\ FirstBuffer(fifo', frame_index') = FirstBuffer(fifo, frame_index)
  <1>q. fifo \in Seq(Commands)
    BY DEF QueueInv
  <1>c. \A c \in {Clear, Text, Blit(frame)} :
          c \in Commands /\ c.op # "flip" /\ c.buf = frame_index
    BY DrawingCommands DEF Drawing, DrawingOps
  <1>n. Cardinality(Flips(fifo)) \in Nat
    BY <1>q, FlipsFinite
  <1>1. ASSUME NEW q \in Seq(Commands), NEW c \in {Clear, Text, Blit(frame)}
        PROVE  /\ Append(q, c) \in Seq(Commands)
               /\ Cardinality(Flips(q)) \in Nat
               /\ Cardinality(Flips(Append(q, c))) = Cardinality(Flips(q))
               /\ \A b : FirstBuffer(Append(q, c), b) = FirstBuffer(q, frame_index)
    <2>1. Cardinality(Flips(q)) \in Nat
      BY FlipsFinite
    <2>2. ASSUME NEW b
          PROVE  FirstBuffer(Append(q, c), b) = FirstBuffer(q, frame_index)
      BY <1>c, FlipsAppend
    <2> QED
      BY <1>c, <2>1, <2>2, FlipsAppend
  <1> DEFINE p == Append(fifo, Clear)
             r == Append(p, Blit(frame))
             t == Append(fifo, Text)
  <1>2. p \in Seq(Commands)
    BY <1>q, <1>1
  <1>3. fifo' \in {p, r, t}
    <2>1. /\ fifo \o (<<Clear>> \o <<>>) = p
          /\ fifo \o (<<Clear>> \o <<Blit(frame)>>) = r
          /\ fifo \o <<Text>> = t
      BY <1>q, <1>c, QueuedTogether
    <2>2. \/ fifo' = fifo \o (<<Clear>> \o (IF Blits THEN <<Blit(frame)>> ELSE <<>>))
          \/ fifo' = fifo \o <<Text>>
      BY DEF Render, DrawText, Queue
    <2> HIDE DEF p, r, t, Blits
    <2> QED
      BY <2>1, <2>2
  <1>4. frame_index' = frame_index
    BY DEF Render, DrawText
  <1>5. /\ Cardinality(Flips(p)) = Cardinality(Flips(fifo))
        /\ \A b : FirstBuffer(p, b) = FirstBuffer(fifo, frame_index)
    BY <1>q, <1>1
  <1>6. /\ Cardinality(Flips(t)) = Cardinality(Flips(fifo))
        /\ \A b : FirstBuffer(t, b) = FirstBuffer(fifo, frame_index)
    BY <1>q, <1>1
  <1> HIDE DEF p, t
  <1>7. /\ Cardinality(Flips(r)) = Cardinality(Flips(p))
        /\ \A b : FirstBuffer(r, b) = FirstBuffer(p, frame_index)
    BY <1>1, <1>2
  <1> HIDE DEF r
  <1> QED
    BY <1>3, <1>4, <1>5, <1>6, <1>7

LEMMA FlipAsksOne ==
  ASSUME QueueInv, frame_index \in Buffers, frame \in Offsets \cup {0}, Flip
  PROVE  /\ Cardinality(Flips(fifo')) = Cardinality(Flips(fifo)) + 1
         /\ FirstBuffer(fifo', frame_index') = FirstBuffer(fifo, frame_index)
  <1> DEFINE f == Cmd("flip", frame_index, 0)
             w == WaitFlip
  <1>q. fifo \in Seq(Commands)
    BY DEF QueueInv
  <1>c. /\ w \in Commands /\ w.op # "flip" /\ w.buf = frame_index
        /\ f \in Commands /\ f.op = "flip" /\ f.buf = frame_index
    BY DrawingCommands
  <1>1. fifo' = fifo \o ((IF first_flip THEN <<>> ELSE <<w>>) \o <<f, w>>)
    BY DEF Flip, flip_frame, Queue, FlipCommands
  <1> HIDE DEF f, w
  <1> DEFINE a == Append(fifo, f)
             r == Append(a, w)
             d == Append(fifo, w)
             e == Append(d, f)
             s == Append(e, w)
  <1>2. fifo' \in {r, s}
    <2>1. fifo \o (<<>> \o <<f, w>>) = r /\ fifo \o (<<w>> \o <<f, w>>) = s
      BY <1>q, <1>c, QueuedTogether
    <2> HIDE DEF r, s
    <2> QED
      BY <1>1, <2>1
  <1>n. Cardinality(Flips(fifo)) \in Nat
    BY <1>q, FlipsFinite
  <1>3. ASSUME NEW q \in Seq(Commands)
        PROVE  /\ Append(q, w) \in Seq(Commands) /\ Append(q, f) \in Seq(Commands)
               /\ Cardinality(Flips(q)) \in Nat
               /\ Cardinality(Flips(Append(q, w))) = Cardinality(Flips(q))
               /\ Cardinality(Flips(Append(q, f))) = Cardinality(Flips(q)) + 1
               /\ \A b : FirstBuffer(Append(q, w), b) = FirstBuffer(q, frame_index)
               /\ \A b : FirstBuffer(Append(q, f), b) = FirstBuffer(q, frame_index)
    <2>1. Cardinality(Flips(q)) \in Nat
      BY FlipsFinite
    <2>2. ASSUME NEW b
          PROVE  /\ FirstBuffer(Append(q, w), b) = FirstBuffer(q, frame_index)
                 /\ FirstBuffer(Append(q, f), b) = FirstBuffer(q, frame_index)
      BY <1>c, FlipsAppend
    <2>3. /\ Append(q, w) \in Seq(Commands)
          /\ Cardinality(Flips(Append(q, w))) = Cardinality(Flips(q))
      BY <1>c, <2>1, FlipsAppend
    <2>4. /\ Append(q, f) \in Seq(Commands)
          /\ Cardinality(Flips(Append(q, f))) = Cardinality(Flips(q)) + 1
      BY <1>c, FlipsAppend
    <2> QED
      BY <2>1, <2>2, <2>3, <2>4
  <1>4. /\ a \in Seq(Commands) /\ Cardinality(Flips(a)) = Cardinality(Flips(fifo)) + 1
        /\ \A b : FirstBuffer(a, b) = FirstBuffer(fifo, frame_index)
    BY <1>q, <1>3
  <1>5. /\ d \in Seq(Commands) /\ Cardinality(Flips(d)) = Cardinality(Flips(fifo))
        /\ \A b : FirstBuffer(d, b) = FirstBuffer(fifo, frame_index)
    BY <1>q, <1>3
  <1> HIDE DEF a, d
  <1>6. /\ e \in Seq(Commands) /\ Cardinality(Flips(e)) = Cardinality(Flips(d)) + 1
        /\ \A b : FirstBuffer(e, b) = FirstBuffer(d, frame_index)
    BY <1>3, <1>5
  <1>7. /\ Cardinality(Flips(r)) = Cardinality(Flips(a))
        /\ \A b : FirstBuffer(r, b) = FirstBuffer(a, frame_index)
    BY <1>3, <1>4
  <1> HIDE DEF e, r
  <1>8. /\ Cardinality(Flips(s)) = Cardinality(Flips(e))
        /\ \A b : FirstBuffer(s, b) = FirstBuffer(e, frame_index)
    BY <1>3, <1>6
  <1> HIDE DEF s
  <1> QED
    BY <1>2, <1>4, <1>5, <1>6, <1>7, <1>8

(* What the RSX does to the counts, the screen and the buffers.            *)
LEMMA RsxKeepsTheScreen ==
  ASSUME TypeOK, QueueInv, ScreenInv, Rsx
  PROVE  /\ FramesWaiting' = FramesWaiting /\ OnScreen' = OnScreen
         /\ ScreenInv'
  <1> DEFINE c == fifo[1]
  <1>1. /\ fifo \in Seq(Commands) /\ Window(fifo) /\ Ahead(fifo) /\ Ends(fifo)
        /\ fifo # <<>> /\ fifo' = Tail(fifo) /\ Head(fifo) = c /\ c \in Commands
        /\ frame_index' = frame_index /\ scan' = scan
    <2>1. fifo \in Seq(Commands) /\ Window(fifo) /\ Ahead(fifo) /\ Ends(fifo)
      BY DEF QueueInv
    <2>2. fifo # <<>> /\ fifo' = Tail(fifo) /\ frame_index' = frame_index /\ scan' = scan
      BY DEF Rsx, RsxStep
    <2> QED
      BY <2>1, <2>2, TailIs
  <1>c. c.buf \in {0, 1} /\ (Drawing(c) \/ c.op = "flip" \/ c.op = "waitflip")
    BY <1>1, CommandValues
  <1>m. ASSUME NEW io
        PROVE  Memory(io) \in Views \cup {Blank}
    <2>1. CASE \E v \in Views : picture = PictureOf(v)
      BY <2>1 DEF Memory
    <2>2. CASE ~ \E v \in Views : picture = PictureOf(v)
      BY <2>2 DEF Memory
    <2> QED
      BY <2>1, <2>2
  <1>2. /\ c.op = "waitflip" => flipping = -1
        /\ flipping' = IF c.op = "flip" THEN c.buf ELSE flipping
        /\ color' = CASE c.op = "clear" -> [color EXCEPT ![c.buf] = Blank]
                      [] c.op = "blit"  -> [color EXCEPT ![c.buf] = Memory(c.src)]
                      [] OTHER          -> color
    BY <1>1 DEF Rsx, RsxStep
  <1>t. flipping \in {-1, 0, 1} /\ scan \in {-1, 0, 1} /\ frame_index \in {0, 1}
    BY BufferValues DEF TypeOK
  <1>3. Drawing(c) \/ c.op = "flip" => flipping = -1 /\ scan # c.buf
    BY <1>1 DEF Ahead
  <1>4. /\ color' \in [Buffers -> Views \cup {Blank}]
        /\ scan # -1 => color'[scan] = color[scan]
    <2>0. color \in [Buffers -> Views \cup {Blank}] /\ c.buf \in Buffers
      BY <1>c, BufferValues DEF ScreenInv
    <2>1. CASE c.op = "clear"
      <3>1. color' = [color EXCEPT ![c.buf] = Blank] /\ scan # c.buf
        BY <1>2, <1>3, <2>1 DEF Drawing, DrawingOps
      <3> QED
        BY <2>0, <3>1, <1>t, BufferValues
    <2>2. CASE c.op = "blit"
      <3>1. color' = [color EXCEPT ![c.buf] = Memory(c.src)] /\ scan # c.buf
        BY <1>2, <1>3, <2>2 DEF Drawing, DrawingOps
      <3>2. Memory(c.src) \in Views \cup {Blank}
        BY <1>m
      <3> HIDE DEF c
      <3> QED
        BY <2>0, <3>1, <3>2, <1>t, BufferValues
    <2>3. CASE c.op \notin {"clear", "blit"}
      BY <1>2, <2>0, <2>3
    <2> QED
      BY <2>1, <2>2, <2>3
  <1>5. OnScreen' = OnScreen
    BY <1>1, <1>4 DEF OnScreen
  <1>6. FramesWaiting' = FramesWaiting
    <2>1. /\ Cardinality(Flips(fifo)) =
               Cardinality(Flips(fifo')) + (IF c.op = "flip" THEN 1 ELSE 0)
          /\ Cardinality(Flips(fifo')) \in Nat
      <3>1. Tail(fifo) \in Seq(Commands)
        BY <1>1, TailIs
      <3> QED
        BY <1>1, <3>1, FlipsTail, FlipsFinite
    <2>2. CASE c.op = "flip"
      <3>1. flipping = -1 /\ flipping' # -1
        BY <1>c, <1>2, <1>3, <2>2
      <3> QED
        BY <2>1, <2>2, <3>1 DEF FramesWaiting
    <2>3. CASE c.op # "flip"
      <3>1. flipping' = flipping
        BY <1>2, <2>3
      <3> QED
        BY <2>1, <2>3, <3>1 DEF FramesWaiting
    <2> QED
      BY <2>2, <2>3
  (* Before the first flip the queue is for buffer 0.                      *)
  <1>7. ASSUME scan = -1, flipping' = -1
        PROVE  FirstBuffer(fifo', frame_index') = 0
    <2>1. flipping = -1 /\ c.op # "flip"
      BY <1>c, <1>2, <1>3, <1>7
    <2>2. c.buf = 0
      BY <1>1, <1>7, <2>1 DEF ScreenInv, FirstBuffer
    <2>w. ~Trailing(fifo)
      BY <1>c, <1>7, <2>1 DEF Trailing
    <2>k. /\ Len(fifo) \in Nat /\ Len(fifo) >= 1 /\ Len(fifo') = Len(fifo) - 1
          /\ \A n \in 1 .. Len(fifo) - 1 : fifo'[n] = fifo[n + 1]
          /\ fifo' \in Seq(Commands)
      BY <1>1, TailIs
    <2>3. CASE Len(fifo) = 1
      <3>1. fifo' = <<>>
        BY <2>3, <2>k
      <3>2. c.op # "waitflip"
        BY <1>1, <2>3, <2>w DEF Ahead, Leading
      <3>3. c.buf = frame_index
        BY <1>1, <2>3, <3>2 DEF Ends
      <3> QED
        BY <1>1, <2>2, <3>1, <3>3 DEF FirstBuffer
    <2>4. CASE Len(fifo) > 1
      <3>1. fifo' # <<>> /\ fifo'[1] = fifo[2]
        BY <2>4, <2>k
      <3>2. CASE c.op = "waitflip"
        <4>1. Leading(fifo)
          BY <1>1, <2>w, <3>2 DEF Ahead
        <4> QED
          BY <2>2, <3>1, <4>1 DEF Leading, FirstBuffer
      <3>3. CASE Drawing(c)
        <4>1. 1 \in 1 .. Len(fifo) /\ 1 + 1 <= Len(fifo)
          BY <2>4, <2>k
        <4>2. fifo[1 + 1].buf = c.buf
          BY <1>1, <3>3, <4>1 DEF Window
        <4> QED
          BY <2>2, <3>1, <4>2 DEF FirstBuffer
      <3> QED
        BY <1>c, <2>1, <3>2, <3>3
    <2> QED
      BY <2>3, <2>4, <2>k
  <1>8. /\ flipping' # -1 => scan' # flipping'
        /\ scan' = -1 /\ flipping' # -1 => flipping' = 0
    <2>1. CASE c.op = "flip"
      <3>1. flipping = -1 /\ flipping' = c.buf /\ scan # c.buf
        BY <1>2, <1>3, <2>1
      <3>2. scan = -1 => c.buf = 0
        BY <1>1, <3>1 DEF ScreenInv, FirstBuffer
      <3> QED
        BY <1>1, <3>1, <3>2
    <2>2. CASE c.op # "flip"
      BY <1>1, <1>2, <2>2 DEF ScreenInv
    <2> QED
      BY <2>1, <2>2
  <1> QED
    BY <1>1, <1>4, <1>5, <1>6, <1>7, <1>8 DEF ScreenInv

(* Every step of the program is a step of FrameStream or stutters.         *)
LEMMA FrameStep ==
  ASSUME IInv, ScreenInv, [Next]_vars
  PROVE  ScreenInv' /\ [Frames!Next]_(Frames!vars)
  <1>1. TypeOK /\ QueueInv /\ frame_index \in Buffers /\ frame \in Offsets \cup {0}
    BY DEF IInv, TypeOK
  <1>t. flipping \in {-1, 0, 1} /\ scan \in {-1, 0, 1}
    BY <1>1, BufferValues DEF TypeOK
  <1>n. Cardinality(Flips(fifo)) \in Nat
    BY <1>1, FlipsFinite DEF QueueInv
  <1>2. ASSUME UNCHANGED <<fifo, flipping, scan, frame_index, color>>
        PROVE  ScreenInv' /\ UNCHANGED Frames!vars
    BY <1>2 DEF ScreenInv, FirstBuffer, Frames!vars, OnScreen, FramesWaiting, Flips
  <1>3. ASSUME Render \/ DrawText
        PROVE  ScreenInv' /\ UNCHANGED Frames!vars
    <2>1. UNCHANGED <<flipping, scan, color>>
      BY <1>3 DEF Render, DrawText
    <2>2. /\ Cardinality(Flips(fifo')) = Cardinality(Flips(fifo))
          /\ FirstBuffer(fifo', frame_index') = FirstBuffer(fifo, frame_index)
      BY <1>1, <1>3, DrawingAsksNothing
    <2>3. UNCHANGED FramesWaiting
      BY <2>1, <2>2 DEF FramesWaiting
    <2>4. UNCHANGED OnScreen
      BY <2>1 DEF OnScreen
    <2> QED
      BY <2>1, <2>2, <2>3, <2>4 DEF ScreenInv, Frames!vars
  <1>4. ASSUME Flip
        PROVE  ScreenInv' /\ Frames!Ask
    <2>1. UNCHANGED <<flipping, scan, color>>
      BY <1>4 DEF Flip, flip_frame
    <2>2. /\ Cardinality(Flips(fifo')) = Cardinality(Flips(fifo)) + 1
          /\ FirstBuffer(fifo', frame_index') = FirstBuffer(fifo, frame_index)
      BY <1>1, <1>4, FlipAsksOne
    <2>3. FramesWaiting' = FramesWaiting + 1
      BY <1>n, <2>1, <2>2 DEF FramesWaiting
    <2>4. UNCHANGED OnScreen
      BY <2>1 DEF OnScreen
    <2> QED
      BY <2>1, <2>2, <2>3, <2>4 DEF ScreenInv, Frames!Ask
  <1>5. ASSUME Rsx
        PROVE  ScreenInv' /\ UNCHANGED Frames!vars
    <2>1. UNCHANGED scan
      BY <1>5 DEF Rsx, RsxStep
    <2> QED
      BY <1>1, <1>5, <2>1, RsxKeepsTheScreen DEF Frames!vars
  <1>6. ASSUME Vertical
        PROVE  ScreenInv' /\ Frames!Show
    <2>1. /\ flipping # -1 /\ scan' = flipping /\ flipping' = -1
          /\ UNCHANGED <<fifo, frame_index, color>>
      BY <1>6 DEF Vertical, VBlank
    <2>2. /\ color \in [Buffers -> Views \cup {Blank}]
          /\ scan' = IF scan = -1 THEN 0 ELSE 1 - scan
      BY <1>t, <2>1 DEF ScreenInv
    <2>3. scan' \in Buffers /\ scan' # -1
      BY <1>t, <2>1, BufferValues
    <2>4. ScreenInv'
      BY <2>1, <2>2, <2>3 DEF ScreenInv
    <2>5. FramesWaiting > 0 /\ FramesWaiting' = FramesWaiting - 1
      BY <1>n, <2>1 DEF FramesWaiting
    <2>6. OnScreen' \in Views \cup {Blank}
      BY <2>1, <2>2, <2>3 DEF OnScreen
    <2> QED
      BY <2>2, <2>4, <2>5, <2>6 DEF Frames!Show
  <1>7. \/ UNCHANGED <<fifo, flipping, scan, frame_index, color>>
        \/ Render \/ DrawText \/ Flip \/ Rsx \/ Vertical
    BY DEF Next, MainLoop, Input, TickIdle, TickStatic, TickFails, TickStart, TickJoin, Shutdown,
           SliceDone, Exited, vars, display
  <1> QED
    BY <1>2, <1>3, <1>4, <1>5, <1>6, <1>7 DEF Frames!Next

(* The queue of commands, the flips that wait and the two colour buffers   *)
(* implement FrameStream: gcm_flip's pacing shows every frame in turn and  *)
(* what is on the screen changes only when the next one takes it, for any  *)
(* number of commands the RSX is behind.                                   *)
THEOREM DisplayShowsEveryFrame == Spec => FramesSpec
  <1>1. Init => ScreenInv /\ Frames!Init
    <2> SUFFICES ASSUME Init
                 PROVE  ScreenInv /\ Frames!Init
      OBVIOUS
    <2>1. /\ frame_index = 0 /\ fifo = <<>> /\ scan = -1 /\ flipping = -1
          /\ color = [b \in Buffers |-> Blank]
      BY DEF Init, DisplayInit
    <2>2. Flips(fifo) = {}
      BY <2>1 DEF Flips
    <2>3. FramesWaiting = 0
      BY <2>1, <2>2, FS_EmptySet DEF FramesWaiting
    <2>4. ScreenInv
      BY <2>1 DEF ScreenInv, FirstBuffer
    <2> QED
      BY <2>1, <2>3, <2>4 DEF Frames!Init, OnScreen
  <1>2. IInv /\ ScreenInv /\ [Next]_vars => ScreenInv' /\ [Frames!Next]_(Frames!vars)
    BY FrameStep
  <1> QED
    BY <1>1, <1>2, Invariance, PTL DEF Spec, FramesSpec, Frames!Spec
=============================================================================
