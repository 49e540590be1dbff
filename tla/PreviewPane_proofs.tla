-------------------------- MODULE PreviewPane_proofs --------------------------
(* Theorems about PreviewPane, for any files, colours and windows and any bounds. *)
EXTENDS PreviewPane, Integers, FiniteSetTheorems, TLAPS

-----------------------------------------------------------------------------
(* The inductive invariant *)

WinRec == [is : {"none", "creating", "alive", "quitting"}, queue : Seq(Messages),
           rd : Pictures \union {Nil}, screen : Pictures \union {Nil}, dirty : BOOLEAN]

Scalars ==
    /\ life \in {"held", "released", "aborted"}
    /\ stream \in PaneFiles \union {Nil} /\ previewed \in BOOLEAN /\ parent \in BOOLEAN
    /\ bg \in Shades /\ hwnd \in Windows \union {Nil} /\ ui_thread \in Windows \union {Nil}
    /\ pixels \in PaneFiles \union {Nil}
    /\ preview \in {"no", "creating", "source", "decoding"}
    /\ rx \in Windows \union {"empty", "zero"}
    /\ call \in {"none", "site", "unload", "drop"} /\ joining \in Windows \union {Nil}
    /\ workers \in 0..MaxWorkers

\* What is alive of windows and payloads.
Things == win \in [Windows -> WinRec] /\ boxes \in Nat /\ bitmaps \in Nat

\* What each place of the COM thread implies for the handler's fields.
Control ==
    /\ hwnd = ui_thread
    /\ call # "none" => life = "held" /\ hwnd = Nil /\ preview \in {"no", "source"}
    /\ call = "none" => joining = Nil
    /\ call = "drop" => preview = "no"
    /\ preview # "no" => life # "released" /\ pixels = Nil /\ previewed /\ stream # Nil
    /\ preview = "creating" => hwnd = Nil /\ call = "none"
    /\ preview # "creating" => rx = "empty"
    /\ preview = "decoding" => workers >= 1 /\ call = "none"
    /\ life = "released" => hwnd = Nil
    /\ ~previewed \/ stream = Nil => hwnd = Nil /\ pixels = Nil

\* There is one window at a time, and somebody knows it: the handler, the call that joins
\* its thread, or ensure_window.
Owners ==
    /\ \A w \in Windows : win[w].is = "creating" => preview = "creating" /\ rx = "empty"
    /\ \A w \in Windows : win[w].is \in {"alive", "quitting"} =>
          w = hwnd \/ w = joining \/ (preview = "creating" /\ rx = w)
    /\ \A v, w \in Windows : win[v].is # "none" /\ win[w].is # "none" => v = w

\* A window that is not there yet or any more holds nothing.
Bare == \A w \in Windows : win[w].is # "alive" =>
    win[w].queue = <<>> /\ win[w].rd = Nil /\ win[w].screen = Nil /\ ~win[w].dirty

\* Only a window that is being joined is asked to close, and nothing is posted after that.
Queues == \A w \in Windows :
    /\ \A i \in DOMAIN win[w].queue : win[w].queue[i] = "close" => i = Len(win[w].queue) /\ w = joining
    /\ Len(win[w].queue) <= MaxQueue + (IF w = joining THEN 1 ELSE 0)

\* Every picture anywhere is of the file the host has initialised with.
OfStream ==
    /\ pixels \in {Nil, stream}
    /\ \A w \in Windows :
        /\ \A i \in DOMAIN win[w].queue : win[w].queue[i] # "close" => win[w].queue[i][1] = stream
        /\ win[w].rd # Nil => win[w].rd[1] = stream
        /\ win[w].screen # Nil => win[w].screen[1] = stream

\* Before the first picture there is none in any window either.
Blank == pixels = Nil => \A w \in Windows :
    /\ win[w].rd = Nil /\ win[w].screen = Nil
    /\ \A i \in DOMAIN win[w].queue : win[w].queue[i] = "close"

Painted == \A w \in Windows : ~win[w].dirty => win[w].screen = win[w].rd

\* The picture a window will hold when its queue is empty is the one it should.
Current == Alive(hwnd) /\ pixels # Nil =>
    IF win[hwnd].queue = <<>> THEN win[hwnd].rd = Composite(pixels)
    ELSE win[hwnd].queue[Len(win[hwnd].queue)] = <<pixels, bg>>

Counted ==
    /\ \A w \in Windows : win[w].is = "alive" =>
         boxes = Queued(w) /\ bitmaps = IF win[w].rd # Nil THEN 1 ELSE 0
    /\ (\A w \in Windows : win[w].is # "alive") => boxes = 0 /\ bitmaps = 0

PaneInv == Scalars /\ Things /\ Control /\ Owners /\ Bare /\ Queues /\ OfStream /\ Blank /\ Painted
           /\ Current /\ Counted

-----------------------------------------------------------------------------
(* Counting a queue *)

\* How many of the messages in a queue are pictures.
PicturesIn(q) == Cardinality({i \in DOMAIN q : q[i] # "close"})

LEMMA OpenQueue ==
    ASSUME NEW q \in Seq(Messages), \A i \in DOMAIN q : q[i] # "close"
    PROVE  PicturesIn(q) = Len(q)
  <1>1. {i \in DOMAIN q : q[i] # "close"} = 1..Len(q)
    OBVIOUS
  <1>2. Len(q) \in Nat
    OBVIOUS
  <1>3. \A n \in Nat : Cardinality(1..n) = n
    BY FS_Interval
  <1>4. QED
    BY <1>1, <1>2, <1>3 DEF PicturesIn

LEMMA ClosingQueue ==
    ASSUME NEW q \in Seq(Messages), q # <<>>, q[Len(q)] = "close",
           \A i \in DOMAIN q : q[i] = "close" => i = Len(q)
    PROVE  PicturesIn(q) = Len(q) - 1
  <1>1. {i \in DOMAIN q : q[i] # "close"} = 1..(Len(q) - 1)
    OBVIOUS
  <1>2. Len(q) - 1 \in Nat
    OBVIOUS
  <1>3. \A n \in Nat : Cardinality(1..n) = n
    BY FS_Interval
  <1>4. QED
    BY <1>1, <1>2, <1>3 DEF PicturesIn

\* A picture posted to an open queue is one more.
LEMMA PictureJoins ==
    ASSUME NEW q \in Seq(Messages), \A i \in DOMAIN q : q[i] # "close",
           NEW m \in Pictures
    PROVE  /\ PicturesIn(Append(q, m)) = PicturesIn(q) + 1
           /\ \A i \in DOMAIN Append(q, m) : Append(q, m)[i] # "close"
           /\ \A i \in DOMAIN Append(q, m) : (i \in DOMAIN q /\ Append(q, m)[i] = q[i]) \/ Append(q, m)[i] = m
           /\ Append(q, m) \in Seq(Messages) /\ Append(q, m) # <<>>
           /\ Len(Append(q, m)) = Len(q) + 1 /\ Append(q, m)[Len(q) + 1] = m
  <1>1. m \in Messages /\ m # "close"
    BY MessagesAssumption DEF Messages
  <1>2. Append(q, m) \in Seq(Messages) /\ \A i \in DOMAIN Append(q, m) : Append(q, m)[i] # "close"
    BY <1>1
  <1>3. PicturesIn(Append(q, m)) = Len(Append(q, m)) /\ PicturesIn(q) = Len(q)
    BY <1>2, OpenQueue
  <1>4. QED
    BY <1>1, <1>2, <1>3

\* The request to close is no picture.
LEMMA CloseJoins ==
    ASSUME NEW q \in Seq(Messages), \A i \in DOMAIN q : q[i] # "close"
    PROVE  /\ PicturesIn(Append(q, "close")) = PicturesIn(q)
           /\ \A i \in DOMAIN Append(q, "close") : Append(q, "close")[i] = "close" => i = Len(q) + 1
           /\ \A i \in DOMAIN Append(q, "close") :
                Append(q, "close")[i] # "close" => i \in DOMAIN q /\ Append(q, "close")[i] = q[i]
           /\ Append(q, "close") \in Seq(Messages) /\ Len(Append(q, "close")) = Len(q) + 1
  <1>1. Append(q, "close") \in Seq(Messages) /\ Append(q, "close") # <<>>
        /\ Len(Append(q, "close")) = Len(q) + 1 /\ Append(q, "close")[Len(q) + 1] = "close"
    BY DEF Messages
  <1>2. \A i \in DOMAIN Append(q, "close") : Append(q, "close")[i] = "close" => i = Len(q) + 1
    OBVIOUS
  <1>3. PicturesIn(Append(q, "close")) = Len(Append(q, "close")) - 1
    BY <1>1, <1>2, ClosingQueue
  <1>4. PicturesIn(q) = Len(q)
    BY OpenQueue
  <1>5. QED
    BY <1>1, <1>2, <1>3, <1>4

\* The picture at the head of a queue is one less when it is taken.
LEMMA HeadLeaves ==
    ASSUME NEW q \in Seq(Messages), q # <<>>, Head(q) # "close",
           \A i \in DOMAIN q : q[i] = "close" => i = Len(q)
    PROVE  /\ Tail(q) \in Seq(Messages) /\ Len(Tail(q)) = Len(q) - 1
           /\ \A i \in DOMAIN Tail(q) : i + 1 \in DOMAIN q /\ Tail(q)[i] = q[i + 1]
           /\ \A i \in DOMAIN Tail(q) : Tail(q)[i] = "close" => i = Len(Tail(q))
           /\ PicturesIn(q) = PicturesIn(Tail(q)) + 1
           /\ PicturesIn(q) \in Nat /\ PicturesIn(Tail(q)) \in Nat
  <1>1. Tail(q) \in Seq(Messages) /\ Len(Tail(q)) = Len(q) - 1 /\ Len(Tail(q)) \in Nat
    OBVIOUS
  <1>2. \A i \in DOMAIN Tail(q) : i + 1 \in DOMAIN q /\ Tail(q)[i] = q[i + 1]
    OBVIOUS
  <1>3. \A i \in DOMAIN Tail(q) : Tail(q)[i] = "close" => i = Len(Tail(q))
    BY <1>1, <1>2
  <1>4. PicturesIn(q) = PicturesIn(Tail(q)) + 1 /\ PicturesIn(q) \in Nat /\ PicturesIn(Tail(q)) \in Nat
    <2>1. CASE q[Len(q)] = "close"
      <3>1. Len(q) # 1 /\ Len(q) \in Nat /\ Len(q) # 0
        BY <2>1
      <3>2. Tail(q) # <<>> /\ Tail(q)[Len(Tail(q))] = "close" /\ Len(Tail(q)) >= 1
        BY <2>1, <3>1, <1>1, <1>2
      <3>3. PicturesIn(q) = Len(q) - 1 /\ PicturesIn(Tail(q)) = Len(Tail(q)) - 1
        BY <2>1, <3>2, <1>1, <1>3, ClosingQueue
      <3>4. QED
        BY <3>1, <3>2, <3>3, <1>1
    <2>2. CASE q[Len(q)] # "close"
      <3>1. \A i \in DOMAIN q : q[i] # "close"
        BY <2>2
      <3>2. \A i \in DOMAIN Tail(q) : Tail(q)[i] # "close"
        BY <3>1, <1>2
      <3>3. PicturesIn(q) = Len(q) /\ PicturesIn(Tail(q)) = Len(Tail(q))
        BY <3>1, <3>2, <1>1, OpenQueue
      <3>4. QED
        BY <3>3, <1>1
    <2>3. QED
      BY <2>1, <2>2
  <1>5. QED
    BY <1>1, <1>2, <1>3, <1>4

-----------------------------------------------------------------------------
(* The steps *)

LEMMA InitPane == PaneInit => PaneInv
  <1> SUFFICES ASSUME PaneInit PROVE PaneInv
    OBVIOUS
  <1> USE DEF PaneInit
  <1>0. Scalars
    <2>1. previewed \in BOOLEAN /\ parent \in BOOLEAN
      BY Zenon
    <2>2. workers \in 0..MaxWorkers
      BY BoundsAssumption
    <2>3. QED
      BY <2>1, <2>2, ShadesAssumption DEF Scalars
  <1>1. Control
    BY DEF Control
  <1>2. win = [w \in Windows |-> NoWindow] /\ NoWindow \in WinRec
    BY DEF NoWindow, WinRec
  <1>3. \A w \in Windows : win[w] = NoWindow
    BY <1>2
  <1>4. Things
    BY <1>2 DEF Things
  <1>5. Owners /\ Bare /\ OfStream /\ Blank /\ Painted /\ Current /\ Counted
    BY <1>3 DEF Owners, Bare, OfStream, Blank, Painted, Current, Counted, NoWindow, Alive
  <1>6. Queues
    BY <1>3, BoundsAssumption DEF Queues, NoWindow
  <1>7. QED
    BY <1>0, <1>1, <1>4, <1>5, <1>6 DEF PaneInv

\* What post_render does to the windows, when nobody is being joined.
LEMMA Posted ==
    ASSUME PaneInv, call = "none", NEW f \in {Nil, stream}, NEW c \in Shades,
           post_render(<<f, c>>), Alive(hwnd) => Len(win[hwnd].queue) < MaxQueue,
           bitmaps' = bitmaps, hwnd' = hwnd
    PROVE  /\ Things'
           /\ \A w \in Windows : /\ win'[w].is = win[w].is /\ win'[w].rd = win[w].rd
                                 /\ win'[w].screen = win[w].screen /\ win'[w].dirty = win[w].dirty
                                 /\ win[w].is # "alive" => win'[w].queue = win[w].queue
                                 /\ Len(win'[w].queue) <= MaxQueue
                                 /\ \A i \in DOMAIN win'[w].queue :
                                      win'[w].queue[i] # "close" /\ win'[w].queue[i][1] = stream
           /\ f = Nil => win' = win
           /\ f # Nil /\ Alive(hwnd) =>
                win'[hwnd].queue # <<>> /\ win'[hwnd].queue[Len(win'[hwnd].queue)] = <<f, c>>
           /\ Counted'
  <1> USE DEF PaneInv
  <1>0. joining = Nil /\ joining \notin Windows
    BY NilAssumption DEF Control
  <1>q. \A w \in Windows : /\ win[w] \in WinRec /\ win[w].queue \in Seq(Messages)
                           /\ \A i \in DOMAIN win[w].queue : win[w].queue[i] # "close"
                           /\ Len(win[w].queue) <= MaxQueue
    BY <1>0, BoundsAssumption DEF Things, WinRec, Queues
  <1>s. \A w \in Windows : \A i \in DOMAIN win[w].queue : win[w].queue[i][1] = stream
    BY <1>q DEF OfStream
  <1>1. CASE hwnd = Nil \/ f = Nil \/ ~Alive(hwnd)
    <2>1. win' = win /\ boxes' = boxes
      BY <1>1 DEF post_render
    <2>2. Counted'
      BY <2>1 DEF Counted, Queued
    <2>3. QED
      BY <1>1, <2>1, <2>2, <1>q, <1>s DEF Things, Alive
  <1>2. CASE hwnd # Nil /\ f # Nil /\ Alive(hwnd)
    <2> DEFINE q == win[hwnd].queue
               m == <<f, c>>
    <2>1. hwnd \in Windows /\ f = stream /\ m \in Pictures /\ m[1] = stream /\ win[hwnd].is = "alive"
      BY <1>2 DEF Scalars, Pictures, Alive
    <2>2. win' = [win EXCEPT ![hwnd].queue = Append(q, m)] /\ boxes' = boxes + 1
      BY <1>2 DEF post_render, Post
    <2>3. /\ PicturesIn(Append(q, m)) = PicturesIn(q) + 1
          /\ \A i \in DOMAIN Append(q, m) : Append(q, m)[i] # "close"
          /\ \A i \in DOMAIN Append(q, m) : (i \in DOMAIN q /\ Append(q, m)[i] = q[i]) \/ Append(q, m)[i] = m
          /\ Append(q, m) \in Seq(Messages) /\ Append(q, m) # <<>>
          /\ Len(Append(q, m)) = Len(q) + 1 /\ Append(q, m)[Len(q) + 1] = m
      BY <2>1, <1>q, PictureJoins
    <2>4. /\ win'[hwnd] = [win[hwnd] EXCEPT !.queue = Append(q, m)]
          /\ \A w \in Windows \ {hwnd} : win'[w] = win[w]
      BY <2>1, <2>2 DEF Things
    <2>5. win'[hwnd].queue = Append(q, m) /\ win'[hwnd].is = win[hwnd].is /\ win'[hwnd].rd = win[hwnd].rd
          /\ win'[hwnd].screen = win[hwnd].screen /\ win'[hwnd].dirty = win[hwnd].dirty
          /\ win'[hwnd] \in WinRec
      BY <2>1, <2>3, <2>4, <1>q DEF WinRec
    <2>6. Things'
      BY <2>1, <2>2, <2>5 DEF Things
    <2>7. \A i \in DOMAIN Append(q, m) : Append(q, m)[i][1] = stream
      BY <2>1, <2>3, <1>s
    <2>8. Len(Append(q, m)) <= MaxQueue
      BY <1>2, <2>1, <2>3, <1>q, BoundsAssumption
    <2>9. Counted'
      <3>1. boxes = Queued(hwnd) /\ bitmaps = IF win[hwnd].rd # Nil THEN 1 ELSE 0
        BY <2>1 DEF Counted
      <3>2. Queued(hwnd) = PicturesIn(q) /\ Queued(hwnd)' = PicturesIn(Append(q, m))
        BY <2>5 DEF Queued, PicturesIn
      <3>3. boxes' = Queued(hwnd)' /\ bitmaps' = IF win'[hwnd].rd # Nil THEN 1 ELSE 0
        BY <2>2, <2>3, <2>5, <3>1, <3>2
      <3>4. \A w \in Windows : win'[w].is = "alive" => w = hwnd
        BY <2>1, <2>4, <2>5 DEF Owners
      <3>5. QED
        BY <2>1, <2>5, <3>3, <3>4 DEF Counted, Queued
    <2>10. \A w \in Windows :
             /\ win'[w].is = win[w].is /\ win'[w].rd = win[w].rd
             /\ win'[w].screen = win[w].screen /\ win'[w].dirty = win[w].dirty
             /\ win[w].is # "alive" => win'[w].queue = win[w].queue
             /\ Len(win'[w].queue) <= MaxQueue
             /\ \A i \in DOMAIN win'[w].queue : win'[w].queue[i] # "close" /\ win'[w].queue[i][1] = stream
      <3> SUFFICES ASSUME NEW w \in Windows PROVE
             /\ win'[w].is = win[w].is /\ win'[w].rd = win[w].rd
             /\ win'[w].screen = win[w].screen /\ win'[w].dirty = win[w].dirty
             /\ win[w].is # "alive" => win'[w].queue = win[w].queue
             /\ Len(win'[w].queue) <= MaxQueue
             /\ \A i \in DOMAIN win'[w].queue : win'[w].queue[i] # "close" /\ win'[w].queue[i][1] = stream
        OBVIOUS
      <3>1. CASE w = hwnd
        BY <3>1, <2>1, <2>3, <2>5, <2>7, <2>8
      <3>2. CASE w # hwnd
        BY <3>2, <2>4, <1>q, <1>s
      <3>3. QED
        BY <3>1, <3>2
    <2>11. win'[hwnd].queue # <<>> /\ win'[hwnd].queue[Len(win'[hwnd].queue)] = m
      BY <2>3, <2>5
    <2>12. QED
      BY <1>2, <2>6, <2>9, <2>10, <2>11
  <1>3. QED
    BY <1>1, <1>2

\* A post keeps everything said of the windows.
LEMMA PostKeeps ==
    ASSUME PaneInv, call = "none", preview # "creating",
           pixels' \in {Nil, stream}, pixels = Nil \/ pixels' = pixels, bg' \in Shades,
           post_render(<<pixels', bg'>>), Alive(hwnd) => Len(win[hwnd].queue) < MaxQueue,
           UNCHANGED <<stream, hwnd, joining, rx, bitmaps>>
    PROVE  Things' /\ Owners' /\ Bare' /\ Queues' /\ OfStream' /\ Blank' /\ Painted' /\ Current' /\ Counted'
  <1>1. /\ Things'
        /\ \A w \in Windows : /\ win'[w].is = win[w].is /\ win'[w].rd = win[w].rd
                              /\ win'[w].screen = win[w].screen /\ win'[w].dirty = win[w].dirty
                              /\ win[w].is # "alive" => win'[w].queue = win[w].queue
                              /\ Len(win'[w].queue) <= MaxQueue
                              /\ \A i \in DOMAIN win'[w].queue :
                                   win'[w].queue[i] # "close" /\ win'[w].queue[i][1] = stream
        /\ pixels' = Nil => win' = win
        /\ pixels' # Nil /\ Alive(hwnd) =>
             win'[hwnd].queue # <<>> /\ win'[hwnd].queue[Len(win'[hwnd].queue)] = <<pixels', bg'>>
        /\ Counted'
    <2> DEFINE f == pixels'
               c == bg'
    <2>1. f \in {Nil, stream} /\ c \in Shades /\ post_render(<<f, c>>)
      OBVIOUS
    <2> HIDE DEF f, c
    <2>2. QED
      BY <2>1, Posted DEF f, c
  <1> USE DEF PaneInv
  <1>0. joining = Nil /\ joining \notin Windows
    BY NilAssumption DEF Control
  <1>2. Owners'
    BY <1>1 DEF Owners
  <1>3. Bare'
    BY <1>1 DEF Bare
  <1>4. Queues'
    BY <1>0, <1>1, BoundsAssumption DEF Queues
  <1>5. OfStream'
    BY <1>1 DEF OfStream
  <1>6. Blank'
    BY <1>1 DEF Blank
  <1>7. Painted'
    BY <1>1 DEF Painted
  <1>8. Current'
    <2>1. Alive(hwnd)' => Alive(hwnd) /\ hwnd \in Windows
      BY <1>1 DEF Alive, Scalars
    <2>2. QED
      BY <1>1, <2>1 DEF Current
  <1>9. QED
    BY <1>1, <1>2, <1>3, <1>4, <1>5, <1>6, <1>7, <1>8

LEMMA SetBackgroundColorKeeps ==
    ASSUME PaneInv, life # "aborted", NEW c \in Shades, SetBackgroundColor(c) PROVE PaneInv'
  <1>1. /\ call = "none" /\ preview # "creating" /\ bg' \in Shades
        /\ pixels' \in {Nil, stream} /\ pixels' = pixels /\ post_render(<<pixels', bg'>>)
        /\ Alive(hwnd) => Len(win[hwnd].queue) < MaxQueue
        /\ UNCHANGED <<life, stream, previewed, parent, hwnd, ui_thread, pixels, preview, rx, call, joining,
                       workers, bitmaps>>
    BY ShadesAssumption DEF SetBackgroundColor, Callable, frames, PaneInv, OfStream
  <1>2. Things' /\ Owners' /\ Bare' /\ Queues' /\ OfStream' /\ Blank' /\ Painted' /\ Current' /\ Counted'
    BY <1>1, PostKeeps
  <1>3. Scalars' /\ Control'
    BY <1>1 DEF PaneInv, Scalars, Control
  <1>4. QED
    BY <1>2, <1>3 DEF PaneInv

\* The preview ends with a picture, or without one.
LEMMA DeliversKeeps ==
    ASSUME PaneInv, call = "none", preview \in {"source", "decoding"},
           NEW picture \in {stream, Nil}, Delivers(picture), workers' \in 0..MaxWorkers,
           UNCHANGED <<life, stream, previewed, parent, bg, hwnd, ui_thread, rx, call, joining, bitmaps>>
    PROVE  PaneInv'
  <1>1. /\ preview # "creating" /\ pixels = Nil /\ pixels' = picture /\ preview' = "no" /\ bg' \in Shades
        /\ post_render(<<pixels', bg'>>) /\ (Alive(hwnd) => Len(win[hwnd].queue) < MaxQueue)
    BY DEF Delivers, PaneInv, Control, Scalars
  <1>2. Things' /\ Owners' /\ Bare' /\ Queues' /\ OfStream' /\ Blank' /\ Painted' /\ Current' /\ Counted'
    BY <1>1, PostKeeps
  <1>3. Scalars' /\ Control'
    BY <1>1 DEF PaneInv, Scalars, Control
  <1>4. QED
    BY <1>2, <1>3 DEF PaneInv

LEMMA SourceKeeps == ASSUME PaneInv, SourceDecides PROVE PaneInv'
  <1>1. PICK picture \in {stream, Nil} : Delivers(picture)
    BY DEF SourceDecides
  <1>2. QED
    BY <1>1, DeliversKeeps DEF SourceDecides, PaneInv, Scalars

LEMMA DecodedKeeps == ASSUME PaneInv, Decoded PROVE PaneInv'
  <1>1. PICK picture \in {stream, Nil} : Delivers(picture)
    BY DEF Decoded
  <1>2. workers' \in 0..MaxWorkers /\ call = "none"
    BY BoundsAssumption DEF Decoded, PaneInv, Control, Scalars
  <1>3. QED
    BY <1>1, <1>2, DeliversKeeps DEF Decoded

LEMMA BudgetKeeps == ASSUME PaneInv, BudgetExpires PROVE PaneInv'
  <1>1. call = "none" /\ workers' \in 0..MaxWorkers
    BY DEF BudgetExpires, PaneInv, Control, Scalars
  <1>2. Nil \in {stream, Nil}
    OBVIOUS
  <1>3. QED
    BY <1>1, <1>2, DeliversKeeps DEF BudgetExpires

\* The window is asked to close, and the call waits for its thread.
LEMMA DestroyKeeps ==
    ASSUME PaneInv, Callable, NEW how \in {"site", "unload", "drop"}, how = "drop" => preview = "no",
           destroy_window(how),
           UNCHANGED <<life, stream, previewed, parent, bg, pixels, preview, rx, workers, heap>>
    PROVE  PaneInv'
  <1> USE DEF PaneInv
  <1>0. /\ call = "none" /\ joining = Nil /\ joining \notin Windows /\ life = "held"
        /\ preview # "creating" /\ preview # "decoding" /\ hwnd = ui_thread
        /\ call' = how /\ joining' = hwnd /\ hwnd' = Nil /\ ui_thread' = Nil
        /\ UNCHANGED <<life, stream, previewed, parent, bg, pixels, preview, rx, workers, boxes, bitmaps>>
    BY NilAssumption DEF Callable, Control, destroy_window, heap
  <1>1. Scalars' /\ Control'
    BY <1>0 DEF Scalars, Control
  <1>q. \A w \in Windows : /\ win[w] \in WinRec /\ win[w].queue \in Seq(Messages)
                           /\ \A i \in DOMAIN win[w].queue : win[w].queue[i] # "close"
                           /\ Len(win[w].queue) <= MaxQueue
    BY <1>0, BoundsAssumption DEF Things, WinRec, Queues
  <1>2. /\ Things'
        /\ \A w \in Windows : /\ win'[w].is = win[w].is /\ win'[w].rd = win[w].rd
                              /\ win'[w].screen = win[w].screen /\ win'[w].dirty = win[w].dirty
                              /\ win[w].is # "alive" => win'[w].queue = win[w].queue
                              /\ PicturesIn(win'[w].queue) = PicturesIn(win[w].queue)
                              /\ Len(win'[w].queue) <= MaxQueue + (IF w = hwnd THEN 1 ELSE 0)
                              /\ \A i \in DOMAIN win'[w].queue :
                                   IF win'[w].queue[i] = "close" THEN i = Len(win'[w].queue) /\ w = hwnd
                                   ELSE i \in DOMAIN win[w].queue /\ win'[w].queue[i] = win[w].queue[i]
    <2>1. CASE ~Alive(hwnd)
      <3>1. win' = win
        BY <2>1 DEF destroy_window
      <3>2. QED
        BY <3>1, <1>0, <1>q, BoundsAssumption DEF Things
    <2>2. CASE Alive(hwnd)
      <3> DEFINE q == win[hwnd].queue
      <3>1. hwnd \in Windows /\ win[hwnd].is = "alive"
        BY <2>2 DEF Alive, Scalars
      <3>2. win' = [win EXCEPT ![hwnd].queue = Append(q, "close")]
        BY <2>2 DEF destroy_window, Post
      <3>3. /\ PicturesIn(Append(q, "close")) = PicturesIn(q)
            /\ \A i \in DOMAIN Append(q, "close") : Append(q, "close")[i] = "close" => i = Len(q) + 1
            /\ \A i \in DOMAIN Append(q, "close") :
                 Append(q, "close")[i] # "close" => i \in DOMAIN q /\ Append(q, "close")[i] = q[i]
            /\ Append(q, "close") \in Seq(Messages) /\ Len(Append(q, "close")) = Len(q) + 1
        BY <3>1, <1>q, CloseJoins
      <3>4. /\ win'[hwnd] = [win[hwnd] EXCEPT !.queue = Append(q, "close")]
            /\ \A w \in Windows \ {hwnd} : win'[w] = win[w]
        BY <3>1, <3>2 DEF Things
      <3>5. win'[hwnd].queue = Append(q, "close") /\ win'[hwnd].is = win[hwnd].is /\ win'[hwnd].rd = win[hwnd].rd
            /\ win'[hwnd].screen = win[hwnd].screen /\ win'[hwnd].dirty = win[hwnd].dirty
            /\ win'[hwnd] \in WinRec
        BY <3>1, <3>3, <3>4, <1>q DEF WinRec
      <3>6. Things'
        BY <3>1, <3>2, <3>5, <1>0 DEF Things
      <3>7. Len(win'[hwnd].queue) <= MaxQueue + 1
        BY <3>1, <3>3, <3>5, <1>q, BoundsAssumption
      <3>8. ASSUME NEW w \in Windows
            PROVE  /\ win'[w].is = win[w].is /\ win'[w].rd = win[w].rd
                   /\ win'[w].screen = win[w].screen /\ win'[w].dirty = win[w].dirty
                   /\ win[w].is # "alive" => win'[w].queue = win[w].queue
                   /\ PicturesIn(win'[w].queue) = PicturesIn(win[w].queue)
                   /\ Len(win'[w].queue) <= MaxQueue + (IF w = hwnd THEN 1 ELSE 0)
                   /\ \A i \in DOMAIN win'[w].queue :
                        IF win'[w].queue[i] = "close" THEN i = Len(win'[w].queue) /\ w = hwnd
                        ELSE i \in DOMAIN win[w].queue /\ win'[w].queue[i] = win[w].queue[i]
        <4>1. CASE w = hwnd
          BY <4>1, <3>1, <3>3, <3>5, <3>7
        <4>2. CASE w # hwnd
          BY <4>2, <3>4, <1>q, BoundsAssumption
        <4>3. QED
          BY <4>1, <4>2
      <3>9. QED
        BY <3>6, <3>8
    <2>3. QED
      BY <2>1, <2>2
  <1>3. Owners'
    BY <1>0, <1>2 DEF Owners
  <1>4. Bare'
    BY <1>2 DEF Bare
  <1>5. Queues'
    BY <1>0, <1>2, BoundsAssumption DEF Queues
  <1>6. OfStream'
    BY <1>0, <1>2 DEF OfStream
  <1>7. Blank'
    BY <1>0, <1>2 DEF Blank
  <1>8. Painted'
    BY <1>2 DEF Painted
  <1>9. Current'
    BY <1>0 DEF Current, Alive
  <1>10. Counted'
    <2>1. \A w \in Windows : Queued(w)' = Queued(w)
      BY <1>2 DEF Queued, PicturesIn
    <2>2. QED
      BY <1>0, <1>2, <2>1 DEF Counted
  <1>11. QED
    BY <1>1, <1>2, <1>3, <1>4, <1>5, <1>6, <1>7, <1>8, <1>9, <1>10

\* What is said of the windows holds on when neither they nor what it refers to change.
LEMMA WindowsRest ==
    ASSUME PaneInv, UNCHANGED <<win, boxes, bitmaps>>
    PROVE  Things' /\ Bare' /\ Painted' /\ Counted'
  BY DEF PaneInv, Things, Bare, Painted, Counted, Queued

LEMMA InitializeKeeps ==
    ASSUME PaneInv, NEW f \in PaneFiles, InitializeWithStream(f) PROVE PaneInv'
  <1> USE DEF PaneInv
  <1>0. /\ stream = Nil /\ stream' = f /\ previewed' = FALSE /\ call = "none" /\ preview = "no" /\ life = "held"
        /\ UNCHANGED <<life, parent, bg, hwnd, ui_thread, pixels, preview, rx, call, joining, workers, win,
                       boxes, bitmaps>>
    BY DEF InitializeWithStream, Idle, frames, heap
  <1>1. Scalars' /\ Control'
    BY <1>0 DEF Scalars, Control
  <1>2. Things' /\ Bare' /\ Painted' /\ Counted'
    BY <1>0, WindowsRest
  <1>3. pixels = Nil /\ hwnd = Nil /\ joining = Nil
    BY <1>0 DEF Control
  <1>4. Owners' /\ Queues' /\ Blank' /\ Current'
    BY <1>0, <1>3 DEF Owners, Queues, Blank, Current, Alive
  <1>5. OfStream'
    BY <1>0, <1>3 DEF OfStream, Blank
  <1>6. QED
    BY <1>1, <1>2, <1>4, <1>5

LEMMA SetWindowKeeps == ASSUME PaneInv, SetWindow PROVE PaneInv'
  <1> USE DEF PaneInv
  <1>0. /\ parent' = TRUE
        /\ UNCHANGED <<life, stream, previewed, bg, hwnd, ui_thread, pixels, preview, rx, call, joining, workers,
                       win, boxes, bitmaps>>
    BY DEF SetWindow, frames, heap
  <1>1. Scalars' /\ Control'
    BY <1>0 DEF Scalars, Control
  <1>2. Things' /\ Bare' /\ Painted' /\ Counted'
    BY <1>0, WindowsRest
  <1>3. Owners' /\ Queues' /\ OfStream' /\ Blank'
    BY <1>0 DEF Owners, Queues, OfStream, Blank
  <1>4. Current'
    BY <1>0 DEF Current, Alive, Composite
  <1>5. QED
    BY <1>1, <1>2, <1>3, <1>4

LEMMA JoinedKeeps == ASSUME PaneInv, Joined PROVE PaneInv'
  <1> USE DEF PaneInv
  <1>0. /\ call # "none" /\ (joining # Nil => win[joining].is = "none") /\ call' = "none" /\ joining' = Nil
        /\ stream' = (IF call = "unload" /\ preview = "no" THEN Nil ELSE stream)
        /\ pixels' = (IF call = "site" THEN pixels ELSE Nil)
        /\ life' = (CASE call = "drop" -> "released" [] call = "unload" /\ preview # "no" -> "aborted" [] OTHER -> life)
        /\ UNCHANGED <<previewed, parent, bg, hwnd, ui_thread, preview, rx, workers, win, boxes, bitmaps>>
    BY DEF Joined, heap
  <1>1. hwnd = Nil /\ ui_thread = Nil /\ life = "held" /\ preview \in {"no", "source"}
    BY <1>0 DEF Control
  <1>2. \A w \in Windows : win[w].is = "none"
    BY <1>0, <1>1, NilAssumption DEF Owners, Things, WinRec
  <1>3. \A w \in Windows : win[w].queue = <<>> /\ win[w].rd = Nil /\ win[w].screen = Nil
    BY <1>2 DEF Bare
  <1>4. Scalars'
    BY <1>0, <1>1 DEF Scalars
  <1>5. Control'
    BY <1>0, <1>1 DEF Control, Scalars
  <1>6. Things' /\ Bare' /\ Painted' /\ Counted'
    BY <1>0, WindowsRest
  <1>7. Owners' /\ Blank'
    BY <1>0, <1>2, <1>3 DEF Owners, Blank
  <1>8. Queues'
    BY <1>0, <1>3, BoundsAssumption DEF Queues
  <1>9. OfStream'
    BY <1>0, <1>3 DEF OfStream, Control
  <1>10. Current'
    BY <1>0, <1>1 DEF Current, Alive
  <1>11. QED
    BY <1>4, <1>5, <1>6, <1>7, <1>8, <1>9, <1>10

\* The record of a window whose thread has just been started.
LEMMA Starting ==
    ASSUME NEW r, r = [NoWindow EXCEPT !.is = "creating"]
    PROVE  /\ r \in WinRec /\ r.is = "creating" /\ r.queue = <<>> /\ r.rd = Nil /\ r.screen = Nil
           /\ r.dirty = FALSE
  <1>1. NoWindow \in WinRec
    BY DEF NoWindow, WinRec
  <1>2. r \in WinRec /\ r.is = "creating"
    BY <1>1 DEF WinRec
  <1>3. r.queue = NoWindow.queue /\ r.rd = NoWindow.rd /\ r.screen = NoWindow.screen /\ r.dirty = NoWindow.dirty
    BY <1>1 DEF WinRec
  <1>4. QED
    BY <1>2, <1>3 DEF NoWindow

LEMMA DoPreviewKeeps == ASSUME PaneInv, DoPreview PROVE PaneInv'
  <1> USE DEF PaneInv
  <1>0. /\ life = "held" /\ call = "none" /\ preview = "no" /\ stream # Nil /\ ~previewed /\ previewed' = TRUE
        /\ UNCHANGED <<life, stream, parent, bg, hwnd, ui_thread, pixels, rx, call, joining, workers, boxes, bitmaps>>
    BY DEF DoPreview, Idle, heap
  <1>1. hwnd = Nil /\ pixels = Nil /\ joining = Nil /\ rx = "empty"
    BY <1>0 DEF Control
  <1>2. CASE UNCHANGED win /\ preview' = "no"
    <2>1. Scalars' /\ Control'
      BY <1>0, <1>1, <1>2 DEF Scalars, Control
    <2>2. Things' /\ Bare' /\ Painted' /\ Counted'
      BY <1>0, <1>2, WindowsRest
    <2>3. Owners' /\ Queues' /\ OfStream' /\ Blank' /\ Current'
      BY <1>0, <1>1, <1>2 DEF Owners, Queues, OfStream, Blank, Current, Alive
    <2>4. QED
      BY <2>1, <2>2, <2>3
  <1>3. ASSUME NEW w \in Windows, win[w].is = "none", preview' = "creating",
               win' = [win EXCEPT ![w] = [NoWindow EXCEPT !.is = "creating"]]
        PROVE  PaneInv'
    <2>0. \A v \in Windows : win[v].is = "none"
      BY <1>0, <1>1, NilAssumption DEF Owners, Things, WinRec
    <2>r. PICK r : r = [NoWindow EXCEPT !.is = "creating"]
      OBVIOUS
    <2>2. /\ r \in WinRec /\ r.is = "creating" /\ r.queue = <<>> /\ r.rd = Nil /\ r.screen = Nil
          /\ r.dirty = FALSE
      BY <2>r, Starting
    <2>1. win' = [win EXCEPT ![w] = r] /\ win'[w] = r /\ \A v \in Windows \ {w} : win'[v] = win[v]
      BY <1>3, <2>r DEF Things
    <2>3. Scalars' /\ Control'
      BY <1>0, <1>1, <1>3 DEF Scalars, Control
    <2>4. Things'
      BY <1>0, <2>1, <2>2 DEF Things
    <2>5. Owners'
      BY <1>0, <1>1, <1>3, <2>0, <2>1, <2>2 DEF Owners
    <2>6. Bare' /\ Painted'
      BY <2>1, <2>2 DEF Bare, Painted
    <2> \A v \in Windows : win'[v].queue = win[v].queue /\ win'[v].rd = win[v].rd /\ win'[v].screen = win[v].screen
      BY <2>0, <2>1, <2>2 DEF Bare
    <2>7. Queues'
      BY <1>0 DEF Queues
    <2>8. OfStream' /\ Blank'
      BY <1>0 DEF OfStream, Blank
    <2>9. Current'
      BY <1>0, <1>1 DEF Current, Alive
    <2>10. Counted'
      BY <1>0, <2>0, <2>1, <2>2 DEF Counted
    <2>11. QED
      BY <2>3, <2>4, <2>5, <2>6, <2>7, <2>8, <2>9, <2>10
  <1>4. QED
    BY <1>1, <1>2, <1>3 DEF DoPreview

LEMMA WindowReadyKeeps == ASSUME PaneInv, WindowReady PROVE PaneInv'
  <1> USE DEF PaneInv
  <1>0. /\ preview = "creating" /\ rx # "empty" /\ rx' = "empty"
        /\ UNCHANGED <<life, stream, previewed, parent, bg, pixels, call, joining, workers, win, boxes, bitmaps>>
    BY DEF WindowReady, heap
  <1>1. hwnd = Nil /\ ui_thread = Nil /\ pixels = Nil /\ joining = Nil /\ call = "none" /\ life # "released"
        /\ previewed /\ stream # Nil
    BY <1>0 DEF Control
  <1>2. \/ rx \in Windows /\ hwnd' = rx /\ ui_thread' = rx /\ preview' = "source"
        \/ rx \notin Windows /\ preview' = "no" /\ hwnd' = Nil /\ ui_thread' = Nil
    BY <1>1 DEF WindowReady
  <1>3. Scalars' /\ Control'
    BY <1>0, <1>1, <1>2, NilAssumption DEF Scalars, Control
  <1>4. Things' /\ Bare' /\ Painted' /\ Counted'
    BY <1>0, WindowsRest
  <1>5. Owners'
    BY <1>0, <1>1, <1>2, NilAssumption DEF Owners, Things, WinRec
  <1>6. Queues' /\ OfStream' /\ Blank'
    BY <1>0 DEF Queues, OfStream, Blank
  <1>7. Current'
    BY <1>0, <1>1 DEF Current
  <1>8. QED
    BY <1>3, <1>4, <1>5, <1>6, <1>7

\* Only the worker and where the preview is change.
LEMMA WorkerKeeps == ASSUME PaneInv, SourceBytes \/ LateAnswer PROVE PaneInv'
  <1> USE DEF PaneInv
  <1>0. UNCHANGED <<life, stream, previewed, parent, bg, hwnd, ui_thread, pixels, rx, call, joining, win, boxes, bitmaps>>
    BY DEF SourceBytes, LateAnswer, handler, heap
  <1>1. Scalars' /\ Control' /\ (preview' = "creating" <=> preview = "creating")
    <2>1. CASE SourceBytes
      BY <1>0, <2>1, BoundsAssumption DEF SourceBytes, Scalars, Control
    <2>2. CASE LateAnswer
      BY <1>0, <2>2, BoundsAssumption DEF LateAnswer, Scalars, Control
    <2>3. QED
      BY <2>1, <2>2
  <1>2. Things' /\ Bare' /\ Painted' /\ Counted'
    BY <1>0, WindowsRest
  <1>3. Owners' /\ Queues' /\ OfStream' /\ Blank'
    BY <1>0, <1>1 DEF Owners, Queues, OfStream, Blank
  <1>4. Current'
    BY <1>0 DEF Current, Alive, Composite
  <1>5. QED
    BY <1>1, <1>2, <1>3, <1>4

-----------------------------------------------------------------------------
(* The steps of a window's thread *)

\* One window changes; the handler's fields do not.
WindowOnly(w) ==
    /\ UNCHANGED <<life, stream, previewed, parent, bg, hwnd, ui_thread, pixels, preview, call, joining>>
    /\ \A v \in Windows \ {w} : win'[v] = win[v]

LEMMA CreatesKeeps ==
    ASSUME PaneInv, NEW w \in Windows, Creates(w) \/ CreateFails(w) PROVE PaneInv'
  <1> USE DEF PaneInv
  <1>0. /\ win[w].is = "creating" /\ rx = "empty" /\ preview = "creating" /\ rx' \in {w, "zero"}
        /\ hwnd = Nil /\ joining = Nil /\ call = "none" /\ pixels = Nil
        /\ UNCHANGED <<life, stream, previewed, parent, bg, hwnd, ui_thread, pixels, preview, call, joining,
                       workers, boxes, bitmaps>>
    BY DEF Creates, CreateFails, Owners, Control, handler, heap
  <1>1. /\ win' \in [Windows -> WinRec]
        /\ \A v \in Windows \ {w} : win'[v] = win[v]
        /\ win'[w].queue = <<>> /\ win'[w].rd = Nil /\ win'[w].screen = Nil
        /\ \/ win'[w].is = "alive" /\ rx' = w
           \/ win'[w].is = "none" /\ ~win'[w].dirty
    <2>q. win[w] \in WinRec /\ win[w].queue = <<>> /\ win[w].rd = Nil /\ win[w].screen = Nil
      BY <1>0 DEF Things, Bare
    <2>1. CASE Creates(w)
      <3>1. win' = [win EXCEPT ![w] = [win[w] EXCEPT !.is = "alive", !.dirty = TRUE]] /\ rx' = w
        BY <2>1 DEF Creates, Things
      <3> DEFINE r == [win[w] EXCEPT !.is = "alive", !.dirty = TRUE]
      <3>2. r.is = "alive" /\ r.queue = <<>> /\ r.rd = Nil /\ r.screen = Nil /\ r \in WinRec
        BY <2>q DEF WinRec
      <3> HIDE DEF r
      <3>3. win' = [win EXCEPT ![w] = r]
        BY <3>1 DEF r
      <3>4. QED
        BY <3>1, <3>2, <3>3 DEF Things
    <2>2. CASE CreateFails(w)
      <3>1. NoWindow \in WinRec /\ NoWindow.is = "none" /\ NoWindow.queue = <<>> /\ NoWindow.rd = Nil
            /\ NoWindow.screen = Nil /\ ~NoWindow.dirty
        BY DEF NoWindow, WinRec
      <3>2. QED
        BY <2>2, <3>1 DEF CreateFails, Things
    <2>3. QED
      BY <2>1, <2>2
  <1>q. \A v \in Windows : win'[v].queue = win[v].queue /\ win'[v].rd = win[v].rd /\ win'[v].screen = win[v].screen
    BY <1>0, <1>1 DEF Bare
  <1>2. Scalars'
    BY <1>0 DEF Scalars
  <1>3. Control'
    BY <1>0 DEF Control
  <1>4. Things'
    BY <1>0, <1>1 DEF Things
  <1>5. Owners'
    <2>1. \A v \in Windows \ {w} : win'[v].is = "none"
      BY <1>0, <1>1 DEF Owners
    <2>2. QED
      BY <1>0, <1>1, <2>1 DEF Owners
  <1>6. Bare' /\ Painted'
    BY <1>1 DEF Bare, Painted
  <1>7. Queues' /\ OfStream' /\ Blank'
    BY <1>0, <1>q DEF Queues, OfStream, Blank
  <1>8. Current'
    BY <1>0 DEF Current
  <1>9. Counted'
    <2>1. \A v \in Windows : win[v].is # "alive"
      BY <1>0 DEF Owners
    <2>2. boxes = 0 /\ bitmaps = 0
      BY <2>1 DEF Counted
    <2>3. \A v \in Windows : win[v].queue = <<>> /\ win[v].rd = Nil
      BY <2>1 DEF Bare
    <2>4. PicturesIn(<<>>) = 0
      <3>1. {i \in DOMAIN <<>> : <<>>[i] # "close"} = {}
        OBVIOUS
      <3>2. QED
        BY <3>1, FS_EmptySet DEF PicturesIn
    <2>5. Queued(w)' = 0 /\ \A v \in Windows \ {w} : win'[v].is # "alive"
      BY <1>1, <2>1, <2>4 DEF Queued, PicturesIn
    <2>6. QED
      BY <1>0, <1>1, <2>2, <2>5 DEF Counted
  <1>10. QED
    BY <1>2, <1>3, <1>4, <1>5, <1>6, <1>7, <1>8, <1>9

LEMMA RenderKeeps ==
    ASSUME PaneInv, NEW w \in Windows, Render(w) PROVE PaneInv'
  <1> USE DEF PaneInv
  <1>q. PICK q : q = win[w].queue
    OBVIOUS
  <1>m. PICK m : m = Head(q)
    OBVIOUS
  <1>t. PICK t : t = Tail(q)
    OBVIOUS
  <1>d. PICK rd : rd = IF m[1] \in Unpaintable THEN Nil ELSE m
    OBVIOUS
  <1>r. PICK r : r = [win[w] EXCEPT !.queue = t, !.rd = rd, !.dirty = TRUE]
    OBVIOUS
  <1>0. /\ win[w].is = "alive" /\ q # <<>> /\ m # "close"
        /\ bitmaps' = bitmaps + (IF rd # Nil THEN 1 ELSE 0) - (IF win[w].rd # Nil THEN 1 ELSE 0)
        /\ boxes' = boxes - 1
        /\ UNCHANGED <<life, stream, previewed, parent, bg, hwnd, ui_thread, pixels, preview, rx, call, joining, workers>>
    BY <1>q, <1>m, <1>d DEF Render, Alive, handler, frames
  <1>1. win' = [win EXCEPT ![w] = r]
    BY <1>q, <1>m, <1>t, <1>d, <1>r DEF Render, Things
  <1>2. win[w] \in WinRec /\ q \in Seq(Messages)
    BY <1>q DEF Things, WinRec
  <1>3. m \in Pictures /\ m = q[1] /\ m[1] = stream /\ 1 \in DOMAIN q
    <2>1. 1 \in DOMAIN q /\ m = q[1] /\ m \in Messages
      BY <1>0, <1>2, <1>m
    <2>2. QED
      BY <1>0, <1>q, <2>1 DEF Messages, OfStream
  <1>4. /\ t \in Seq(Messages) /\ Len(t) = Len(q) - 1
        /\ \A i \in DOMAIN t : i + 1 \in DOMAIN q /\ t[i] = q[i + 1]
        /\ \A i \in DOMAIN t : t[i] = "close" => i = Len(t) /\ w = joining
        /\ PicturesIn(q) = PicturesIn(t) + 1 /\ PicturesIn(q) \in Nat /\ PicturesIn(t) \in Nat
    <2>1. \A i \in DOMAIN q : q[i] = "close" => i = Len(q) /\ w = joining
      BY <1>q DEF Queues
    <2>2. QED
      BY <1>0, <1>2, <1>m, <1>t, <2>1, HeadLeaves
  <1>5. rd \in Pictures \union {Nil} /\ (rd # Nil => rd[1] = stream)
    BY <1>3, <1>d
  <1>6. r \in WinRec /\ r.is = "alive" /\ r.queue = t /\ r.rd = rd /\ r.screen = win[w].screen /\ r.dirty
    BY <1>0, <1>2, <1>4, <1>5, <1>r DEF WinRec
  <1>7. win' \in [Windows -> WinRec] /\ win'[w] = r /\ \A v \in Windows \ {w} : win'[v] = win[v]
    BY <1>1, <1>6 DEF Things
  <1>8. pixels # Nil /\ pixels = stream
    <2>1. pixels # Nil
      BY <1>0, <1>3, <1>q, <1>m DEF Blank
    <2>2. QED
      BY <2>1 DEF OfStream
  <1>9. \A v \in Windows : win'[v].is = win[v].is
    BY <1>0, <1>6, <1>7
  <1>p. boxes = PicturesIn(q) /\ bitmaps = IF win[w].rd # Nil THEN 1 ELSE 0
    BY <1>0, <1>q DEF Counted, Queued, PicturesIn
  <1>10. Scalars' /\ Control'
    BY <1>0 DEF Scalars, Control
  <1>11. Things'
    BY <1>0, <1>4, <1>7, <1>p DEF Things
  <1>12. Owners'
    BY <1>0, <1>9 DEF Owners
  <1>13. Bare'
    BY <1>0, <1>7, <1>9 DEF Bare
  <1>14. Queues'
    <2>1. Len(t) <= MaxQueue + (IF w = joining THEN 1 ELSE 0)
      <3>1. Len(q) <= MaxQueue + (IF w = joining THEN 1 ELSE 0)
        BY <1>q DEF Queues
      <3>2. QED
        BY <3>1, <1>2, <1>4, BoundsAssumption
    <2>2. QED
      BY <1>0, <1>4, <1>6, <1>7, <2>1 DEF Queues
  <1>15. OfStream'
    <2>1. \A i \in DOMAIN t : t[i] # "close" => t[i][1] = stream
      BY <1>4, <1>q DEF OfStream
    <2>2. QED
      BY <1>0, <1>5, <1>6, <1>7, <2>1 DEF OfStream
  <1>16. Blank'
    BY <1>0, <1>8 DEF Blank
  <1>17. Painted'
    BY <1>6, <1>7 DEF Painted
  <1>18. Current'
    <2>1. CASE hwnd # w
      BY <1>0, <1>7, <2>1 DEF Current, Alive, Composite, Scalars
    <2>2. CASE hwnd = w
      <3>1. q[Len(q)] = <<pixels, bg>>
        BY <1>0, <1>8, <1>q, <2>2, NilAssumption DEF Current, Alive
      <3>2. CASE t = <<>>
        <4>1. Len(q) = 1
          BY <1>2, <1>4, <3>2
        <4>2. m = <<pixels, bg>> /\ m[1] = pixels /\ pixels \in PaneFiles
          BY <1>3, <1>8, <3>1, <4>1 DEF Scalars
        <4>3. rd = Composite(pixels)
          BY <4>2, <1>d DEF Composite
        <4>4. Composite(pixels)' = Composite(pixels)
          BY <1>0 DEF Composite
        <4>5. QED
          BY <1>0, <1>6, <1>7, <2>2, <3>2, <4>3, <4>4 DEF Current
      <3>3. CASE t # <<>>
        <4>1. t[Len(t)] = q[Len(q)] /\ win'[hwnd].queue = t
          BY <1>2, <1>4, <1>6, <1>7, <2>2, <3>3
        <4>2. QED
          BY <1>0, <2>2, <3>1, <3>3, <4>1 DEF Current
      <3>4. QED
        BY <3>2, <3>3
    <2>3. QED
      BY <2>1, <2>2
  <1>19. Counted'
    <2>1. Queued(w)' = PicturesIn(t)
      BY <1>6, <1>7 DEF Queued, PicturesIn
    <2>2. \A v \in Windows : win'[v].is = "alive" => v = w
      BY <1>0, <1>9 DEF Owners
    <2>4. boxes' = Queued(w)'
      BY <1>0, <1>4, <1>p, <2>1
    <2>5. bitmaps' = IF win'[w].rd # Nil THEN 1 ELSE 0
      BY <1>0, <1>6, <1>7, <1>p
    <2>6. QED
      BY <1>0, <1>9, <2>2, <2>4, <2>5 DEF Counted, Queued
  <1>20. QED
    BY <1>10, <1>11, <1>12, <1>13, <1>14, <1>15, <1>16, <1>17, <1>18, <1>19

LEMMA PaintKeeps ==
    ASSUME PaneInv, NEW w \in Windows, Paint(w) PROVE PaneInv'
  <1> USE DEF PaneInv
  <1>0. /\ win[w].is = "alive" /\ win' = [win EXCEPT ![w].dirty = FALSE, ![w].screen = win[w].rd]
        /\ UNCHANGED <<life, stream, previewed, parent, bg, hwnd, ui_thread, pixels, preview, rx, call, joining,
                       workers, boxes, bitmaps>>
    BY DEF Paint, Alive, handler, frames, heap
  <1>r. PICK r : r = [win[w] EXCEPT !.dirty = FALSE, !.screen = win[w].rd]
    OBVIOUS
  <1>1. win' = [win EXCEPT ![w] = r] /\ win[w] \in WinRec
    BY <1>0, <1>r DEF Things
  <1>2. r \in WinRec /\ r.is = win[w].is /\ r.queue = win[w].queue /\ r.rd = win[w].rd /\ r.screen = win[w].rd
    BY <1>1, <1>r DEF WinRec
  <1>3. win' \in [Windows -> WinRec] /\ win'[w] = r /\ \A v \in Windows \ {w} : win'[v] = win[v]
    BY <1>1, <1>2 DEF Things
  <1>4. \A v \in Windows : win'[v].is = win[v].is /\ win'[v].queue = win[v].queue /\ win'[v].rd = win[v].rd
    BY <1>2, <1>3
  <1>5. Scalars' /\ Control'
    BY <1>0 DEF Scalars, Control
  <1>6. Things'
    BY <1>0, <1>3 DEF Things
  <1>7. Owners'
    BY <1>0, <1>4 DEF Owners
  <1>8. Bare'
    BY <1>0, <1>2, <1>3 DEF Bare
  <1>9. Queues'
    <2>1. joining' = joining
      BY <1>0
    <2>2. QED
      BY <1>4, <2>1 DEF Queues
  <1>10. OfStream' /\ Blank'
    BY <1>0, <1>2, <1>3 DEF OfStream, Blank
  <1>11. Painted'
    BY <1>2, <1>3 DEF Painted
  <1>12. Current'
    <2>1. Composite(pixels)' = Composite(pixels) /\ (Alive(hwnd)' => Alive(hwnd) /\ hwnd \in Windows)
      BY <1>0, <1>4 DEF Composite, Alive, Scalars
    <2>2. QED
      BY <1>0, <1>4, <2>1 DEF Current
  <1>13. Counted'
    <2>1. \A v \in Windows : Queued(v)' = Queued(v)
      BY <1>4 DEF Queued
    <2>2. QED
      BY <1>0, <1>4, <2>1 DEF Counted
  <1>14. QED
    BY <1>5, <1>6, <1>7, <1>8, <1>9, <1>10, <1>11, <1>12, <1>13

\* A window whose thread ends, or is destroyed: it holds nothing any more.
LEMMA GoneKeeps ==
    ASSUME PaneInv, NEW w \in Windows, NEW r \in WinRec, win' = [win EXCEPT ![w] = r],
           r.queue = <<>>, r.rd = Nil, r.screen = Nil, r.dirty = FALSE,
           \/ win[w].is = "alive" /\ r.is = "quitting"
           \/ win[w].is = "quitting" /\ r.is = "none",
           UNCHANGED <<life, stream, previewed, parent, bg, hwnd, ui_thread, pixels, preview, rx, call, joining,
                       workers>>,
           boxes' = 0, bitmaps' = 0
    PROVE  PaneInv'
  <1> USE DEF PaneInv
  <1>1. win' \in [Windows -> WinRec] /\ win'[w] = r /\ \A v \in Windows \ {w} : win'[v] = win[v]
    BY DEF Things
  <1>2. \A v \in Windows \ {w} : win[v].is = "none"
    BY DEF Owners, Things, WinRec
  <1>3. Scalars'
    BY DEF Scalars
  <1>4. Control'
    BY DEF Control
  <1>5. Things'
    BY <1>1 DEF Things
  <1>6. Owners'
    <2>1. \A v \in Windows \ {w} : win'[v].is = "none"
      BY <1>1, <1>2
    <2>2. w = hwnd \/ w = joining \/ (preview = "creating" /\ rx = w)
      BY DEF Owners
    <2>3. QED
      BY <1>1, <2>1, <2>2 DEF Owners
  <1>7. Bare' /\ Painted'
    BY <1>1 DEF Bare, Painted
  <1>q. \A v \in Windows : win'[v].queue = <<>> /\ win'[v].rd = Nil /\ win'[v].screen = Nil
    BY <1>1, <1>2 DEF Bare
  <1>8. Queues'
    BY <1>q, BoundsAssumption DEF Queues
  <1>9. OfStream' /\ Blank'
    BY <1>q DEF OfStream, Blank
  <1>a. \A v \in Windows : win'[v].is # "alive"
    BY <1>1, <1>2
  <1>10. Current'
    <2>1. ~Alive(hwnd)'
      BY <1>a, <1>3 DEF Alive, Scalars
    <2>2. QED
      BY <2>1 DEF Current
  <1>11. Counted'
    BY <1>a DEF Counted
  <1>12. QED
    BY <1>3, <1>4, <1>5, <1>6, <1>7, <1>8, <1>9, <1>10, <1>11

\* The record of a window that is no more.
LEMMA Quitting ==
    ASSUME NEW r, r = [NoWindow EXCEPT !.is = "quitting"]
    PROVE  /\ r \in WinRec /\ r.is = "quitting" /\ r.queue = <<>> /\ r.rd = Nil /\ r.screen = Nil
           /\ r.dirty = FALSE
  <1>1. NoWindow \in WinRec
    BY DEF NoWindow, WinRec
  <1>2. r \in WinRec /\ r.is = "quitting"
    BY <1>1 DEF WinRec
  <1>3. r.queue = NoWindow.queue /\ r.rd = NoWindow.rd /\ r.screen = NoWindow.screen /\ r.dirty = NoWindow.dirty
    BY <1>1 DEF WinRec
  <1>4. QED
    BY <1>2, <1>3 DEF NoWindow

\* WM_PREVIEW_CLOSE, and the host's own destruction of the pane.
LEMMA DestroyedKeeps ==
    ASSUME PaneInv, NEW w \in Windows, Close(w) \/ HostDestroysPane(w) PROVE PaneInv'
  <1> USE DEF PaneInv
  <1>0. /\ win[w].is = "alive" /\ Destroyed(w)
        /\ UNCHANGED <<life, stream, previewed, parent, bg, hwnd, ui_thread, pixels, preview, rx, call, joining,
                       workers>>
    BY DEF Close, HostDestroysPane, Alive, handler, frames
  <1>r. PICK r : r = [NoWindow EXCEPT !.is = "quitting"]
    OBVIOUS
  <1>1. /\ r \in WinRec /\ r.is = "quitting" /\ r.queue = <<>> /\ r.rd = Nil /\ r.screen = Nil
        /\ r.dirty = FALSE
    BY <1>r, Quitting
  <1>2. win' = [win EXCEPT ![w] = r]
    BY <1>0, <1>r DEF Destroyed
  <1>3. boxes = Queued(w) /\ bitmaps = IF win[w].rd # Nil THEN 1 ELSE 0
    BY <1>0 DEF Counted
  <1>4. bitmaps' = 0
    BY <1>0, <1>3 DEF Destroyed
  <1>5. boxes' = 0
    <2>1. CASE Close(w)
      <3>q. PICK q : q = win[w].queue
        OBVIOUS
      <3>1. q \in Seq(Messages) /\ q # <<>> /\ Head(q) = "close" /\ boxes' = boxes
        BY <2>1, <3>q DEF Close, Things, WinRec
      <3>2. 1 \in DOMAIN q /\ q[1] = "close"
        BY <3>1
      <3>3. 1 = Len(q)
        BY <3>2, <3>q DEF Queues
      <3>4. {i \in DOMAIN q : q[i] # "close"} = {}
        BY <3>1, <3>2, <3>3
      <3>5. QED
        BY <1>3, <3>1, <3>4, <3>q, FS_EmptySet DEF Queued
    <2>2. CASE HostDestroysPane(w)
      <3>1. boxes' = boxes - Queued(w) /\ boxes \in Nat
        BY <2>2 DEF HostDestroysPane, Things
      <3>2. QED
        BY <1>3, <3>1
    <2>3. QED
      BY <2>1, <2>2
  <1>6. QED
    BY <1>0, <1>1, <1>2, <1>4, <1>5, GoneKeeps

LEMMA ThreadEndsKeeps ==
    ASSUME PaneInv, NEW w \in Windows, ThreadEnds(w) PROVE PaneInv'
  <1> USE DEF PaneInv
  <1>0. /\ win[w].is = "quitting" /\ win' = [win EXCEPT ![w] = NoWindow]
        /\ UNCHANGED <<life, stream, previewed, parent, bg, hwnd, ui_thread, pixels, preview, rx, call, joining,
                       workers, boxes, bitmaps>>
    BY DEF ThreadEnds, handler, frames, heap
  <1>1. NoWindow \in WinRec /\ NoWindow.queue = <<>> /\ NoWindow.rd = Nil /\ NoWindow.screen = Nil
        /\ NoWindow.dirty = FALSE /\ NoWindow.is = "none"
    BY DEF NoWindow, WinRec
  <1>2. \A v \in Windows : win[v].is # "alive"
    BY <1>0 DEF Owners
  <1>3. boxes = 0 /\ bitmaps = 0
    BY <1>2 DEF Counted
  <1>4. QED
    BY <1>0, <1>1, <1>3, GoneKeeps

-----------------------------------------------------------------------------
(* The theorems *)

LEMMA PaneStep == PaneInv /\ [PaneNext]_paneVars => PaneInv'
  <1> SUFFICES ASSUME PaneInv, [PaneNext]_paneVars PROVE PaneInv'
    OBVIOUS
  <1>1. CASE HostCalls /\ life # "aborted"
    <2>1. ASSUME NEW f \in PaneFiles, InitializeWithStream(f) PROVE PaneInv'
      BY <2>1, InitializeKeeps
    <2>2. CASE SetWindow
      BY <2>2, SetWindowKeeps
    <2>3. ASSUME NEW c \in Shades, SetBackgroundColor(c) PROVE PaneInv'
      BY <1>1, <2>3, SetBackgroundColorKeeps
    <2>4. CASE Detach
      <3>1. Callable /\ destroy_window("site")
            /\ UNCHANGED <<life, stream, previewed, parent, bg, pixels, preview, rx, workers, heap>>
        BY <2>4 DEF Detach
      <3>2. QED
        BY <3>1, DestroyKeeps
    <2>5. CASE PaneUnload
      <3>1. Callable /\ destroy_window("unload")
            /\ UNCHANGED <<life, stream, previewed, parent, bg, pixels, preview, rx, workers, heap>>
        BY <2>5 DEF PaneUnload
      <3>2. QED
        BY <3>1, DestroyKeeps
    <2>6. CASE Release
      <3>1. Callable /\ destroy_window("drop") /\ preview = "no"
            /\ UNCHANGED <<life, stream, previewed, parent, bg, pixels, preview, rx, workers, heap>>
        BY <2>6 DEF Release, Idle, Callable
      <3>2. QED
        BY <3>1, DestroyKeeps
    <2>7. CASE DoPreview
      BY <2>7, DoPreviewKeeps
    <2>8. QED
      BY <1>1, <2>1, <2>2, <2>3, <2>4, <2>5, <2>6, <2>7 DEF HostCalls
  <1>2. CASE ComStep
    BY <1>2, JoinedKeeps, WindowReadyKeeps, DecodedKeeps, BudgetKeeps DEF ComStep
  <1>3. CASE SourceEnds \/ LateAnswer
    BY <1>3, SourceKeeps, WorkerKeeps DEF SourceEnds
  <1>4. ASSUME NEW w \in Windows, UiStep(w) \/ HostDestroysPane(w) PROVE PaneInv'
    BY <1>4, CreatesKeeps, RenderKeeps, PaintKeeps, DestroyedKeeps, ThreadEndsKeeps DEF UiStep
  <1>5. CASE UNCHANGED paneVars
    <2>1. UNCHANGED <<life, stream, previewed, parent, bg, hwnd, ui_thread, pixels, preview, rx, call, joining,
                      workers, win, boxes, bitmaps>>
      BY <1>5 DEF paneVars, handler, frames, heap
    <2>2. Things' /\ Bare' /\ Painted' /\ Counted'
      BY <2>1, WindowsRest
    <2>3. Scalars' /\ Control' /\ Owners' /\ Queues' /\ OfStream' /\ Blank'
      BY <2>1 DEF PaneInv, Scalars, Control, Owners, Queues, OfStream, Blank
    <2>4. Current'
      BY <2>1 DEF PaneInv, Current, Alive, Composite
    <2>5. QED
      BY <2>2, <2>3, <2>4 DEF PaneInv
  <1>6. QED
    BY <1>1, <1>2, <1>3, <1>4, <1>5 DEF PaneNext

LEMMA PaneAlways == PaneSpec => []PaneInv
  BY InitPane, PaneStep, PTL DEF PaneSpec

\* The fields, the windows and the frames of the COM thread stay well formed.
THEOREM PaneTypes == PaneSpec => []PaneTypeOK
  <1>1. PaneInv => PaneTypeOK
    BY DEF PaneInv, Scalars, Things, WinRec, PaneTypeOK
  <1>2. QED
    BY <1>1, PaneAlways, PTL

\* When the handler is at rest and its window has nothing left to do, the pane shows the last
\* decoded picture over the last background (post_render and WM_PREVIEW_RENDER in order).
THEOREM PaneShowsTheLast == PaneSpec => []PaneIsCurrent
  <1>1. PaneInv => PaneIsCurrent
    <2> SUFFICES ASSUME PaneInv, Alive(hwnd), win[hwnd].queue = <<>>, ~win[hwnd].dirty
                 PROVE win[hwnd].screen = Composite(pixels)
      BY DEF PaneIsCurrent
    <2>1. hwnd \in Windows /\ win[hwnd].screen = win[hwnd].rd
      BY DEF PaneInv, Scalars, Painted, Alive
    <2>2. CASE pixels = Nil
      BY <2>1, <2>2, NilAssumption DEF PaneInv, Blank, Composite
    <2>3. CASE pixels # Nil
      BY <2>1, <2>3 DEF PaneInv, Current
    <2>4. QED
      BY <2>2, <2>3
  <1>2. QED
    BY <1>1, PaneAlways, PTL

\* A pane never shows a file other than the one the host has initialised with: Unload takes
\* the window down, on its own thread, before the next file comes (destroy_window).
THEOREM PaneShowsItsFile == PaneSpec => []NeverAnotherFile
  <1>1. PaneInv => NeverAnotherFile
    <2> SUFFICES ASSUME PaneInv, NEW w \in Windows, Alive(w), win[w].screen # Nil
                 PROVE win[w].screen[1] = stream
      BY DEF NeverAnotherFile
    <2>1. QED
      BY DEF PaneInv, OfStream
  <1>2. QED
    BY <1>1, PaneAlways, PTL

\* Nothing outlives its owner: a released handler has no window or thread left, every render
\* payload waits in the queue of a living window and every bitmap belongs to one.
THEOREM PaneLeaksNothing == PaneSpec => []NothingLeaks
  <1>1. PaneInv => NothingLeaks
    <2> SUFFICES ASSUME PaneInv PROVE NothingLeaks
      OBVIOUS
    <2> USE DEF PaneInv
    <2> DEFINE P == {p \in Windows \X (1..(MaxQueue + 1)) :
                       p[2] \in DOMAIN win[p[1]].queue /\ win[p[1]].queue[p[2]] # "close"}
               B == {w \in Windows : win[w].rd # Nil}
    <2>1. ASSUME life = "released" PROVE \A w \in Windows : win[w].is = "none"
      <3>1. hwnd = Nil /\ call = "none" /\ joining = Nil /\ preview = "no"
        BY <2>1 DEF Control
      <3>2. QED
        BY <3>1, NilAssumption DEF Owners, Things, WinRec
    <2>2. CASE \A w \in Windows : win[w].is # "alive"
      <3>1. boxes = 0 /\ bitmaps = 0
        BY <2>2 DEF Counted
      <3>2. \A w \in Windows : win[w].queue = <<>> /\ win[w].rd = Nil
        BY <2>2 DEF Bare
      <3>3. B = {}
        BY <3>2
      <3>4. P = {}
        <4>1. \A p \in Windows \X (1..(MaxQueue + 1)) : win[p[1]].queue = <<>>
          BY <3>2
        <4>2. QED
          BY <4>1
      <3>5. Cardinality(P) = 0 /\ Cardinality(B) = 0
        BY <3>3, <3>4, FS_EmptySet
      <3>6. QED
        BY <2>1, <3>1, <3>5 DEF NothingLeaks
    <2>3. ASSUME NEW w \in Windows, win[w].is = "alive" PROVE NothingLeaks
      <3>1. \A v \in Windows \ {w} : win[v].queue = <<>> /\ win[v].rd = Nil
        BY <2>3 DEF Owners, Bare
      <3>2. boxes = Queued(w) /\ bitmaps = IF win[w].rd # Nil THEN 1 ELSE 0
        BY <2>3 DEF Counted
      <3>3. Cardinality(B) = bitmaps
        <4>1. B = IF win[w].rd # Nil THEN {w} ELSE {}
          BY <3>1
        <4>2. Cardinality({w}) = 1 /\ Cardinality({}) = 0
          BY FS_Singleton, FS_EmptySet
        <4>3. QED
          BY <3>2, <4>1, <4>2
      <3> HIDE DEF B
      <3>4. Cardinality(P) = boxes
        <4>q. PICK q : q = win[w].queue
          OBVIOUS
        <4> DEFINE I == {i \in DOMAIN q : q[i] # "close"}
                   f == [i \in I |-> <<w, i>>]
        <4>1. q \in Seq(Messages) /\ Len(q) <= MaxQueue + 1 /\ Len(q) \in Nat
          BY <4>q, BoundsAssumption DEF Things, WinRec, Queues
        <4>2. I \subseteq 1..(MaxQueue + 1)
          BY <4>1, BoundsAssumption
        <4>3. \A p \in Windows \X (1..(MaxQueue + 1)) : p \in P <=> p[1] = w /\ p[2] \in I
          BY <3>1, <4>q
        <4>4. P \subseteq Windows \X (1..(MaxQueue + 1))
          OBVIOUS
        <4> HIDE DEF P, I
        <4>5. \A i \in I : f[i] = <<w, i>> /\ f[i] \in P
          BY <4>2, <4>3
        <4>6. f \in Bijection(I, P)
          <5>1. f \in [I -> P]
            BY <4>5
          <5>2. \A i, j \in I : f[i] = f[j] => i = j
            BY <4>5
          <5>3. \A p \in P : \E i \in I : f[i] = p
            <6> SUFFICES ASSUME NEW p \in P PROVE f[p[2]] = p /\ p[2] \in I
              OBVIOUS
            <6>1. p \in Windows \X (1..(MaxQueue + 1)) /\ p[1] = w /\ p[2] \in I
              BY <4>3, <4>4
            <6>2. p = <<w, p[2]>>
              BY <6>1
            <6>3. QED
              BY <6>1, <6>2, <4>5
          <5> HIDE DEF f
          <5>4. IsInjective(f)
            BY <5>1, <5>2 DEF IsInjective
          <5>5. QED
            BY <5>1, <5>3, <5>4 DEF Bijection, Injection, Surjection
        <4>7. IsFiniteSet(I)
          <5>1. IsFiniteSet(1..(MaxQueue + 1))
            BY FS_Interval, BoundsAssumption
          <5>2. QED
            BY <4>2, <5>1, FS_Subset
        <4>8. Cardinality(I) = Cardinality(P)
          BY <4>6, <4>7, FS_Bijection DEF ExistsBijection
        <4>9. Queued(w) = Cardinality(I)
          BY <4>q DEF Queued, I
        <4>10. QED
          BY <3>2, <4>8, <4>9
      <3>5. QED
        BY <2>1, <3>2, <3>3, <3>4 DEF NothingLeaks, B
    <2>4. QED
      BY <2>2, <2>3
  <1>2. QED
    BY <1>1, PaneAlways, PTL
=============================================================================
