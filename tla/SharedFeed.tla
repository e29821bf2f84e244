------------------------------- MODULE SharedFeed -------------------------------
(***************************************************************************)
(* The shared traffic feed: finished reports that another project reads.   *)
(* One KV blob, read whole and written back whole by runSharedFeedPersist, *)
(* which every consumer calls after its broadcast, with one product or     *)
(* none, and every cron run, with none.                                    *)
(*                                                                         *)
(* A session is one such call.  The key exists from the start: the very    *)
(* first cron run has written it.  Text, road and type go with the         *)
(* content; createdAt is never read.                                       *)
(***************************************************************************)
EXTENDS Integers, FiniteSets

CONSTANTS
    Session,    \* consumers and cron runs
    Event,      \* eventIdOf an event: source:rawId
    Content,    \* fingerprintOf an event
    NoProduct,  \* the session has no product
    NoImage,    \* a product or an entry has no image
    Rank,       \* Rank[e]: the place of e in the order of the ids
    Retention,  \* RETENTION_MINUTES
    ImageTTL,   \* PUBLISHED_IMAGE_TTL_SECONDS
    MaxStored,  \* MAX_STORED_EVENTS
    Faults,     \* the kinds of fault that may happen
    MaxFaults   \* bound: how many faults happen in a behaviour

VARIABLES
    pc,         \* pc[s]: where session s is
    faults,     \* faults that have happened
    now,
    feed,       \* the stored entries
    feedCopy,   \* feedCopy[s]: the entries as session s has read them
    product,    \* product[s]: what session s has to add
    latest,     \* history: latest[e]: the product last stored for e
    unread,     \* history: unread[s]: events stored since s has read
    shaky       \* history: events a blob written over, or the cap, may have hit

-----------------------------------------------------------------------------
(* State *)

Image   == {NoImage} \cup [of : Content, until : Nat]
Entry   == [event : Event, content : Content, image : Image, updated : Nat]
Product == [event : Event, content : Content, image : Image]

FeedTypeOK ==
    /\ now \in Nat /\ faults \in 0..MaxFaults
    /\ feed \subseteq Entry
    /\ \A x, y \in feed : x.event = y.event => x = y
    /\ feedCopy \in [Session -> SUBSET Entry]
    /\ product \in [Session -> Product \cup {NoProduct}]
    /\ latest \in [Event -> Entry \cup {NoProduct}]
    /\ unread \in [Session -> SUBSET Event] /\ shaky \subseteq Event

FeedInit ==
    /\ feed = {}
    /\ feedCopy = [s \in Session |-> {}]
    /\ product = [s \in Session |-> NoProduct]
    /\ latest = [e \in Event |-> NoProduct]
    /\ unread = [s \in Session |-> {}] /\ shaky = {}

Goto(s, place) == pc' = [pc EXCEPT ![s] = place]

\* The session is over, and with it what it has read.
EndFeed(s) ==
    /\ Goto(s, "done")
    /\ feedCopy' = [feedCopy EXCEPT ![s] = {}]
    /\ product' = [product EXCEPT ![s] = NoProduct]

Fault(kind) ==
    /\ kind \in Faults
    /\ faults < MaxFaults
    /\ faults' = faults + 1

-----------------------------------------------------------------------------
(* buildSharedFeedEvents *)

\* Mutant: the fingerprint is not looked at.
CarriedAnyway(s) ==
    {x \in feedCopy[s] : x.event = product[s].event /\ x.image # NoImage /\ x.image.until > now}

\* isStoredImageStillValid: the entry whose image a product without one goes on with.
Carried(s) ==
    {x \in feedCopy[s] : /\ x.event = product[s].event /\ x.content = product[s].content
                         /\ x.image # NoImage /\ x.image.until > now}

Unchanged(s) == {x \in feedCopy[s] : x.event = product[s].event /\ x.content = product[s].content}

\* Mutant: updatedAt advances with every run.
Restamped(s) == now

\* updatedAt only advances when the content has changed.
UpdatedAt(s) == IF Unchanged(s) = {} THEN now ELSE (CHOOSE x \in Unchanged(s) : TRUE).updated

EntryOf(s) ==
    [event |-> product[s].event, content |-> product[s].content, updated |-> UpdatedAt(s),
     image |-> IF product[s].image # NoImage THEN product[s].image
               ELSE IF Carried(s) # {} THEN (CHOOSE x \in Carried(s) : TRUE).image
               ELSE NoImage]

Own(s) == IF product[s] = NoProduct THEN {} ELSE {EntryOf(s)}

\* Mutant: the entry this run has replaced is kept as well.
AllRetained(s) == {x \in feedCopy[s] : now - x.updated <= Retention}

\* Entries of events this run did not produce stay until updatedAt is too old.
Retained(s) ==
    {x \in feedCopy[s] : /\ \A y \in Own(s) : x.event # y.event
                         /\ now - x.updated <= Retention}

\* sortNewestFirst, then the first MAX_STORED_EVENTS.
Before(x, y) ==
    x.updated > y.updated \/ (x.updated = y.updated /\ Rank[x.event] < Rank[y.event])

Newest(entries) ==
    {x \in entries : Cardinality({y \in entries : Before(y, x)}) < MaxStored}

NextFeed(s) == Newest(Own(s) \cup Retained(s))

-----------------------------------------------------------------------------
(* runSharedFeedPersist *)

\* A broadcast ends with a completed product, with or without an image, or none.
Complete(s) ==
    /\ pc[s] = "off"
    /\ \E e \in Event, c \in Content :
          \E i \in {NoImage, [of |-> c, until |-> now + ImageTTL]} :
              product' = [product EXCEPT ![s] = [event |-> e, content |-> c, image |-> i]]
    /\ Goto(s, "feeding")
    /\ UNCHANGED <<faults, feed, feedCopy, latest, unread, shaky>>

\* When the feed cannot be read nothing is written.
ReadFeed(s) ==
    /\ pc[s] = "feeding"
    /\ \/ /\ feedCopy' = [feedCopy EXCEPT ![s] = feed]
          /\ Goto(s, "writing")
          /\ UNCHANGED <<product, faults>>
       \/ Fault("read") /\ EndFeed(s)
    /\ UNCHANGED <<feed, latest, unread, shaky>>

\* What is known of the product of s once it is stored.
LatestAfter(s) ==
    LET p    == product[s]
        same == latest[p.event] # NoProduct /\ latest[p.event].content = p.content
    IN  [event |-> p.event, content |-> p.content,
         image |-> IF p.image = NoImage /\ same THEN latest[p.event].image ELSE p.image,
         updated |-> IF same THEN latest[p.event].updated ELSE now]

Of(entries) == {x.event : x \in entries}

\* Events stored since s has read: its blob goes over all of them, and when it writes
\* nothing its own product may be among them.
Overlapped(s) == IF NextFeed(s) = feedCopy[s] THEN unread[s] \cap Of(Own(s)) ELSE unread[s]

CappedOff(s) == Of((Own(s) \cup Retained(s)) \ NextFeed(s))

\* persistSharedFeed, unless the blob would stay as it was read.
WriteFeed(s) ==
    /\ pc[s] = "writing"
    /\ \/ /\ feed' = IF NextFeed(s) = feedCopy[s] THEN feed ELSE NextFeed(s)
          /\ latest' = IF product[s] = NoProduct THEN latest
                       ELSE [latest EXCEPT ![product[s].event] = LatestAfter(s)]
          /\ unread' = [q \in Session |->
                            IF q = s THEN {}
                            ELSE IF pc[q] = "writing" THEN unread[q] \cup Of(Own(s)) ELSE unread[q]]
          /\ shaky' = shaky \cup Overlapped(s) \cup CappedOff(s)
          /\ UNCHANGED faults
       \/ /\ Fault("write")
          /\ unread' = [unread EXCEPT ![s] = {}]
          /\ UNCHANGED <<feed, latest, shaky>>
    /\ EndFeed(s)

\* An invocation is lost.
DieInFeed(s) ==
    /\ pc[s] \in {"feeding", "writing"}
    /\ Fault("die")
    /\ unread' = [unread EXCEPT ![s] = {}]
    /\ EndFeed(s)
    /\ UNCHANGED <<feed, latest, shaky>>

FeedStep(s) == Complete(s) \/ ReadFeed(s) \/ WriteFeed(s) \/ DieInFeed(s)

-----------------------------------------------------------------------------
(* Properties *)

\* A finished report stays in the feed for its retention, with the moment its content
\* came up ("jitter-free", sharedFeed.js) and with its image as long as that is valid,
\* through other reports, quiet runs and failures, unless a session that had not read
\* it wrote the blob, or the cap dropped it.
FeedIsTrue ==
    \A e \in Event \ shaky :
        latest[e] # NoProduct /\ now - latest[e].updated <= Retention
            => \E x \in feed :
                  /\ x.event = e /\ x.content = latest[e].content
                  /\ x.updated = latest[e].updated
                  /\ latest[e].image # NoImage /\ latest[e].image.until > now
                        => x.image = latest[e].image

\* No image of an earlier content is shown with a later one, whatever was written over.
ImageFitsContent == \A x \in feed : x.image # NoImage => x.image.of = x.content

=============================================================================
