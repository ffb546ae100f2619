------------------------------ MODULE Listings ------------------------------
(***************************************************************************)
(* Reading lists: RequestsService.list with its growing search radius, the *)
(* list of bookings, and the page count of the response envelope.  Every   *)
(* rung of the search counts and then reads, in two statements, while      *)
(* requests are created, taken and ended.                                  *)
(*                                                                         *)
(* Requests are numbered as they are created, and listed newest first.  A  *)
(* request that is BOOKED has a booking; bookings are listed by their id,  *)
(* a fixed order too, for which the number of the request stands.          *)
(***************************************************************************)
EXTENDS Sequences, FiniteSetsExt

CONSTANTS
  MaxListed,   \* bound: requests ever created
  Owner,       \* the client of each request
  Carrier,     \* the driver of its booking, once it has one
  Distance,    \* H3 distance of its pickup from the search's anchor
  Queries      \* what clients and drivers ask

Items == 1 .. MaxListed

(* The DTO bounds what may be asked: @Min(1) page and limit, @Max(8) k.    *)
ASSUME ListingsAssumption ==
  /\ MaxListed \in Nat
  /\ Distance \in [Items -> Nat]
  /\ Queries # {}
  /\ \A q \in Queries :
       /\ q.near \in BOOLEAN /\ q.k \in 0 .. 8
       /\ q.page \in Nat \ {0} /\ q.limit \in Nat \ {0}

K_LADDER == {2, 4, 6, 8}   \* walked upwards

VARIABLES
  status,    \* of each request; NONE before it is created
  query,     \* the list call under way or answered last
  rungs,     \* radii still to be tried, none when the call is answered
  counted,   \* the count of this rung has been read
  total, items, kUsed,
  stayed     \* history: requests the query may see, since it began

listVars == <<status, query, rungs, counted, total, items, kUsed, stayed>>

-----------------------------------------------------------------------------
(* Who sees a request: its client, and any driver while it takes bids.     *)
Visible(q) ==
  {r \in Items :
     /\ status[r] # "NONE"
     /\ q.role = "CLIENT" => Owner[r] = q.user
     /\ q.role = "DRIVER" => status[r] \in {"OPEN", "BIDDING"}
     /\ q.status # "ANY" => status[r] = q.status}

VisibleBookings(q) ==
  {r \in Items :
     /\ status[r] \in {"BOOKED", "DELIVERED"}
     /\ q.role = "CLIENT" => Owner[r] = q.user
     /\ q.role = "DRIVER" => Carrier[r] = q.user
     /\ q.status # "ANY" => status[r] = q.status}

Within(S, k) == {r \in S : Distance[r] <= k}
Matching(q, k) == IF q.near THEN Within(Visible(q), k) ELSE Visible(q)

Sorted(S, before(_, _)) ==
  CHOOSE s \in [1 .. Cardinality(S) -> S] :
    \A i, j \in 1 .. Cardinality(S) : i < j => before(s[i], s[j])

Newer(a, b) == a > b
NewestFirst(S) == Sorted(S, Newer)

(* skip((page - 1) * limit), take(limit).                                  *)
MutPage(seq, page, limit) ==
  LET end == (page + 1) * limit IN
    SubSeq(seq, page * limit + 1, IF end < Len(seq) THEN end ELSE Len(seq))
Page(seq, page, limit) ==
  LET end == page * limit IN
    SubSeq(seq, (page - 1) * limit + 1, IF end < Len(seq) THEN end ELSE Len(seq))

TotalPages(n, limit) == (n + limit - 1) \div limit

Nearer(a, b) ==
  Distance[a] < Distance[b] \/ (Distance[a] = Distance[b] /\ Newer(a, b))
NearestFirst(seq) == Sorted(Range(seq), Nearer)

(* The radii a call tries: the rungs from the k it asks for upwards.       *)
MutLadder(q) == IF q.near THEN {k \in K_LADDER : k > q.k} ELSE {q.k}
Ladder(q)    == IF q.near THEN {k \in K_LADDER : k >= q.k} ELSE {q.k}

-----------------------------------------------------------------------------
list(q) ==
  /\ rungs = {}
  /\ query' = q
  /\ rungs' = Ladder(q)
  /\ counted' = FALSE /\ total' = 0 /\ items' = <<>> /\ kUsed' = q.k
  /\ stayed' = Visible(q)
  /\ UNCHANGED status

getCount ==
  /\ rungs # {} /\ ~counted
  /\ counted' = TRUE
  /\ total' = Cardinality(Matching(query, Min(rungs)))
  /\ UNCHANGED <<status, query, rungs, items, kUsed, stayed>>

getMany ==
  /\ counted
  /\ LET k     == Min(rungs)
         found == Page(NewestFirst(Matching(query, k)), query.page, query.limit)
     IN /\ items' = IF query.near THEN NearestFirst(found) ELSE found
        /\ rungs' = IF query.near /\ found = <<>> THEN rungs \ {k} ELSE {}
        /\ kUsed' = k
  /\ counted' = FALSE
  /\ UNCHANGED <<status, query, total, stayed>>

(* Requests are created, get bids or lose them, are taken, and end.        *)
Becomes(r, from, to) ==
  /\ status[r] = from
  /\ status' = [status EXCEPT ![r] = to]
  /\ UNCHANGED <<query, rungs, counted, total, items, kUsed>>
  /\ stayed' = stayed \cap Visible(query)'

World ==
  \E r \in Items :
    \/ (\A s \in 1 .. (r - 1) : status[s] # "NONE") /\ Becomes(r, "NONE", "OPEN")
    \/ Becomes(r, "OPEN", "BIDDING") \/ Becomes(r, "BIDDING", "OPEN")
    \/ Becomes(r, "BIDDING", "BOOKED") \/ Becomes(r, "BOOKED", "DELIVERED")

-----------------------------------------------------------------------------
ListingsInit ==
  /\ status = [r \in Items |-> "NONE"]
  /\ query \in Queries /\ query = CHOOSE q \in Queries : TRUE
  /\ rungs = {} /\ counted = FALSE /\ total = 0 /\ items = <<>>
  /\ kUsed = query.k
  /\ stayed = {}

ListingsNext == (\E q \in Queries : list(q)) \/ getCount \/ getMany \/ World

ListingsSpec == ListingsInit /\ [][ListingsNext]_listVars

-----------------------------------------------------------------------------
(* Properties.                                                             *)

(* Types of the call's variables; a page holds no more than its limit.     *)
ListingsTypeOK ==
  /\ status \in [Items -> {"NONE", "OPEN", "BIDDING", "BOOKED", "DELIVERED"}]
  /\ query \in Queries
  /\ rungs \subseteq 0 .. 8
  /\ counted \in BOOLEAN
  /\ total \in 0 .. MaxListed
  /\ items \in Seq(Items) /\ Len(items) <= query.limit
  /\ kUsed \in 0 .. 8
  /\ stayed \subseteq Items

(* The search stops at the first radius that has something: no request     *)
(* that was there all along is within a smaller rung than the one answered,*)
(* nor within any rung if the answer is empty, while others come and go.   *)
SearchStopsAtFirst ==
  rungs = {} /\ query.near /\ query.page = 1 =>
    \A r \in stayed, k \in K_LADDER :
      k >= query.k /\ (k < kUsed \/ items = <<>>) => Distance[r] > k

(* The pages the envelope announces hold every row of an unchanged list    *)
(* once, later pages the older rows, and none of them is empty, for        *)
(* requests and for bookings, whether the last page is full or not.  A     *)
(* search by radius is no such list: each page may stop at another rung.   *)
PagesPartition ==
  \A S \in {Visible(query), VisibleBookings(query)} :
    LET Pages   == 1 .. TotalPages(Cardinality(S), query.limit)
        page(p) == Page(NewestFirst(S), p, query.limit)
    IN /\ \A p \in Pages : page(p) # <<>>
       /\ \A r \in S : \E p \in Pages : r \in Range(page(p))
       /\ \A p, q \in Pages :
            \A i \in DOMAIN page(p), j \in DOMAIN page(q) :
              p < q \/ (p = q /\ i < j) => Newer(page(p)[i], page(q)[j])
=============================================================================
