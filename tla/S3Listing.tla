------------------------------ MODULE S3Listing ------------------------------
(***************************************************************************)
(* The listings of a bucket: ListObjectsV1 and V2 return a page, and where *)
(* the next page starts is all that the next request carries, so objects   *)
(* come and go between the pages of one listing.                           *)
(***************************************************************************)
EXTENDS Integers, Sequences, FiniteSets, SequencesExt

CONSTANTS
  Keys,        \* the keys of the bucket's objects, sequences of letters in Nat
  Delimiter,   \* a letter
  ListPrefixes,    \* the values of prefix
  PageSizes    \* the values of max-keys

ASSUME ListingAssumption ==
  /\ Keys \subseteq Seq(Nat) \ {<<>>}
  /\ Delimiter \in Nat
  /\ ListPrefixes \subseteq Seq(Nat)
  /\ PageSizes \subseteq Nat \ {0}

VARIABLES
  present,   \* the keys of the bucket's objects
  listing    \* a listing under way, or finished, as its client sees it

listingVars == <<present, listing>>

(* stable: the keys that were there all the time.  listed: what was        *)
(* returned, keys and common prefixes, and repeated: more than once.       *)
NoListing == [stage |-> "none"]

ListingInit == present \in {keys \in SUBSET Keys : IsFiniteSet(keys)} /\ listing = NoListing
-----------------------------------------------------------------------------
(* The order of strings, and strings.HasPrefix. *)
Before(s, t) ==
  \/ IsStrictPrefix(s, t)
  \/ \E i \in DOMAIN s \cap DOMAIN t : s[i] < t[i] /\ SubSeq(s, 1, i - 1) = SubSeq(t, 1, i - 1)

(* What a key is listed as: itself, or the common prefix that ends with    *)
(* the first delimiter after the prefix.                                   *)
Delimiters(key, prefix) == {i \in DOMAIN key : i > Len(prefix) /\ key[i] = Delimiter}

Entry(key, prefix, delimited) ==
  IF delimited /\ Delimiters(key, prefix) # {}
  THEN SubSeq(key, 1, CHOOSE i \in Delimiters(key, prefix) : \A j \in Delimiters(key, prefix) : i <= j)
  ELSE key

Candidates(prefix, startAfter) ==
  {key \in present : IsPrefix(prefix, key) /\ Before(startAfter, key)}

(* The entries of a page, of which there are max at most: the first ones   *)
(* in the order of the keys they stand for.                                *)
EarlierEntries(candidates, key, prefix, delimited) ==
  {Entry(other, prefix, delimited) : other \in {o \in candidates : Before(o, key)}}
    \ {Entry(key, prefix, delimited)}

PageOf(candidates, prefix, delimited, max) ==
  {key \in candidates : Cardinality(EarlierEntries(candidates, key, prefix, delimited)) < max}

(* Mistaken variant of NextMarker: the first key of a common prefix.       *)
FirstOfEntry(page, prefix, delimited) ==
  LET last == CHOOSE key \in page : \A other \in page : other = key \/ Before(other, key)
  IN  CHOOSE key \in page :
        /\ Entry(key, prefix, delimited) = Entry(last, prefix, delimited)
        /\ \A other \in page : Before(other, key) => Entry(other, prefix, delimited) # Entry(last, prefix, delimited)

(* The last key that the page stands for, not the last entry. *)
NextMarker(page, prefix, delimited) ==
  CHOOSE key \in page : \A other \in page : other = key \/ Before(other, key)

StartListing(prefix, delimited, max) ==
  /\ listing.stage # "pages"
  /\ listing' = [stage |-> "pages", prefix |-> prefix, delimited |-> delimited, max |-> max,
                 startAfter |-> <<>>, listed |-> {}, repeated |-> {}, stable |-> present, was |-> present]
  /\ UNCHANGED present

(* One request.  V1 gives no NextMarker without a delimiter: its client    *)
(* takes the last key, which is the same.                                  *)
ListPage ==
  LET candidates == Candidates(listing.prefix, listing.startAfter)
      page == PageOf(candidates, listing.prefix, listing.delimited, listing.max)
      entries == {Entry(key, listing.prefix, listing.delimited) : key \in page}
  IN  /\ listing.stage = "pages"
      /\ listing' = [listing EXCEPT
           !.stage = IF page = candidates THEN "done" ELSE "pages",
           !.startAfter = IF page = {} THEN @ ELSE NextMarker(page, listing.prefix, listing.delimited),
           !.listed = @ \cup entries,
           !.repeated = @ \cup (entries \cap listing.listed)]
      /\ UNCHANGED present

(* Puts and deletes between two pages. *)
ChangeKeys(keys) ==
  /\ present' = keys
  /\ listing' = IF listing.stage = "pages"
                THEN [listing EXCEPT !.stable = @ \cap keys, !.was = @ \cup keys]
                ELSE listing

ListingNext ==
  \/ \E prefix \in ListPrefixes, delimited \in BOOLEAN, max \in PageSizes : StartListing(prefix, delimited, max)
  \/ ListPage
  \/ \E key \in Keys : ChangeKeys(present \cup {key}) \/ ChangeKeys(present \ {key})

ListingSpec == ListingInit /\ [][ListingNext]_listingVars
-----------------------------------------------------------------------------
(* A listing that reached its last page has returned every object that was *)
(* there all the time and begins with the prefix, by its key or by its     *)
(* common prefix, and nothing that was never there; a key comes once, and  *)
(* so does a common prefix unless objects were put under it meanwhile      *)
(* (ListObjectPage, NextMarker, continuation tokens).                      *)
ListingIsComplete ==
  listing.stage = "done" =>
    LET Asked(keys) == {Entry(key, listing.prefix, listing.delimited) :
                          key \in {k \in keys : IsPrefix(listing.prefix, k)}}
    IN  /\ Asked(listing.stable) \subseteq listing.listed
        /\ listing.listed \subseteq Asked(listing.was)
        /\ listing.stable = listing.was => listing.repeated = {}
        /\ \A entry \in listing.repeated : listing.delimited /\ Last(entry) = Delimiter
=============================================================================
