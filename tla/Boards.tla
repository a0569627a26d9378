------------------------------- MODULE Boards -------------------------------
(***************************************************************************)
(* Boards, their lists and their cards                                     *)
(* (apps/api/src/boards/boards.service.ts) and who may see a confidential  *)
(* one (confidentiality.ts).  Each handler first loads the board of what   *)
(* it was asked about and checks that the user sees it; the change is a    *)
(* later call.  Deleting a board or a list takes what is on it with it.    *)
(***************************************************************************)
EXTENDS Handlers, FiniteSetsExt

CONSTANTS
    BoardIds, ListIds, CardIds,
    Directors,      \* those of People with a role that ends in _DIRECTOR
    MaxPosition     \* bound: the positions a card is given

VARIABLES
    boards,     \* the boards there are: visibility and members
    lists,      \* the lists there are: the board of each
    cards,      \* the cards there are: the list and the position of each
    home        \* history: the board each card was created on

boardVars == <<boards, lists, cards, home>>

ASSUME BoardsAssumption ==
    /\ Directors \subseteq People /\ MaxPosition \in Nat
    /\ None \notin BoardIds \cup Nat /\ "gone" \notin BoardIds \cup {None}

BoardsInit ==
    /\ boards = [b \in BoardIds |-> [visibility |-> "TEAM", members |-> {}]]
    /\ lists = [l \in ListIds |-> None]
    /\ cards = <<>>
    /\ home = <<>>

There(l) == lists[l] \in BoardIds
Lists(b) == {l \in ListIds : lists[l] = b}
On(l) == {c \in DOMAIN cards : cards[c].list = l}
Board(c) == lists[cards[c].list]

\* canSeeConfidential.
Sees(u, b) ==
    \/ boards[b].visibility = "TEAM"
    \/ u \in Directors /\ (boards[b].members = {} \/ u \in boards[b].members)

\* requireVisibleBoard, requireVisibleList, requireVisibleCard.
VisibleBoard(u, b) == b \in DOMAIN boards /\ Sees(u, b)
VisibleList(u, l) == There(l) /\ Sees(u, lists[l])
VisibleCard(u, c) == c \in DOMAIN cards /\ Sees(u, Board(c))

-----------------------------------------------------------------------------
(* The first call: what is looked up, and what is to be done then. *)

Check(w, u, board, do) ==
    /\ Begin(w, do.what, [by |-> u, board |-> board, do |-> do])
    /\ UNCHANGED boardVars

Asked(w) == call[w].saw.do

CheckBoard(w, u, b) ==
    /\ VisibleBoard(u, b)
    /\ \/ \E v \in People : Check(w, u, b, [what |-> "addMember", user |-> v])
       \/ \E v \in boards[b].members : Check(w, u, b, [what |-> "removeMember", user |-> v])
       \/ \E l \in ListIds : lists[l] = None /\ Check(w, u, b, [what |-> "addList", list |-> l])
       \/ Check(w, u, b, [what |-> "deleteBoard"])

\* reclassify looks at the role only, not at the members.
CheckReclassify(w, u, b) ==
    /\ u \in Directors
    /\ b \in DOMAIN boards
    /\ \E v \in {"TEAM", "DIRECTOR_CONFIDENTIAL"} :
           Check(w, u, b, [what |-> "reclassify", visibility |-> v])

\* Mutant: the place of the last card, not the one after it.
LastCardPosition(l) == Max({cards[c].pos : c \in On(l)} \cup {-1})

NextCardPosition(l) == Max({cards[c].pos : c \in On(l)} \cup {-1}) + 1

\* createCard puts the card where it is asked to, and reads the last position
\* when it is not asked.
CheckList(w, u, l) ==
    /\ VisibleList(u, l)
    /\ \/ \E c \in CardIds \ DOMAIN home, asked \in 0 .. MaxPosition \cup {None} :
              LET pos == IF asked = None THEN NextCardPosition(l) ELSE asked
              IN /\ pos <= MaxPosition
                 /\ Check(w, u, lists[l],
                          [what |-> "createCard", card |-> c, list |-> l, asked |-> asked, pos |-> pos])
       \/ Check(w, u, lists[l], [what |-> "deleteList", list |-> l])

\* Mutant: to any list the user sees.
CheckCardAnywhere(w, u, c) ==
    /\ VisibleCard(u, c)
    /\ \/ \E l \in ListIds, p \in 0 .. MaxPosition :
              /\ VisibleList(u, l)
              /\ Check(w, u, lists[l], [what |-> "moveCard", card |-> c, list |-> l, pos |-> p])
       \/ Check(w, u, Board(c), [what |-> "deleteCard", card |-> c])

\* moveCard: the card, then the list it goes to, which must be on the same board.
CheckCard(w, u, c) ==
    /\ VisibleCard(u, c)
    /\ \/ \E l \in ListIds, p \in 0 .. MaxPosition :
              /\ VisibleList(u, l)
              /\ lists[l] = Board(c)
              /\ Check(w, u, lists[l], [what |-> "moveCard", card |-> c, list |-> l, pos |-> p])
       \/ Check(w, u, Board(c), [what |-> "deleteCard", card |-> c])

-----------------------------------------------------------------------------
(* The call that writes.  A row that is gone makes it throw. *)

Keep(f, S) == [x \in S |-> f[x]]

SetMembers(w, what, op(_)) ==
    /\ In(w, what)
    /\ LET b == call[w].saw.board
       IN boards' = IF b \in DOMAIN boards
                      THEN [boards EXCEPT ![b].members = op(@)] ELSE boards
    /\ Done(w)
    /\ UNCHANGED <<lists, cards, home>>

AddMember(w) == SetMembers(w, "addMember", LAMBDA m : m \cup {Asked(w).user})
RemoveMember(w) == SetMembers(w, "removeMember", LAMBDA m : m \ {Asked(w).user})

Reclassify(w) ==
    /\ In(w, "reclassify")
    /\ LET b == call[w].saw.board
       IN boards' = IF b \in DOMAIN boards
                      THEN [boards EXCEPT ![b].visibility = Asked(w).visibility] ELSE boards
    /\ Done(w)
    /\ UNCHANGED <<lists, cards, home>>

CreateList(w) ==
    /\ In(w, "addList")
    /\ LET b == call[w].saw.board
           l == Asked(w).list
       IN lists' = IF b \in DOMAIN boards /\ lists[l] = None THEN [lists EXCEPT ![l] = b] ELSE lists
    /\ Done(w)
    /\ UNCHANGED <<boards, cards, home>>

\* A list that is gone, by a cascade too: its cards go, and its id is not used
\* again.
WithoutLists(gone) ==
    /\ lists' = [l \in ListIds |-> IF l \in gone THEN "gone" ELSE lists[l]]
    /\ cards' = Keep(cards, {c \in DOMAIN cards : cards[c].list \notin gone})
    /\ UNCHANGED home

DeleteList(w) ==
    /\ In(w, "deleteList")
    /\ WithoutLists({Asked(w).list})
    /\ Done(w)
    /\ UNCHANGED boards

DeleteBoard(w) ==
    /\ In(w, "deleteBoard")
    /\ boards' = Keep(boards, DOMAIN boards \ {call[w].saw.board})
    /\ WithoutLists(Lists(call[w].saw.board))
    /\ Done(w)

PutCard(w) ==
    LET do == Asked(w)
    IN cards' = [c \in DOMAIN cards \cup {do.card} |->
                    IF c = do.card THEN [list |-> do.list, pos |-> do.pos] ELSE cards[c]]

CreateCard(w) ==
    /\ In(w, "createCard")
    /\ LET do == Asked(w)
       IN IF There(do.list) /\ do.card \notin DOMAIN home
            THEN /\ PutCard(w)
                 /\ home' = [c \in DOMAIN home \cup {do.card} |->
                                IF c = do.card THEN lists[do.list] ELSE home[c]]
            ELSE UNCHANGED <<cards, home>>
    /\ Done(w)
    /\ UNCHANGED <<boards, lists>>

MoveCard(w) ==
    /\ In(w, "moveCard")
    /\ IF There(Asked(w).list) /\ Asked(w).card \in DOMAIN cards THEN PutCard(w) ELSE UNCHANGED cards
    /\ Done(w)
    /\ UNCHANGED <<boards, lists, home>>

DeleteCard(w) ==
    /\ In(w, "deleteCard")
    /\ cards' = Keep(cards, DOMAIN cards \ {Asked(w).card})
    /\ Done(w)
    /\ UNCHANGED <<boards, lists, home>>

BoardCalls == {"addMember", "removeMember", "addList", "deleteBoard", "reclassify",
               "createCard", "deleteList", "moveCard", "deleteCard"}

BoardsStep(w) ==
    \/ \E u \in People :
           \/ \E b \in BoardIds : CheckBoard(w, u, b) \/ CheckReclassify(w, u, b)
           \/ \E l \in {m \in ListIds : There(m)} : CheckList(w, u, l)
           \/ \E c \in DOMAIN cards : CheckCard(w, u, c)
    \/ AddMember(w) \/ RemoveMember(w) \/ Reclassify(w) \/ CreateList(w) \/ DeleteList(w)
    \/ DeleteBoard(w) \/ CreateCard(w) \/ MoveCard(w) \/ DeleteCard(w)
    \/ call[w].at \in BoardCalls /\ Crash(w) /\ UNCHANGED boardVars

BoardsNext == \E w \in Workers : BoardsStep(w)

-----------------------------------------------------------------------------

BoardsTypeOK ==
    /\ DOMAIN boards \subseteq BoardIds
    /\ \A b \in DOMAIN boards :
           boards[b].visibility \in {"TEAM", "DIRECTOR_CONFIDENTIAL"} /\ boards[b].members \subseteq People
    /\ lists \in [ListIds -> BoardIds \cup {None, "gone"}]
    /\ \A c \in DOMAIN cards : c \in CardIds /\ cards[c].list \in ListIds /\ cards[c].pos \in 0 .. MaxPosition

\* Whatever overlaps or fails: every card is on a list of the board it was
\* created on, and every list on a board that is there.
CardsStayHome ==
    /\ \A c \in DOMAIN cards : There(cards[c].list) /\ Board(c) = home[c]
    /\ \A l \in ListIds : There(l) => lists[l] \in DOMAIN boards

\* One request at a time: what is on a board changes only for somebody who sees
\* the board, only a director changes who does by its visibility, and a new card
\* for which no position was asked comes after the others of its list.
BoardsKept ==
    ~overlapped' =>
        /\ cards' # cards \/ lists' # lists =>
               \E w \in Workers : call[w].at \in BoardCalls /\ Sees(call[w].saw.by, call[w].saw.board)
        /\ \A b \in DOMAIN boards \cap DOMAIN boards' :
               boards'[b].visibility # boards[b].visibility =>
                   \E w \in Workers : In(w, "reclassify") /\ call[w].saw.by \in Directors
        /\ \A c \in DOMAIN cards' \ DOMAIN cards :
               \/ \E w \in Workers : In(w, "createCard") /\ Asked(w).asked # None
               \/ \A d \in On(cards'[c].list) : cards[d].pos < cards'[c].pos

=============================================================================
