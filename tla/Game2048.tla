------------------------------ MODULE Game2048 ------------------------------
(***************************************************************************)
(* The game of HW_17-Game: the board (game.c), the table of scores and its *)
(* file (leaderboard.c), the event loop (2048.c).  Drawing, sound and the  *)
(* player's name, the same for everyone, are left out: an entry of the     *)
(* table is its score.                                                     *)
(***************************************************************************)
EXTENDS Integers, Sequences, SequencesExt, FiniteSets, FiniteSetsExt, Functions

CONSTANTS
  SIZE, TARGET, MAX_LEADERBOARD,
  OldFiles,    \* what the file may hold at first: tables of earlier sessions
  MaxStarts,   \* how often the program is started (bound)
  MaxGames,    \* how many games are begun (bound)
  MaxFaults    \* how often saving goes wrong (bound)

ASSUME GameAssumption ==
  /\ SIZE \in Nat /\ SIZE > 1 /\ TARGET \in Nat
  /\ MAX_LEADERBOARD \in Nat \ {0}
  /\ MaxStarts \in Nat /\ MaxGames \in Nat /\ MaxFaults \in Nat

InOrder(t) == \A k \in 1 .. Len(t) - 1 : t[k] >= t[k + 1]

(* The file was written by this program: in order and never too long.      *)
ASSUME OldFilesAssumption ==
  \A t \in OldFiles : t \in Seq(Nat) /\ Len(t) <= MAX_LEADERBOARD /\ InOrder(t)

VARIABLES
  board, score, gameOver, win,           \* GameState
  phase, selectedMenuItem, running,      \* the event loop
  leaderboard,                           \* the table in memory
  file,                                  \* the scores in the file
  saving,                                \* the file is truncated, not yet written
  starts, games, faults,
  fours,      \* history: tiles of 4 this game was given
  results     \* history: <<game, score>> of every attempt to enter the table

state == <<board, score, gameOver, win, fours>>
table == <<leaderboard, file, saving, faults, results>>
vars == <<state, table, phase, selectedMenuItem, running, starts, games>>

Index == 1 .. SIZE
NoTiles == [i \in Index |-> [j \in Index |-> 0]]
Cells == Index \X Index
Tile(b, c) == b[c[1]][c[2]]
Empty(b) == {c \in Cells : Tile(b, c) = 0}
WithTile(b, c, v) == [b EXCEPT ![c[1]][c[2]] = v]

-----------------------------------------------------------------------------
(* The sum of f[1], ..., f[n].                                             *)
Total(f, n) ==
  LET sum[k \in 0 .. n] == IF k = 0 THEN 0 ELSE sum[k - 1] + f[k] IN sum[n]

(* Moves (game.c).  moveRowLeft: collect what is not zero, then merge      *)
(* equal neighbours from the left; the index goes on after a merge.        *)
Collected(tiles, v) == IF v = 0 THEN tiles ELSE Append(tiles, v)
TilesOf(row) ==
  LET tiles[j \in 0 .. Len(row)] == IF j = 0 THEN <<>> ELSE Collected(tiles[j - 1], row[j])
  IN  tiles[Len(row)]

MergeAt(line, i) ==
  IF i < Len(line.row) /\ line.row[i] = line.row[i + 1]
  THEN [row    |-> SubSeq(line.row, 1, i - 1) \o <<2 * line.row[i]>>
                     \o SubSeq(line.row, i + 2, Len(line.row)),
        gained |-> line.gained + 2 * line.row[i]]
  ELSE line
Bug_MergesTwice(line, i) ==
  IF i < Len(line.row) /\ line.row[i] = line.row[i + 1] THEN MergeAt(MergeAt(line, i), i)
  ELSE line
MergeStep(line, i) == MergeAt(line, i)
Merged(tiles) ==
  LET merged[i \in 0 .. Len(tiles)] ==
        IF i = 0 THEN [row |-> tiles, gained |-> 0] ELSE MergeStep(merged[i - 1], i)
  IN  merged[Len(tiles)]

Padded(row, n) == [k \in 1 .. n |-> IF k <= Len(row) THEN row[k] ELSE 0]
moveRowLeft(row) ==
  LET merged == Merged(TilesOf(row))
  IN  [row |-> Padded(merged.row, Len(row)), gained |-> merged.gained]

transpose(b) == [i \in Index |-> [j \in Index |-> b[j][i]]]
MoveLeft(b) ==
  LET lines == [i \in Index |-> moveRowLeft(b[i])]
  IN  [board  |-> [i \in Index |-> lines[i].row],
       gained |-> Total([i \in Index |-> lines[i].gained], SIZE)]
Bug_LastRowScores(b) ==
  LET lines == [i \in Index |-> moveRowLeft(Reverse(b[i]))]
  IN  [board |-> [i \in Index |-> Reverse(lines[i].row)], gained |-> lines[SIZE].gained]
MoveRight(b) ==
  LET lines == [i \in Index |-> moveRowLeft(Reverse(b[i]))]
  IN  [board  |-> [i \in Index |-> Reverse(lines[i].row)],
       gained |-> Total([i \in Index |-> lines[i].gained], SIZE)]
Moved(dir, b) ==
  CASE dir = "left"  -> MoveLeft(b)
    [] dir = "right" -> MoveRight(b)
    [] dir = "up"    -> [MoveLeft(transpose(b))  EXCEPT !.board = transpose(@)]
    [] dir = "down"  -> [MoveRight(transpose(b)) EXCEPT !.board = transpose(@)]
Directions == {"left", "right", "up", "down"}

Bug_RowsOnly(b) ==
  \/ Empty(b) # {}
  \/ \E i \in Index, j \in 1 .. SIZE - 1 : b[i][j] = b[i][j + 1]
gameCanMove(b) ==
  \/ Empty(b) # {}
  \/ \E i \in Index, j \in 1 .. SIZE - 1 : b[i][j] = b[i][j + 1]
  \/ \E j \in Index, i \in 1 .. SIZE - 1 : b[i][j] = b[i + 1][j]
gameCheckWin(b) == \E c \in Cells : Tile(b, c) = TARGET

(* gameInit: two tiles.                                                    *)
gameInit ==
  \E c, d \in Cells, v, w \in {2, 4} :
    /\ c # d
    /\ board' = WithTile(WithTile(NoTiles, c, v), d, w)
    /\ fours' = (v \div 4) + (w \div 4)
    /\ score' = 0 /\ gameOver' = FALSE /\ win' = FALSE

-----------------------------------------------------------------------------
(* The table (leaderboard.c).                                              *)
Bug_BeatsFirst(s) == Len(leaderboard) < MAX_LEADERBOARD \/ s > leaderboard[1]
isHighScore(s) == \/ Len(leaderboard) < MAX_LEADERBOARD
                  \/ s > leaderboard[Len(leaderboard)]
Kept == SubSeq(leaderboard, 1, Min({Len(leaderboard), MAX_LEADERBOARD - 1}))
qsort(t) ==
  CHOOSE u \in {[k \in DOMAIN t |-> t[p[k]]] : p \in Bijection(DOMAIN t, DOMAIN t)} : InOrder(u)
Added(s) == qsort(Append(Kept, s))
loadLeaderboard == SubSeq(file, 1, Min({Len(file), MAX_LEADERBOARD}))

(* addLeaderboardEntry and saveLeaderboard up to the fopen that truncates  *)
(* the file, or fails.                                                     *)
Enter(s) ==
  /\ results' = results \union {<<games, s>>}
  /\ IF isHighScore(s)
     THEN /\ leaderboard' = Added(s)
          /\ \/ file' = <<>> /\ saving' = TRUE /\ UNCHANGED faults
             \/ faults < MaxFaults /\ faults' = faults + 1 /\ UNCHANGED <<file, saving>>
     ELSE UNCHANGED <<leaderboard, file, saving, faults>>

(* What the digits of a number start with: what is left of it when the     *)
(* last ones are missing.                                                  *)
Leading[v \in Nat] == IF v <= 9 THEN {} ELSE {v \div 10} \union Leading[v \div 10]

(* Writing and fclose; a full disk keeps part of the bytes: some entries   *)
(* and of the next one nothing that can be read, or a part of its number,  *)
(* which the next load takes for the score.                                *)
PartsOf(t) ==
  UNION {{SubSeq(t, 1, n)} \union {Append(SubSeq(t, 1, n), c) : c \in Leading[t[n + 1]]}
           : n \in 0 .. Len(t) - 1}
FinishSave ==
  /\ running /\ saving
  /\ saving' = FALSE
  /\ \/ file' = leaderboard /\ UNCHANGED faults
     \/ faults < MaxFaults /\ faults' = faults + 1 /\ file' \in PartsOf(leaderboard)
  /\ UNCHANGED <<state, phase, selectedMenuItem, running, leaderboard, results, starts, games>>

-----------------------------------------------------------------------------
Init == /\ board = NoTiles /\ score = 0 /\ gameOver = FALSE /\ win = FALSE
        /\ phase = "menu" /\ selectedMenuItem = 0 /\ running = FALSE
        /\ file \in OldFiles /\ leaderboard = <<>> /\ saving = FALSE
        /\ starts = 0 /\ games = 0 /\ faults = 0 /\ fours = 0
        /\ results = {<<-k, file[k]>> : k \in DOMAIN file}

Start == /\ ~running /\ starts < MaxStarts
         /\ starts' = starts + 1 /\ running' = TRUE
         /\ gameInit
         /\ phase' = "menu" /\ selectedMenuItem' = 0
         /\ leaderboard' = loadLeaderboard
         /\ UNCHANGED <<file, saving, faults, results, games>>

Event == running /\ ~saving   \* the loop takes the next event

(* PHASE_MENU.                                                             *)
MenuUpDown == /\ Event /\ phase = "menu"
              /\ \E step \in {-1, 1} : selectedMenuItem' = (selectedMenuItem + step + 4) % 4
              /\ UNCHANGED <<state, table, phase, running, starts, games>>
NewGame == /\ Event /\ phase = "menu" /\ selectedMenuItem = 0 /\ games < MaxGames
           /\ gameInit /\ games' = games + 1 /\ phase' = "play"
           /\ UNCHANGED <<table, selectedMenuItem, running, starts>>
ShowControls == /\ Event /\ phase = "menu" /\ selectedMenuItem = 1
                /\ phase' = "controls"
                /\ UNCHANGED <<state, table, selectedMenuItem, running, starts, games>>
ShowLeaderboard == /\ Event /\ phase = "menu" /\ selectedMenuItem = 2
                   /\ leaderboard' = loadLeaderboard /\ phase' = "leaderboard"
                   /\ UNCHANGED <<state, file, saving, faults, results, selectedMenuItem,
                                  running, starts, games>>

(* PHASE_CONTROLS and PHASE_LEADERBOARD know one key.                      *)
Back == /\ Event /\ phase \in {"controls", "leaderboard"}
        /\ phase' = "menu"
        /\ UNCHANGED <<state, table, selectedMenuItem, running, starts, games>>

(* PHASE_PLAY.  Whatever the key was, the end of the game is looked at     *)
(* after it; here is the phase the key itself leads to.                    *)
Bug_StaysAfterWin(here) == here
AfterRecord(here) == "leaderboard"
AfterKey(here) ==
  IF win'
  THEN /\ Enter(score')
       /\ phase' = IF isHighScore(score') THEN AfterRecord(here) ELSE here
  ELSE IF gameOver' THEN Enter(score') /\ phase' = "leaderboard"
  ELSE phase' = here /\ UNCHANGED <<leaderboard, file, saving, faults, results>>

(* The board as the code has it when it looks for the end: gameMoveUp and  *)
(* gameMoveDown still have it transposed.                                  *)
Seen(dir, b) == IF dir \in {"up", "down"} THEN transpose(b) ELSE b

Move(dir) ==
  LET m == Moved(dir, board)
  IN  /\ Event /\ phase = "play"
      /\ m.board # board
      /\ \E c \in Empty(m.board), v \in {2, 4} :
           /\ board' = WithTile(m.board, c, v)
           /\ fours' = fours + v \div 4
      /\ score' = score + m.gained
      /\ win' = gameCheckWin(Seen(dir, board')) /\ gameOver' = ~gameCanMove(Seen(dir, board'))
      /\ AfterKey("play")
      /\ UNCHANGED <<selectedMenuItem, running, starts, games>>

(* A move that changes nothing, `m' and every other key.                   *)
IdleKey == /\ Event /\ phase = "play"
           /\ UNCHANGED <<board, score, gameOver, win, fours>>
           /\ AfterKey("play")
           /\ UNCHANGED <<selectedMenuItem, running, starts, games>>
Escape == /\ Event /\ phase = "play"
          /\ UNCHANGED <<board, score, gameOver, win, fours>>
          /\ AfterKey("menu")
          /\ UNCHANGED <<selectedMenuItem, running, starts, games>>
Restart == /\ Event /\ phase = "play" /\ games < MaxGames
           /\ gameInit /\ games' = games + 1
           /\ UNCHANGED <<table, phase, selectedMenuItem, running, starts>>

(* Leaving by the menu, by Escape in the menu or by closing the window,    *)
(* which ends the program when the events already queued are handled, as   *)
(* the steps before Quit; being killed, with the file truncated.           *)
Stop == /\ board' = NoTiles /\ score' = 0 /\ gameOver' = FALSE /\ win' = FALSE
        /\ fours' = 0
        /\ running' = FALSE /\ leaderboard' = <<>> /\ phase' = "menu" /\ selectedMenuItem' = 0
Quit == /\ Event /\ Stop
        /\ UNCHANGED <<file, saving, faults, results, starts, games>>
Killed == /\ running /\ saving /\ faults < MaxFaults
          /\ Stop /\ saving' = FALSE /\ faults' = faults + 1
          /\ UNCHANGED <<file, results, starts, games>>

Next == \/ Start \/ FinishSave
        \/ MenuUpDown \/ NewGame \/ ShowControls \/ ShowLeaderboard \/ Back
        \/ \E dir \in Directions : Move(dir)
        \/ IdleKey \/ Escape \/ Restart
        \/ Quit \/ Killed

Spec == Init /\ [][Next]_vars

-----------------------------------------------------------------------------
(* The reference for a slide: in a run of equal tiles every odd one stays, *)
(* doubled when the next one of the run joins it, every even one is gone.  *)
InRun(tiles, i) == Cardinality({k \in 1 .. i : \A j \in k .. i : tiles[j] = tiles[i]})
WithNext(left, tiles, i) ==
  IF InRun(tiles, i) % 2 = 0 THEN left
  ELSE Append(left, IF i < Len(tiles) /\ tiles[i + 1] = tiles[i] THEN 2 * tiles[i] ELSE tiles[i])
WithoutEven(tiles) ==
  LET left[i \in 0 .. Len(tiles)] == IF i = 0 THEN <<>> ELSE WithNext(left[i - 1], tiles, i)
  IN  left[Len(tiles)]
SlideRef(row) == Padded(WithoutEven(TilesOf(row)), Len(row))

(* What making a tile out of twos earns: (k - 1) * 2^k for 2^k.            *)
Worth[v \in Nat] == IF v <= 2 THEN 0 ELSE v + 2 * Worth[v \div 2]
RowWorth(row) == Total([j \in 1 .. Len(row) |-> Worth[row[j]]], Len(row))
BoardWorth(b) == Total([i \in Index |-> RowWorth(b[i])], SIZE)

(* A row of four slides as the reference says: no tile is merged twice in  *)
(* one move, pairs are taken from the side it slides to, and what a merge  *)
(* makes is what the score gains (game.c:55-87).  This does not depend on  *)
(* the state and is looked at before the first start.                      *)
RowsSlide ==
  starts = 0 =>
  \A row \in [1 .. 4 -> {0, 2, 4, 8}] :
    LET slid == moveRowLeft(row)
    IN  slid.row = SlideRef(row) /\ RowWorth(slid.row) = RowWorth(row) + slid.gained

(* The score is exactly what the tiles on the board have earned, less 4    *)
(* for every four that was given instead of made (game.c:66-78, 89-153):   *)
(* no move in any direction forgets a row's merges or counts them twice.   *)
ScoreExplained == score + 4 * fours = BoardWorth(board)

(* The flag that ends a game is up exactly when no direction would change  *)
(* the board (game.c:155-187), and what becomes of the game follows it     *)
(* (2048.c:145-158): it goes to the table only when it is won or stuck, so *)
(* that no player is stopped too early, and is not played on when it is    *)
(* stuck and was not won, in front of a board that takes no key.           *)
Immovable(b) == \A dir \in Directions : Moved(dir, b).board = b
OverIsStuck ==
  /\ [](running => (gameOver <=> Immovable(board)))
  /\ [](running /\ phase = "play" => win \/ ~Immovable(board))
  /\ [][phase = "play" /\ phase' = "leaderboard" => win' \/ Immovable(board')]_vars

KthBest(t, k) ==
  /\ Cardinality({r \in results : r[2] > t[k]}) < k
  /\ Cardinality({r \in results : r[2] >= t[k]}) >= k
Best(t) == /\ Len(t) = Min({MAX_LEADERBOARD, Cardinality(results)})
           /\ \A k \in DOMAIN t : KthBest(t, k)

(* While nothing goes wrong, the table and its file are the best results   *)
(* of all games, over restarts and reloads (leaderboard.c:80-103); what    *)
(* keeps the minimum last is the order of sorting, saving and loading.     *)
TableIsBest ==
  faults = 0 => /\ ~saving => Best(file)
                /\ running => Best(leaderboard)

(* Whatever goes wrong in saving, table and file stay in order, and every  *)
(* entry is the result of a game of its own, however many keys follow the  *)
(* end of a game, since that is looked at after every key (2048.c:145-158).*)
(* Only a save that was cut short (leaderboard.c:67-70) leaves an entry    *)
(* below its game's result, one for each fault: the digits it starts with. *)
NothingInvented ==
  \A t \in {file, leaderboard} :
    /\ InOrder(t)
    /\ \E g \in [DOMAIN t -> results] :
         /\ \A k \in DOMAIN t : t[k] \in {g[k][2]} \union Leading[g[k][2]]
         /\ \A j, k \in DOMAIN t : g[j][1] = g[k][1] => j = k
         /\ Cardinality({k \in DOMAIN t : t[k] # g[k][2]}) <= faults
=============================================================================
