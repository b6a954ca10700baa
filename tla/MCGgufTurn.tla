------------------------------- MODULE MCGgufTurn ------------------------------
(* A window of nine tokens; conversations that share prefixes, need trimming, *)
(* or never fit, with an image in one of their turns or with none; tokens     *)
(* that end inside a character.                                               *)
EXTENDS GgufTurn, SequencesExt

Says(role, body) == [role |-> role, body |-> body, media |-> FALSE]
Sys == Says("system", << >>)
User(word) == Says("user", << <<word>> >>)
Long == Says("user", [i \in 1 .. 5 |-> <<"h">>])
Answer == Says("assistant", << <<"A">> >>)

Texts ==
  { << User("h") >>, << User("A") >>,
    << User("h"), Answer, User("i") >>,
    << Sys, User("h"), Answer, User("i") >>,
    << Answer, User("h"), User("i") >>,
    << Sys, Long >>,
    << User("h"), Says("assistant", << <<"A">>, <<"C">> >>), User("i"), User("h") >> }

\* The same with an image in the message i of the user.
Shown(c, i) == [c EXCEPT ![i].media = TRUE]

MCConversations ==
  Texts \cup UNION {{Shown(c, i) : i \in {j \in DOMAIN c : c[j].role = "user"}} : c \in Texts}

MCBodies == UNION {{c[i].body : i \in DOMAIN c} : c \in MCConversations}

\* An image becomes two cells; the role opens a message, or closes the user's,
\* so that a prompt may begin with a word that was generated before;
\* add_generation_prompt ends the prompt.
MCTemplate(list) ==
  FlattenSeq([i \in DOMAIN list |->
      LET role == << <<list[i].role>> >>
          says == (IF list[i].media THEN << <<"image">>, <<"image">> >> ELSE << >>) \o list[i].body
      IN IF list[i].role = "user" THEN says \o role ELSE role \o says])
    \o << <<"assistant">> >>

MCPieces == { <<"A">>, <<"C">>, <<"L3">>, <<"L3", "C">> }
MCToken == MCPieces \cup
  {<<w>> : w \in {"system", "user", "assistant", "h", "i", "image", "decoder start"}}
===============================================================================
