SPECIFICATION Spec
CONSTANTS
  MaxArticles = 5
  Garbage <- MCGarbage
INVARIANTS
  TypeOK
  ListThreadsEveryArticle
  ParentsOlder
PROPERTY
  ImplementsBoard
  ImplementsLog
