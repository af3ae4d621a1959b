CONSTANTS Repos <- MCRepos
          Orders <- Build1Orders
          Topo_sort <- Sort
          Graphs <- MCGraphs
          MaxNode = 4
SPECIFICATION MCSpec
INVARIANTS TypeOK AnswerTells CycleFound DependenciesFirst StrictIsTotal
 
