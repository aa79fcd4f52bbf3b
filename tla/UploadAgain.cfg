SPECIFICATION FairSpec
CONSTANTS
    c1 = c1
    c2 = c2
    Client = {c1}
    Content <- OneContent
    Policy <- OnePolicy
    MaxFailures = 1
    MaxStops = 0
PROPERTIES RecipeGetsThrough
